------------------------- MODULE Planificacion_proof -------------------------
(***************************************************************************)
(* Theorems about Planificacion for every number of processes and CPUs and *)
(* for both pairs of algorithms.                                           *)
(***************************************************************************)
EXTENDS Planificacion, Listas_proof, FiniteSetTheorems

(* Each planner holds, between its locked regions, a process that is still *)
(* in the list it was read from: only new_a_ready takes processes out of   *)
(* NEW and SUSP_READY, only exit_a_fin out of EXIT, only planificacion_    *)
(* corto out of READY.                                                     *)
NarConProceso == {"consulta", "crea", "recierra", "desuspende", "colgado", "pasa"}

OrigenNar == IF nar.susp THEN "SUSP_READY" ELSE "NEW"

TomaNar == nar.pc \in NarConProceso => nar.p \in Pids /\ En(nar.p, OrigenNar)

TomaEaf == eaf.pc \in {"conecta", "responde", "finaliza"} =>
             eaf.p \in Pids /\ En(eaf.p, "EXIT")

TomaCorto ==
  /\ corto.pc \in {"saca", "asigna"} =>
       corto.p \in Pids /\ corto.c \in Cpus /\ cpu[corto.c] = "LIBRE"
  /\ corto.pc = "saca" => En(corto.p, "READY")

(* A CPU that is LIBRE owes nothing; one that has sent a syscall that ends *)
(* the turn runs nothing and has nothing else in its socket behind it.     *)
CpuLibreCallada ==
  \A c \in Cpus : cpu[c] = "LIBRE" => /\ enviados[c] = {}
                                      /\ syscall[c] = <<>>
                                      /\ hiloCpu[c].pc # "libera"

CpuUnProceso == \A c \in Cpus : \A p, q \in enviados[c] : p = q

CpuCallaAlCeder ==
  \A c \in Cpus :
    /\ \A i \in 1 .. Len(syscall[c]) :
         syscall[c][i].tipo # "INIT" => i = Len(syscall[c]) /\ enviados[c] = {}
    /\ hiloCpu[c].pc = "libera" => enviados[c] = {} /\ syscall[c] = <<>>

(* The bound on ids: an INIT_PROC in flight still has an id to take.       *)
IdParaInit ==
  \A c \in Cpus : \A i \in 1 .. Len(syscall[c]) : syscall[c][i].tipo = "INIT" =>
    /\ id_pcb_generador < MaxProcesos
    /\ \A d \in Cpus : \A j \in 1 .. Len(syscall[d]) :
         syscall[d][j].tipo = "INIT" => c = d /\ i = j

CpuCoherente == CpuLibreCallada /\ CpuUnProceso /\ CpuCallaAlCeder

Inv1 == /\ TypeOK
        /\ TomaNar /\ TomaEaf /\ TomaCorto
        /\ CpuCoherente /\ IdParaInit
        /\ CuentaReady /\ CuentaExit /\ CuentaEspIni /\ CuentaCpus

------------------------------------------------------------------------------
(* A process is put at a position that exists.                             *)
LEMMA PosicionesTipo ==
  ASSUME TypeOK, NEW e \in EstadoProceso, NEW p \in Pids
  PROVE  Posiciones(e, p) \subseteq 1 .. Len(lista[e]) + 1
<1>1. Len(lista[e]) \in Nat
  BY LenProperties DEF TypeOK, TipoLista
<1> QED BY <1>1 DEF Posiciones

(* pasar_proceso_de_estado_a_otro, by what it does to the lists.           *)
LEMMA PasarProps ==
  ASSUME TypeOK, NEW p \in Pids, NEW de \in EstadoProceso,
         NEW a \in EstadoProceso, de # a, Pasar(p, de, a)
  PROVE  /\ lista' \in [EstadoProceso -> Seq(Pids)]
         /\ Len(lista'[a]) = Len(lista[a]) + 1
         /\ Contains(lista[de], p) => Len(lista'[de]) = Len(lista[de]) - 1
         /\ \A e \in EstadoProceso \ {de, a} : lista'[e] = lista[e]
         /\ \A q : Contains(lista'[a], q) <=> q = p \/ Contains(lista[a], q)
         /\ \A q : q # p => (Contains(lista'[de], q) <=> Contains(lista[de], q))
         /\ SinRepetidos(lista[de]) => SinRepetidos(lista'[de])
                                       /\ ~Contains(lista'[de], p)
         /\ SinRepetidos(lista[a]) /\ ~Contains(lista[a], p) =>
              SinRepetidos(lista'[a])
<1>1. PICK i \in Posiciones(a, p) :
        lista' = [lista EXCEPT ![de] = RemoveFirst(@, p),
                               ![a] = InsertAt(@, i, p)]
  BY DEF Pasar
<1>2. lista \in [EstadoProceso -> Seq(Pids)]
  BY DEF TypeOK, TipoLista
<1>3. /\ lista'[de] = RemoveFirst(lista[de], p)
      /\ lista'[a] = InsertAt(lista[a], i, p)
      /\ \A e \in EstadoProceso \ {de, a} : lista'[e] = lista[e]
      /\ DOMAIN lista' = EstadoProceso
      /\ lista' = [e \in EstadoProceso |-> lista'[e]]
  BY <1>1, <1>2
<1>4. i \in 1 .. Len(lista[a]) + 1 /\ lista[a] \in Seq(Pids) /\ lista[de] \in Seq(Pids)
  BY <1>1, <1>2, PosicionesTipo
<1>5. /\ InsertAt(lista[a], i, p) \in Seq(Pids)
      /\ Len(InsertAt(lista[a], i, p)) = Len(lista[a]) + 1
      /\ \A x : Contains(InsertAt(lista[a], i, p), x) <=> x = p \/ Contains(lista[a], x)
      /\ SinRepetidos(lista[a]) /\ ~Contains(lista[a], p) =>
           SinRepetidos(InsertAt(lista[a], i, p))
  BY <1>4, PonerProps
<1>6. /\ RemoveFirst(lista[de], p) \in Seq(Pids)
      /\ Contains(lista[de], p) => Len(RemoveFirst(lista[de], p)) = Len(lista[de]) - 1
      /\ \A x : x # p => (Contains(RemoveFirst(lista[de], p), x) <=> Contains(lista[de], x))
      /\ SinRepetidos(lista[de]) => /\ SinRepetidos(RemoveFirst(lista[de], p))
                                    /\ ~Contains(RemoveFirst(lista[de], p), p)
  BY <1>4, SacarProps
<1>7. \A e \in EstadoProceso : lista'[e] \in Seq(Pids)
  BY <1>2, <1>3, <1>5, <1>6
<1> QED BY <1>3, <1>5, <1>6, <1>7

(* The initial state satisfies the invariant.                              *)
LEMMA Inv1Init == Init => Inv1
<1> SUFFICES ASSUME Init PROVE Inv1
  OBVIOUS
<1> USE ConstantesOk DEF Init, Pids
<1>1. TypeOK
  <2>1. 0 \in Pids /\ 1 \in 1 .. MaxProcesos
    BY DEF Pids
  <2>2. <<0>> \in Seq(Pids) /\ <<>> \in Seq(Pids) /\ <<>> \in Seq(Mensaje)
    BY <2>1
  <2>3. lista \in TipoLista
    BY <2>2 DEF TipoLista
  <2>4. Cardinality(Cpus) \in Nat
    BY FS_CardinalityType
  <2>5. pcb \in TipoPcb
    BY DEF motivo_blocked, TipoPcb
  <2>6. syscall \in [Cpus -> Seq(Mensaje)]
    BY <2>2
  <2>7. nar \in TipoNar
    BY DEF PcNar, TipoNar
  <2>8. eaf \in TipoEaf
    BY DEF Conexion, TipoEaf
  <2>9. dump \in TipoDump
    BY DEF Conexion, TipoDump
  <2>10. sem \in TipoSem
    BY <2>4 DEF TipoSem
  <2>11. /\ corto \in TipoCorto /\ hiloCpu \in TipoHiloCpu
         /\ cpu \in [Cpus -> {"LIBRE", "OCUPADA"}]
         /\ enviados \in [Cpus -> SUBSET Pids]
         /\ usadas \in [Pids -> Nat]
         /\ finalizados \subseteq Pids /\ mutexMemoria \in BOOLEAN
         /\ io \in TipoIo /\ doble \in BOOLEAN
    BY DEF TipoCorto, TipoHiloCpu, TipoIo
  <2> QED BY <2>1, <2>3, <2>5, <2>6, <2>7, <2>8, <2>9, <2>10, <2>11 DEF TypeOK
<1>2. TomaNar /\ TomaEaf /\ TomaCorto
  BY DEF TomaNar, TomaEaf, TomaCorto, NarConProceso
<1>3. CpuCoherente /\ IdParaInit
  BY DEF CpuCoherente, CpuLibreCallada, CpuUnProceso, CpuCallaAlCeder, IdParaInit
<1>4. CuentaReady /\ CuentaExit /\ CuentaEspIni
  BY DEF CuentaReady, CuentaExit, CuentaEspIni, EsperanInicializar, Uno, EstadoProceso
<1>5. CuentaCpus
  <2>1. CpusLibres = Cpus
    BY DEF CpusLibres
  <2>2. Cardinality(Cpus) \in Nat
    BY FS_CardinalityType
  <2> QED BY <2>1, <2>2 DEF CuentaCpus, Uno
<1> QED BY <1>1, <1>2, <1>3, <1>4, <1>5 DEF Inv1

------------------------------------------------------------------------------
(* Each part of the invariant mentions few variables.                      *)
LEMMA PartesIguales ==
  ASSUME Inv1
  PROVE  /\ UNCHANGED <<nar, lista>> => TomaNar'
         /\ UNCHANGED <<eaf, lista>> => TomaEaf'
         /\ UNCHANGED <<corto, lista, cpu>> => TomaCorto'
         /\ UNCHANGED <<cpu, enviados, syscall, hiloCpu>> => CpuCoherente'
         /\ UNCHANGED <<syscall, id_pcb_generador>> => IdParaInit'
         /\ UNCHANGED <<sem, corto, lista>> => CuentaReady'
         /\ UNCHANGED <<sem, eaf, lista>> => CuentaExit'
         /\ UNCHANGED <<sem, nar, lista>> => CuentaEspIni'
         /\ UNCHANGED <<sem, corto, cpu>> => CuentaCpus'
<1> USE DEF Inv1
<1>1. UNCHANGED <<nar, lista>> => TomaNar'
  BY DEF TomaNar, OrigenNar, En
<1>2. UNCHANGED <<eaf, lista>> => TomaEaf'
  BY DEF TomaEaf, En
<1>3. UNCHANGED <<corto, lista, cpu>> => TomaCorto'
  BY DEF TomaCorto, En
<1>4. UNCHANGED <<cpu, enviados, syscall, hiloCpu>> => CpuCoherente'
  BY DEF CpuCoherente, CpuLibreCallada, CpuUnProceso, CpuCallaAlCeder
<1>5. UNCHANGED <<syscall, id_pcb_generador>> => IdParaInit'
  BY DEF IdParaInit
<1>6. /\ UNCHANGED <<sem, corto, lista>> => CuentaReady'
      /\ UNCHANGED <<sem, eaf, lista>> => CuentaExit'
      /\ UNCHANGED <<sem, nar, lista>> => CuentaEspIni'
      /\ UNCHANGED <<sem, corto, cpu>> => CuentaCpus'
  BY DEF CuentaReady, CuentaExit, CuentaEspIni, EsperanInicializar, CuentaCpus, CpusLibres
<1> QED BY <1>1, <1>2, <1>3, <1>4, <1>5, <1>6

MismoNar == nar'.pc = nar.pc /\ nar'.p = nar.p /\ nar'.susp = nar.susp

(* A move out of a list that a planner does not own leaves the process the *)
(* planner holds where it was.                                             *)
LEMMA MoverRespeta ==
  ASSUME Inv1, NEW p \in Pids, NEW de \in EstadoProceso,
         NEW a \in EstadoProceso, de # a, Pasar(p, de, a)
  PROVE  /\ MismoNar /\ de \notin {"NEW", "SUSP_READY"} => TomaNar'
         /\ eaf' = eaf /\ de # "EXIT" => TomaEaf'
         /\ corto' = corto /\ cpu' = cpu /\ de # "READY" => TomaCorto'
         /\ lista' \in TipoLista
<1>0. TypeOK
  BY DEF Inv1
<1>1. /\ lista' \in [EstadoProceso -> Seq(Pids)]
      /\ \A e \in EstadoProceso \ {de, a} : lista'[e] = lista[e]
      /\ \A q : Contains(lista'[a], q) <=> q = p \/ Contains(lista[a], q)
  BY <1>0, PasarProps
<1>2. \A e \in EstadoProceso : \A q : e # de /\ En(q, e) => En(q, e)'
  BY <1>1 DEF En
<1>3. MismoNar /\ de \notin {"NEW", "SUSP_READY"} => TomaNar'
  BY <1>2 DEF Inv1, MismoNar, TomaNar, OrigenNar, EstadoProceso
<1>4. eaf' = eaf /\ de # "EXIT" => TomaEaf'
  BY <1>2 DEF Inv1, TomaEaf, EstadoProceso
<1>5. corto' = corto /\ cpu' = cpu /\ de # "READY" => TomaCorto'
  BY <1>2 DEF Inv1, TomaCorto, EstadoProceso
<1> QED BY <1>1, <1>3, <1>4, <1>5 DEF TipoLista

(* The lists are sequences, their lengths numbers.                         *)
LEMMA Largos ==
  ASSUME TypeOK
  PROVE  /\ \A e \in EstadoProceso : lista[e] \in Seq(Pids) /\ Len(lista[e]) \in Nat
         /\ EsperanInicializar \in Nat
<1>1. \A e \in EstadoProceso : lista[e] \in Seq(Pids) /\ Len(lista[e]) \in Nat
  BY LenProperties DEF TypeOK, TipoLista
<1>2. EsperanInicializar \in Nat
  <2> DEFINE n == Len(lista["NEW"])
             s == Len(lista["SUSP_READY"])
  <2>1. n \in Nat /\ s \in Nat
    BY <1>1 DEF EstadoProceso
  <2>2. EsperanInicializar = n + s
    BY DEF EsperanInicializar
  <2> HIDE DEF n, s
  <2> QED BY <2>1, <2>2
<1> QED BY <1>1, <1>2

(* What a move does to the lengths the semaphores count.                   *)
LEMMA MoverLargos ==
  ASSUME TypeOK, NEW p \in Pids, NEW de \in EstadoProceso,
         NEW a \in EstadoProceso, de # a, Pasar(p, de, a)
  PROVE  /\ "READY" \notin {de, a} => Len(lista'["READY"]) = Len(lista["READY"])
         /\ "EXIT" \notin {de, a} => Len(lista'["EXIT"]) = Len(lista["EXIT"])
         /\ a \in {"READY", "EXIT"} => Len(lista'[a]) = Len(lista[a]) + 1
         /\ de \notin {"NEW", "SUSP_READY"} /\ a \notin {"NEW", "SUSP_READY"} =>
              EsperanInicializar' = EsperanInicializar
         /\ de # "NEW" /\ a = "SUSP_READY" =>
              EsperanInicializar' = EsperanInicializar + 1
<1>1. /\ \A e \in EstadoProceso \ {de, a} : lista'[e] = lista[e]
      /\ Len(lista'[a]) = Len(lista[a]) + 1
  BY PasarProps
<1>2. /\ "READY" \notin {de, a} => Len(lista'["READY"]) = Len(lista["READY"])
      /\ "EXIT" \notin {de, a} => Len(lista'["EXIT"]) = Len(lista["EXIT"])
  BY <1>1 DEF EstadoProceso
<1>3. ASSUME de \notin {"NEW", "SUSP_READY"}, a \notin {"NEW", "SUSP_READY"}
      PROVE  EsperanInicializar' = EsperanInicializar
  <2>1. lista'["NEW"] = lista["NEW"] /\ lista'["SUSP_READY"] = lista["SUSP_READY"]
    BY <1>1, <1>3 DEF EstadoProceso
  <2> QED BY <2>1 DEF EsperanInicializar
<1>4. ASSUME de # "NEW", a = "SUSP_READY"
      PROVE  EsperanInicializar' = EsperanInicializar + 1
  <2> DEFINE n == Len(lista["NEW"])
             m == Len(lista["SUSP_READY"])
  <2>1. n \in Nat /\ m \in Nat
    BY Largos DEF EstadoProceso
  <2>2. lista'["NEW"] = lista["NEW"] /\ Len(lista'["SUSP_READY"]) = m + 1
    BY <1>1, <1>4 DEF EstadoProceso
  <2>3. EsperanInicializar = n + m /\ EsperanInicializar' = n + (m + 1)
    BY <2>2 DEF EsperanInicializar
  <2> HIDE DEF n, m
  <2> QED BY <2>1, <2>3
<1> QED BY <1>1, <1>2, <1>3, <1>4

(* A handler that moves a process out of EXEC, BLOCKED or SUSP_BLOCKED and *)
(* posts the semaphore of the list it moves it to keeps the count.         *)
Postea(a) ==
  sem' = CASE a = "READY" -> [sem EXCEPT !.ready = @ + 1]
           [] a = "EXIT" -> [sem EXCEPT !.exit = @ + 1]
           [] a = "SUSP_READY" -> [sem EXCEPT !.espIni = @ + 1]
           [] OTHER -> sem

(* Such a handler preserves the three counts of processes.                 *)
LEMMA MoverCuenta ==
  ASSUME Inv1, NEW p \in Pids,
         NEW de \in {"EXEC", "BLOCKED", "SUSP_BLOCKED"},
         NEW a \in {"READY", "EXIT", "SUSP_READY", "BLOCKED", "SUSP_BLOCKED"},
         de # a, Pasar(p, de, a), Postea(a), MismoNar, UNCHANGED <<eaf, corto, cpu>>
  PROVE  /\ lista' \in TipoLista /\ sem' \in TipoSem
         /\ TomaNar' /\ TomaEaf' /\ TomaCorto'
         /\ CuentaReady' /\ CuentaExit' /\ CuentaEspIni' /\ CuentaCpus'
<1>0. /\ TypeOK /\ CuentaReady /\ CuentaExit /\ CuentaEspIni /\ CuentaCpus
      /\ de \in EstadoProceso /\ a \in EstadoProceso
  BY DEF Inv1, EstadoProceso
<1>a. sem \in TipoSem
  BY <1>0 DEF TypeOK
<1>b. /\ sem.espIni \in Nat /\ sem.ready \in Nat /\ sem.exit \in Nat
      /\ sem.cpus \in Nat /\ EsperanInicializar \in Nat
      /\ Len(lista["READY"]) \in Nat /\ Len(lista["EXIT"]) \in Nat
  BY <1>0, <1>a, Largos DEF TipoSem, EstadoProceso
<1>1. lista' \in TipoLista /\ TomaNar' /\ TomaEaf' /\ TomaCorto'
  BY <1>0, MoverRespeta
<1>2. sem' \in TipoSem
  <2>1. sem.espIni + 1 \in Nat /\ sem.ready + 1 \in Nat /\ sem.exit + 1 \in Nat
    BY <1>b
  <2> QED BY <1>a, <2>1 DEF Postea, TipoSem
<1>3. /\ sem'.ready = sem.ready + (IF a = "READY" THEN 1 ELSE 0)
      /\ sem'.exit = sem.exit + (IF a = "EXIT" THEN 1 ELSE 0)
      /\ sem'.espIni = sem.espIni + (IF a = "SUSP_READY" THEN 1 ELSE 0)
      /\ sem'.cpus = sem.cpus
  BY <1>a, <1>b DEF Postea, TipoSem
<1>4. CuentaReady'
  BY <1>0, <1>b, <1>3, MoverLargos DEF CuentaReady, Uno
<1>5. CuentaExit'
  BY <1>0, <1>b, <1>3, MoverLargos DEF CuentaExit, Uno
<1>6. CuentaEspIni'
  BY <1>0, <1>b, <1>3, MoverLargos DEF CuentaEspIni, MismoNar, Uno
<1>7. CuentaCpus'
  BY <1>0, <1>3 DEF CuentaCpus, CpusLibres
<1> QED BY <1>1, <1>2, <1>4, <1>5, <1>6, <1>7

(* Counting the LIBRE CPUs.                                                *)
LEMMA LibresProps ==
  ASSUME TypeOK
  PROVE  /\ Cardinality(CpusLibres) \in Nat
         /\ Cardinality(CpusLibres) > 0 => \E c \in Cpus : cpu[c] = "LIBRE"
         /\ \A c \in Cpus : cpu[c] = "OCUPADA" /\ cpu' = [cpu EXCEPT ![c] = "LIBRE"]
              => Cardinality(CpusLibres)' = Cardinality(CpusLibres) + 1
         /\ \A c \in Cpus : cpu[c] = "LIBRE" /\ cpu' = [cpu EXCEPT ![c] = "OCUPADA"]
              => Cardinality(CpusLibres)' = Cardinality(CpusLibres) - 1
<1>1. IsFiniteSet(CpusLibres)
  <2>1. CpusLibres \subseteq Cpus
    BY DEF CpusLibres
  <2> QED BY <2>1, ConstantesOk, FS_Subset DEF ConstantesOk
<1>2. Cardinality(CpusLibres) \in Nat
  BY <1>1, FS_CardinalityType
<1>3. ASSUME Cardinality(CpusLibres) > 0 PROVE \E c \in Cpus : cpu[c] = "LIBRE"
  <2>1. CpusLibres # {}
    BY <1>1, <1>3, FS_EmptySet
  <2> QED BY <2>1 DEF CpusLibres
<1>4. ASSUME NEW c \in Cpus, cpu[c] = "OCUPADA", cpu' = [cpu EXCEPT ![c] = "LIBRE"]
      PROVE  Cardinality(CpusLibres)' = Cardinality(CpusLibres) + 1
  <2>1. CpusLibres' = CpusLibres \cup {c} /\ c \notin CpusLibres
    BY <1>4 DEF CpusLibres, TypeOK
  <2> QED BY <1>1, <2>1, FS_AddElement
<1>5. ASSUME NEW c \in Cpus, cpu[c] = "LIBRE", cpu' = [cpu EXCEPT ![c] = "OCUPADA"]
      PROVE  Cardinality(CpusLibres)' = Cardinality(CpusLibres) - 1
  <2>1. CpusLibres' = CpusLibres \ {c} /\ c \in CpusLibres
    BY <1>5 DEF CpusLibres, TypeOK
  <2> QED BY <1>1, <2>1, FS_RemoveElement
<1> QED BY <1>2, <1>3, <1>4, <1>5

------------------------------------------------------------------------------
(* new_a_ready_PLANI_LARGO_PLAZO preserves the invariant.                  *)
LEMMA PasoNar == Inv1 /\ NewAReady => Inv1'
<1> SUFFICES ASSUME Inv1, NewAReady PROVE Inv1'
  OBVIOUS
<1>0. TypeOK /\ Nadie \notin Pids
  BY ConstantesOk DEF Inv1, ConstantesOk
<1>a. sem \in TipoSem /\ nar \in TipoNar
  BY <1>0 DEF TypeOK
<1>b. /\ TomaNar /\ TomaEaf /\ CuentaReady /\ CuentaExit /\ CuentaEspIni /\ CuentaCpus
  BY DEF Inv1
<1>c. \A e \in EstadoProceso : lista[e] \in Seq(Pids) /\ Len(lista[e]) \in Nat
  BY <1>0, Largos
<1>d. /\ sem.iniciar \in Nat /\ sem.espIni \in Nat /\ sem.ready \in Nat
      /\ sem.cpus \in Nat /\ sem.exit \in Nat
  BY <1>a DEF TipoSem
<1>e. Len(lista["NEW"]) \in Nat /\ Len(lista["SUSP_READY"]) \in Nat
  BY <1>c DEF EstadoProceso
<1>f. EsperanInicializar \in Nat
  BY <1>0, Largos
<1> USE DEF Uno
<1>1. CASE NarToma
  <2>0. sem' \in TipoSem
    BY <1>a, <1>1 DEF NarToma, TipoSem
  <2>1. nar' \in TipoNar
    BY <1>a, <1>1 DEF NarToma, TipoNar, PcNar
  <2>2. TypeOK'
    BY <1>0, <1>1, <2>0, <2>1 DEF NarToma, TypeOK
  <2>3. TomaNar'
    BY <1>a, <1>1 DEF NarToma, TomaNar, NarConProceso, TipoNar
  <2>4. CuentaReady' /\ CuentaExit' /\ CuentaEspIni' /\ CuentaCpus'
    BY <1>a, <1>b, <1>1 DEF NarToma, CuentaReady, CuentaExit, CuentaEspIni, EsperanInicializar,
       CuentaCpus, CpusLibres, TipoSem, TipoNar
  <2> QED BY <1>1, <2>2, <2>3, <2>4, PartesIguales DEF NarToma, Inv1
<1>2. CASE NarElige
  <2> DEFINE S == lista["SUSP_READY"]
             N == lista["NEW"]
  <2>1. S \in Seq(Pids) /\ N \in Seq(Pids) /\ Len(S) \in Nat /\ Len(N) \in Nat
    BY <1>c DEF EstadoProceso
  <2>2. S # <<>> \/ N # <<>>
    <3>1. nar.pc = "espera" /\ sem.espIni > 0
      BY <1>2 DEF NarElige
    <3>2. EsperanInicializar > 0
      BY <1>b, <1>d, <1>f, <3>1 DEF CuentaEspIni
    <3>3. Len(<<>>) = 0 /\ Len(N) + Len(S) > 0
      BY <3>2 DEF EsperanInicializar
    <3> HIDE DEF S, N
    <3> QED BY <2>1, <3>3
  <2>3. \A s \in {S, N} : s # <<>> => Head(s) \in Pids /\ Contains(s, Head(s))
    <3>1. \A s \in Seq(Pids) : s # <<>> => Head(s) \in Pids /\ Contains(s, Head(s))
      BY HeadTailProperties, LenProperties DEF Contains
    <3> QED BY <2>1, <3>1
  <2>4. /\ sem' = [sem EXCEPT !.espIni = @ - 1]
        /\ \/ S # <<>> /\ nar' = [nar EXCEPT !.pc = "consulta", !.susp = TRUE,
                                             !.p = Head(S)]
           \/ N # <<>> /\ nar' = [nar EXCEPT !.pc = "consulta", !.susp = FALSE,
                                             !.p = Head(N)]
    BY <1>2, <2>2 DEF NarElige
  <2>5. sem' \in TipoSem
    BY <1>a, <1>2, <2>4 DEF NarElige, TipoSem
  <2>6. nar' \in TipoNar
    BY <1>a, <2>3, <2>4 DEF TipoNar, PcNar
  <2>7. TypeOK'
    BY <1>0, <1>2, <2>5, <2>6 DEF NarElige, TypeOK
  <2>8. TomaNar'
    BY <1>a, <1>2, <2>3, <2>4 DEF NarElige, TomaNar, NarConProceso, OrigenNar,
       En, TipoNar
  <2>9. /\ sem'.espIni = sem.espIni - 1 /\ sem'.ready = sem.ready
        /\ sem'.exit = sem.exit /\ sem'.cpus = sem.cpus
        /\ nar.pc = "espera" /\ nar'.pc = "consulta"
    BY <1>a, <1>2, <2>4 DEF NarElige, TipoSem, TipoNar
  <2>10. CuentaReady' /\ CuentaExit' /\ CuentaEspIni' /\ CuentaCpus'
    <3>1. UNCHANGED <<lista, corto, eaf, cpu>>
      BY <1>2 DEF NarElige
    <3>2. CuentaReady' /\ CuentaExit' /\ CuentaCpus'
      BY <1>b, <2>9, <3>1 DEF CuentaReady, CuentaExit, CuentaCpus, CpusLibres
    <3>4. EsperanInicializar' = EsperanInicializar
      BY <3>1 DEF EsperanInicializar
    <3>3. CuentaEspIni'
      BY <1>b, <1>d, <1>f, <2>9, <3>1, <3>4 DEF CuentaEspIni
    <3> QED BY <3>2, <3>3
  <2> QED BY <1>2, <2>7, <2>8, <2>10, PartesIguales DEF NarElige, Inv1
<1>3. CASE NarHayEspacio
  <2>1. nar' \in TipoNar
    BY <1>a, <1>3 DEF NarHayEspacio, TipoNar, PcNar
  <2>2. TypeOK'
    BY <1>0, <1>3, <2>1 DEF NarHayEspacio, TypeOK
  <2>3. TomaNar' /\ CuentaEspIni'
    BY <1>a, <1>b, <1>3 DEF NarHayEspacio, TomaNar, NarConProceso, OrigenNar, En,
       CuentaEspIni, EsperanInicializar, TipoNar
  <2> QED BY <1>3, <2>2, <2>3, PartesIguales DEF NarHayEspacio, Inv1
<1>4. CASE NarSinEspacio
  <2>0. sem' \in TipoSem
    BY <1>a, <1>4 DEF NarSinEspacio, TipoSem
  <2>1. nar' \in TipoNar
    BY <1>a, <1>4 DEF NarSinEspacio, TipoNar, PcNar
  <2>2. TypeOK'
    BY <1>0, <1>4, <2>0, <2>1 DEF NarSinEspacio, TypeOK
  <2>3. TomaNar'
    BY <1>a, <1>4 DEF NarSinEspacio, TomaNar, NarConProceso, TipoNar
  <2>4. /\ sem'.espIni = sem.espIni + 1 /\ sem'.ready = sem.ready
        /\ sem'.exit = sem.exit /\ sem'.cpus = sem.cpus
        /\ nar.pc = "consulta" /\ nar'.pc = "duerme"
        /\ UNCHANGED <<lista, corto, eaf, cpu>>
    BY <1>a, <1>4 DEF NarSinEspacio, TipoSem, TipoNar
  <2>5. CuentaReady' /\ CuentaExit' /\ CuentaCpus'
    BY <1>b, <2>4 DEF CuentaReady, CuentaExit, CuentaCpus, CpusLibres
  <2>6. CuentaEspIni'
    <3>1. EsperanInicializar' = EsperanInicializar
      BY <2>4 DEF EsperanInicializar
    <3> QED BY <1>b, <1>d, <1>f, <2>4, <3>1 DEF CuentaEspIni
  <2> QED BY <1>4, <2>2, <2>3, <2>5, <2>6, PartesIguales DEF NarSinEspacio, Inv1
<1>5. CASE NarDespierta
  <2>0. sem' \in TipoSem
    BY <1>a, <1>5 DEF NarDespierta, TipoSem
  <2>1. nar' \in TipoNar
    BY <1>a, <1>5 DEF NarDespierta, TipoNar, PcNar
  <2>2. TypeOK'
    BY <1>0, <1>5, <2>0, <2>1 DEF NarDespierta, TypeOK
  <2>3. TomaNar'
    BY <1>a, <1>5 DEF NarDespierta, TomaNar, NarConProceso, TipoNar
  <2>4. CuentaReady' /\ CuentaExit' /\ CuentaEspIni' /\ CuentaCpus'
    BY <1>a, <1>b, <1>5 DEF NarDespierta, CuentaReady, CuentaExit, CuentaEspIni, EsperanInicializar,
       CuentaCpus, CpusLibres, TipoSem, TipoNar
  <2> QED BY <1>5, <2>2, <2>3, <2>4, PartesIguales DEF NarDespierta, Inv1
<1>6. CASE NarCrea
  <2>1. nar' \in TipoNar
    BY <1>a, <1>6 DEF NarCrea, TipoNar, PcNar
  <2>2. TypeOK'
    BY <1>0, <1>6, <2>1 DEF NarCrea, TypeOK
  <2>3. TomaNar' /\ CuentaEspIni'
    BY <1>a, <1>b, <1>6 DEF NarCrea, TomaNar, NarConProceso, OrigenNar, En,
       CuentaEspIni, EsperanInicializar, TipoNar
  <2> QED BY <1>6, <2>2, <2>3, PartesIguales DEF NarCrea, Inv1
<1>7. CASE NarRecierra
  <2>1. nar' \in TipoNar /\ mutexMemoria' \in BOOLEAN
    BY <1>a, <1>7 DEF NarRecierra, TipoNar, PcNar
  <2>2. eaf' \in TipoEaf
    BY <1>0, <1>7 DEF NarRecierra, TypeOK, TipoEaf, Recerrar, Conexion
  <2>3. dump' \in TipoDump
    BY <1>0, <1>7 DEF NarRecierra, TypeOK, TipoDump, Recerrar, Conexion
  <2>4. TypeOK'
    BY <1>0, <1>7, <2>1, <2>2, <2>3 DEF NarRecierra, TypeOK
  <2>5. TomaNar' /\ CuentaEspIni'
    BY <1>a, <1>b, <1>7 DEF NarRecierra, TomaNar, NarConProceso, OrigenNar, En,
       CuentaEspIni, EsperanInicializar, TipoNar
  <2>6. eaf'.pc = eaf.pc /\ eaf'.p = eaf.p /\ UNCHANGED <<lista, sem>>
    BY <1>0, <1>7 DEF NarRecierra, TypeOK, TipoEaf
  <2>7. TomaEaf' /\ CuentaExit'
    BY <1>b, <2>6 DEF TomaEaf, En, CuentaExit
  <2> QED BY <1>7, <2>4, <2>5, <2>7, PartesIguales DEF NarRecierra, Inv1
<1>8. CASE NarDesuspende
  <2>1. nar' \in TipoNar
    BY <1>a, <1>8 DEF NarDesuspende, TipoNar, PcNar
  <2>2. TypeOK'
    BY <1>0, <1>8, <2>1 DEF NarDesuspende, TypeOK
  <2>3. TomaNar' /\ CuentaEspIni'
    BY <1>a, <1>b, <1>8 DEF NarDesuspende, TomaNar, NarConProceso, OrigenNar, En,
       CuentaEspIni, EsperanInicializar, TipoNar
  <2> QED BY <1>8, <2>2, <2>3, PartesIguales DEF NarDesuspende, Inv1
<1>10. CASE MemoriaCalla
  <2>1. nar' \in TipoNar
    BY <1>a, <1>10 DEF MemoriaCalla, TipoNar, PcNar
  <2>2. TypeOK'
    BY <1>0, <1>10, <2>1 DEF MemoriaCalla, TypeOK
  <2>3. TomaNar' /\ CuentaEspIni'
    BY <1>a, <1>b, <1>10 DEF MemoriaCalla, TomaNar, NarConProceso, OrigenNar, En,
       CuentaEspIni, EsperanInicializar, TipoNar
  <2> QED BY <1>10, <2>2, <2>3, PartesIguales DEF MemoriaCalla, Inv1
<1>9. CASE NarPasa
  <2> DEFINE de == OrigenNar
  <2>1. /\ nar.p \in Pids /\ Contains(lista[de], nar.p)
        /\ de \in {"NEW", "SUSP_READY"}
        /\ Pasar(nar.p, de, "READY")
    BY <1>9 DEF NarPasa, Inv1, TomaNar, NarConProceso, OrigenNar, En
  <2>2. de \in EstadoProceso /\ "READY" \in EstadoProceso /\ de # "READY"
    BY <2>1 DEF EstadoProceso
  <2> HIDE DEF de
  <2>3. /\ Len(lista'["READY"]) = Len(lista["READY"]) + 1
        /\ Len(lista'[de]) = Len(lista[de]) - 1
        /\ \A e \in EstadoProceso \ {de, "READY"} : lista'[e] = lista[e]
    BY <1>0, <2>1, <2>2, PasarProps
  <2>4. lista' \in TipoLista /\ TomaEaf' /\ TomaCorto'
    BY <1>9, <2>1, <2>2, MoverRespeta DEF NarPasa
  <2>5. sem' \in TipoSem
    <3>1. sem.ready + 1 \in Nat /\ sem.iniciar + 1 \in Nat
      BY <1>d
    <3>2. sem' = [sem EXCEPT !.ready = @ + 1, !.iniciar = @ + 1]
      BY <1>9 DEF NarPasa
    <3> QED BY <1>a, <3>1, <3>2 DEF TipoSem
  <2>6. nar' \in TipoNar
    BY <1>9 DEF NarPasa, TipoNar, PcNar
  <2>7. TypeOK'
    BY <1>0, <1>9, <2>4, <2>5, <2>6 DEF NarPasa, TypeOK
  <2>8. TomaNar'
    BY <1>9 DEF NarPasa, TomaNar, NarConProceso
  <2>9. /\ sem'.ready = sem.ready + 1 /\ sem'.exit = sem.exit
        /\ sem'.espIni = sem.espIni /\ sem'.cpus = sem.cpus
        /\ nar.pc = "pasa" /\ nar'.pc = "token" /\ UNCHANGED <<corto, eaf, cpu>>
    BY <1>a, <1>9 DEF NarPasa, TipoSem
  <2>10. /\ "NEW" \in EstadoProceso /\ "SUSP_READY" \in EstadoProceso
         /\ "EXIT" \in EstadoProceso \ {de, "READY"}
    BY <2>1 DEF EstadoProceso
  <2>11. EsperanInicializar' = EsperanInicializar - 1
    <3>1. CASE de = "NEW"
      <4>1. lista'["SUSP_READY"] = lista["SUSP_READY"]
        BY <2>3, <2>10, <3>1
      <4>2. Len(lista'["NEW"]) = Len(lista["NEW"]) - 1
        BY <2>3, <3>1
      <4> QED BY <1>e, <4>1, <4>2 DEF EsperanInicializar
    <3>2. CASE de = "SUSP_READY"
      <4>1. lista'["NEW"] = lista["NEW"]
        BY <2>3, <2>10, <3>2
      <4>2. Len(lista'["SUSP_READY"]) = Len(lista["SUSP_READY"]) - 1
        BY <2>3, <3>2
      <4> QED BY <1>e, <4>1, <4>2 DEF EsperanInicializar
    <3> QED BY <2>1, <3>1, <3>2
  <2>12. CuentaExit' /\ CuentaCpus'
    BY <1>b, <2>3, <2>9, <2>10 DEF CuentaExit, CuentaCpus, CpusLibres
  <2>13. CuentaReady'
    BY <1>a, <1>b, <1>c, <2>2, <2>3, <2>9 DEF CuentaReady, TipoSem
  <2>14. CuentaEspIni'
    BY <1>b, <1>d, <1>f, <2>9, <2>11 DEF CuentaEspIni
  <2> QED BY <1>9, <2>4, <2>7, <2>8, <2>12, <2>13, <2>14, PartesIguales
          DEF NarPasa, Inv1
<1> QED BY <1>1, <1>2, <1>3, <1>4, <1>5, <1>6, <1>7, <1>8, <1>9, <1>10 DEF NewAReady

(* exit_a_fin_PLANI_LARGO_PLAZO preserves the invariant.                   *)
LEMMA PasoEaf == Inv1 /\ ExitAFin => Inv1'
<1> SUFFICES ASSUME Inv1, ExitAFin PROVE Inv1'
  OBVIOUS
<1>0. TypeOK /\ Nadie \notin Pids
  BY ConstantesOk DEF Inv1, ConstantesOk
<1>a. sem \in TipoSem /\ eaf \in TipoEaf /\ nar \in TipoNar
  BY <1>0 DEF TypeOK
<1>b. TomaNar /\ TomaEaf /\ CuentaReady /\ CuentaExit /\ CuentaEspIni /\ CuentaCpus
  BY DEF Inv1
<1>c. /\ sem.iniciar \in Nat /\ sem.exit \in Nat
      /\ lista["EXIT"] \in Seq(Pids) /\ Len(lista["EXIT"]) \in Nat
  BY <1>0, <1>a, Largos DEF TipoSem, EstadoProceso
<1> USE DEF Uno
<1>1. CASE EafToma
  <2>1. sem' \in TipoSem
    BY <1>a, <1>1 DEF EafToma, TipoSem
  <2>2. eaf' \in TipoEaf
    BY <1>a, <1>1 DEF EafToma, TipoEaf
  <2>3. TypeOK'
    BY <1>0, <1>1, <2>1, <2>2 DEF EafToma, TypeOK
  <2>4. /\ sem'.exit = sem.exit /\ sem'.ready = sem.ready
        /\ sem'.espIni = sem.espIni /\ sem'.cpus = sem.cpus
        /\ eaf.pc = "token" /\ eaf'.pc = "espera" /\ UNCHANGED <<lista, nar, corto, cpu>>
    BY <1>a, <1>1 DEF EafToma, TipoSem, TipoEaf
  <2>5. TomaEaf' /\ CuentaExit'
    BY <1>b, <2>4 DEF TomaEaf, CuentaExit
  <2>6. CuentaReady' /\ CuentaEspIni' /\ CuentaCpus'
    BY <1>b, <2>4 DEF CuentaReady, CuentaEspIni, EsperanInicializar, CuentaCpus,
       CpusLibres
  <2> QED BY <1>1, <2>3, <2>5, <2>6, PartesIguales DEF EafToma, Inv1
<1>2. CASE EafElige
  <2> DEFINE X == lista["EXIT"]
  <2>1. eaf.pc = "espera" /\ sem.exit > 0 /\ UNCHANGED <<lista, nar, corto, cpu>>
    BY <1>2 DEF EafElige
  <2>2. X # <<>>
    <3>1. Len(X) > 0
      BY <1>b, <1>c, <2>1 DEF CuentaExit
    <3> QED BY <3>1
  <2>3. Head(X) \in Pids /\ Contains(X, Head(X))
    <3>1. \A s \in Seq(Pids) : s # <<>> => Head(s) \in Pids /\ Contains(s, Head(s))
      BY HeadTailProperties, LenProperties DEF Contains
    <3> QED BY <1>c, <2>2, <3>1
  <2>4. eaf' = [eaf EXCEPT !.pc = "conecta", !.p = Head(X)]
    BY <1>2, <2>2 DEF EafElige
  <2>5. sem' \in TipoSem
    BY <1>a, <1>2 DEF EafElige, TipoSem
  <2>6. eaf' \in TipoEaf
    BY <1>a, <2>3, <2>4 DEF TipoEaf
  <2>7. TypeOK'
    BY <1>0, <1>2, <2>5, <2>6 DEF EafElige, TypeOK
  <2>8. /\ sem'.exit = sem.exit - 1 /\ sem'.ready = sem.ready
        /\ sem'.espIni = sem.espIni /\ sem'.cpus = sem.cpus
        /\ eaf'.pc = "conecta" /\ eaf'.p = Head(X)
    BY <1>a, <1>2, <2>4 DEF EafElige, TipoSem, TipoEaf
  <2>9. TomaEaf'
    BY <2>1, <2>3, <2>8 DEF TomaEaf, En
  <2>10. CuentaExit'
    BY <1>b, <1>c, <2>1, <2>8 DEF CuentaExit
  <2>11. CuentaReady' /\ CuentaEspIni' /\ CuentaCpus'
    BY <1>b, <2>1, <2>8 DEF CuentaReady, CuentaEspIni, EsperanInicializar,
       CuentaCpus, CpusLibres
  <2> QED BY <1>2, <2>7, <2>9, <2>10, <2>11, PartesIguales DEF EafElige, Inv1
<1>3. CASE EafConecta
  <2>1. PICK x \in ConexionNueva :
          /\ eaf' = [eaf EXCEPT !.pc = "responde", !.conex = x]
          /\ nar' = [nar EXCEPT !.reusada = @ \/ x = "reusa"]
    BY <1>3 DEF EafConecta
  <2>2. eaf' \in TipoEaf
    BY <1>a, <2>1 DEF ConexionNueva, TipoEaf, Conexion
  <2>3. nar' \in TipoNar /\ nar'.pc = nar.pc /\ nar'.p = nar.p /\ nar'.susp = nar.susp
    BY <1>a, <2>1 DEF TipoNar
  <2>4. TypeOK'
    BY <1>0, <1>3, <2>2, <2>3 DEF EafConecta, TypeOK
  <2>5. /\ eaf.pc = "conecta" /\ eaf'.pc = "responde" /\ eaf'.p = eaf.p
        /\ UNCHANGED <<lista, sem>>
    BY <1>a, <1>3, <2>1 DEF EafConecta, TipoEaf
  <2>6. TomaEaf' /\ CuentaExit'
    BY <1>b, <2>5 DEF TomaEaf, En, CuentaExit
  <2>7. TomaNar' /\ CuentaEspIni'
    BY <1>b, <2>3, <2>5 DEF TomaNar, OrigenNar, En, CuentaEspIni, EsperanInicializar
  <2> QED BY <1>3, <2>4, <2>6, <2>7, PartesIguales DEF EafConecta, Inv1
<1>4. CASE EafResponde
  <2>1. eaf' \in TipoEaf
    BY <1>a, <1>4 DEF EafResponde, TipoEaf, Conexion
  <2>2. TypeOK'
    BY <1>0, <1>4, <2>1 DEF EafResponde, TypeOK
  <2>3. /\ eaf.pc = "responde" /\ eaf'.pc = "finaliza" /\ eaf'.p = eaf.p
        /\ UNCHANGED <<lista, sem>>
    BY <1>a, <1>4 DEF EafResponde, TipoEaf
  <2>4. TomaEaf' /\ CuentaExit'
    BY <1>b, <2>3 DEF TomaEaf, En, CuentaExit
  <2> QED BY <1>4, <2>2, <2>4, PartesIguales DEF EafResponde, Inv1
<1>5. CASE EafFinaliza
  <2>1. /\ eaf.pc = "finaliza" /\ eaf.p \in Pids /\ Contains(lista["EXIT"], eaf.p)
        /\ lista' = [lista EXCEPT !["EXIT"] = RemoveFirst(@, eaf.p)]
    BY <1>b, <1>5 DEF EafFinaliza, TomaEaf, En
  <2>2. /\ RemoveFirst(lista["EXIT"], eaf.p) \in Seq(Pids)
        /\ Len(RemoveFirst(lista["EXIT"], eaf.p)) = Len(lista["EXIT"]) - 1
    BY <1>c, <2>1, SacarProps
  <2>3. lista \in [EstadoProceso -> Seq(Pids)]
    BY <1>0 DEF TypeOK, TipoLista
  <2>4. /\ lista' \in TipoLista
        /\ lista'["EXIT"] = RemoveFirst(lista["EXIT"], eaf.p)
        /\ \A e \in EstadoProceso \ {"EXIT"} : lista'[e] = lista[e]
    BY <2>1, <2>2, <2>3 DEF TipoLista, EstadoProceso
  <2>5. sem' \in TipoSem
    BY <1>a, <1>5 DEF EafFinaliza, TipoSem
  <2>6. eaf' \in TipoEaf
    BY <1>5 DEF EafFinaliza, TipoEaf, Conexion
  <2>7. TypeOK'
    BY <1>0, <1>5, <2>1, <2>4, <2>5, <2>6 DEF EafFinaliza, TypeOK
  <2>8. /\ sem'.exit = sem.exit /\ sem'.ready = sem.ready
        /\ sem'.espIni = sem.espIni /\ sem'.cpus = sem.cpus
        /\ eaf'.pc = "token" /\ UNCHANGED <<nar, corto, cpu>>
    BY <1>a, <1>5 DEF EafFinaliza, TipoSem
  <2>9. /\ lista'["READY"] = lista["READY"] /\ lista'["NEW"] = lista["NEW"]
        /\ lista'["SUSP_READY"] = lista["SUSP_READY"]
    BY <2>4 DEF EstadoProceso
  <2>10. TomaNar' /\ TomaEaf' /\ TomaCorto'
    BY <1>b, <2>8, <2>9 DEF Inv1, TomaNar, TomaEaf, TomaCorto, OrigenNar, En
  <2>11. CuentaExit'
    BY <1>b, <1>c, <2>1, <2>2, <2>4, <2>8 DEF CuentaExit
  <2>12. CuentaReady' /\ CuentaEspIni' /\ CuentaCpus'
    BY <1>b, <2>8, <2>9 DEF CuentaReady, CuentaEspIni, EsperanInicializar,
       CuentaCpus, CpusLibres
  <2> QED BY <1>5, <2>7, <2>10, <2>11, <2>12, PartesIguales DEF EafFinaliza, Inv1
<1> QED BY <1>1, <1>2, <1>3, <1>4, <1>5 DEF ExitAFin

(* planificacion_corto preserves the invariant; in particular it never     *)
(* takes the "continue" that loses both its tokens.                        *)
LEMMA PasoCorto == Inv1 /\ PlanificacionCorto => Inv1'
<1> SUFFICES ASSUME Inv1, PlanificacionCorto PROVE Inv1'
  OBVIOUS
<1>0. TypeOK
  BY DEF Inv1
<1>a. /\ sem \in TipoSem /\ corto \in TipoCorto
      /\ cpu \in [Cpus -> {"LIBRE", "OCUPADA"}] /\ enviados \in [Cpus -> SUBSET Pids]
  BY <1>0 DEF TypeOK
<1>b. TomaCorto /\ CpuCoherente /\ CuentaReady /\ CuentaExit /\ CuentaEspIni /\ CuentaCpus
  BY DEF Inv1
<1>c. /\ sem.cpus \in Nat /\ sem.ready \in Nat
      /\ lista["READY"] \in Seq(Pids) /\ Len(lista["READY"]) \in Nat
      /\ Cardinality(CpusLibres) \in Nat
  BY <1>0, <1>a, Largos, LibresProps DEF TipoSem, EstadoProceso
<1> USE DEF Uno
<1>1. CASE CortoEsperaCpu
  <2>1. sem' \in TipoSem
    BY <1>a, <1>1 DEF CortoEsperaCpu, TipoSem
  <2>2. corto' \in TipoCorto
    BY <1>a, <1>1 DEF CortoEsperaCpu, TipoCorto
  <2>3. TypeOK'
    BY <1>0, <1>1, <2>1, <2>2 DEF CortoEsperaCpu, TypeOK
  <2>4. /\ sem'.cpus = sem.cpus - 1 /\ sem'.ready = sem.ready
        /\ sem'.exit = sem.exit /\ sem'.espIni = sem.espIni
        /\ corto.pc = "cpu" /\ corto'.pc = "ready" /\ UNCHANGED <<lista, nar, eaf, cpu>>
    BY <1>a, <1>1 DEF CortoEsperaCpu, TipoSem, TipoCorto
  <2>5. CuentaCpus'
    <3>1. CpusLibres' = CpusLibres
      BY <2>4 DEF CpusLibres
    <3> QED BY <1>b, <1>c, <2>4, <3>1 DEF CuentaCpus
  <2>6. TomaCorto' /\ CuentaReady' /\ CuentaExit' /\ CuentaEspIni'
    BY <1>b, <2>4 DEF TomaCorto, CuentaReady, CuentaExit, CuentaEspIni,
       EsperanInicializar
  <2> QED BY <1>1, <2>3, <2>5, <2>6, PartesIguales DEF CortoEsperaCpu, Inv1
<1>2. CASE CortoEsperaReady
  <2>1. sem' \in TipoSem
    BY <1>a, <1>2 DEF CortoEsperaReady, TipoSem
  <2>2. corto' \in TipoCorto
    BY <1>a, <1>2 DEF CortoEsperaReady, TipoCorto
  <2>3. TypeOK'
    BY <1>0, <1>2, <2>1, <2>2 DEF CortoEsperaReady, TypeOK
  <2>4. /\ sem'.cpus = sem.cpus /\ sem'.ready = sem.ready - 1
        /\ sem'.exit = sem.exit /\ sem'.espIni = sem.espIni
        /\ corto.pc = "ready" /\ corto'.pc = "elige" /\ UNCHANGED <<lista, nar, eaf, cpu>>
    BY <1>a, <1>2 DEF CortoEsperaReady, TipoSem, TipoCorto
  <2>5. CuentaReady'
    BY <1>b, <1>c, <2>4 DEF CuentaReady
  <2>6. TomaCorto' /\ CuentaCpus' /\ CuentaExit' /\ CuentaEspIni'
    BY <1>b, <2>4 DEF TomaCorto, CuentaCpus, CpusLibres, CuentaExit, CuentaEspIni,
       EsperanInicializar
  <2> QED BY <1>2, <2>3, <2>5, <2>6, PartesIguales DEF CortoEsperaReady, Inv1
<1>3. CASE CortoElige
  <2> DEFINE R == lista["READY"]
  <2>1. corto.pc = "elige" /\ UNCHANGED <<lista, sem, nar, eaf, cpu>>
    BY <1>3 DEF CortoElige
  <2>2. R # <<>>
    <3>1. Len(R) > 0
      BY <1>b, <1>c, <2>1 DEF CuentaReady
    <3> QED BY <3>1
  <2>3. \E c \in Cpus : cpu[c] = "LIBRE"
    <3>1. Cardinality(CpusLibres) > 0
      BY <1>b, <1>c, <2>1 DEF CuentaCpus
    <3> QED BY <1>0, <3>1, LibresProps
  <2>4. Head(R) \in Pids /\ Contains(R, Head(R))
    <3>1. \A s \in Seq(Pids) : s # <<>> => Head(s) \in Pids /\ Contains(s, Head(s))
      BY HeadTailProperties, LenProperties DEF Contains
    <3> QED BY <1>c, <2>2, <3>1
  <2>5. PICK c \in Cpus : /\ cpu[c] = "LIBRE"
                          /\ corto' = [pc |-> "saca", p |-> Head(R), c |-> c]
    BY <1>3, <2>2, <2>3 DEF CortoElige
  <2>6. corto' \in TipoCorto
    BY <2>4, <2>5 DEF TipoCorto
  <2>7. TypeOK'
    BY <1>0, <1>3, <2>6 DEF CortoElige, TypeOK
  <2>8. corto'.pc = "saca" /\ corto'.p = Head(R) /\ corto'.c = c
    BY <2>5
  <2>9. TomaCorto'
    BY <2>1, <2>4, <2>5, <2>8 DEF TomaCorto, En
  <2>10. CuentaReady' /\ CuentaCpus'
    BY <1>b, <2>1, <2>8 DEF CuentaReady, CuentaCpus, CpusLibres
  <2> QED BY <1>3, <2>7, <2>9, <2>10, PartesIguales DEF CortoElige, Inv1
<1>4. CASE CortoSaca
  <2>1. /\ corto.pc = "saca" /\ corto.p \in Pids /\ Contains(lista["READY"], corto.p)
        /\ corto.c \in Cpus /\ cpu[corto.c] = "LIBRE"
        /\ Pasar(corto.p, "READY", "EXEC") /\ UNCHANGED <<sem, nar, eaf, cpu>>
    BY <1>b, <1>4 DEF CortoSaca, TomaCorto, En
  <2>2. "READY" \in EstadoProceso /\ "EXEC" \in EstadoProceso
    BY DEF EstadoProceso
  <2>3. lista' \in TipoLista /\ TomaNar' /\ TomaEaf'
    BY <2>1, <2>2, MoverRespeta DEF MismoNar
  <2>4. corto' \in TipoCorto
    BY <1>a, <1>4 DEF CortoSaca, TipoCorto
  <2>5. TypeOK'
    BY <1>0, <1>4, <2>3, <2>4 DEF CortoSaca, TypeOK
  <2>6. corto'.pc = "asigna" /\ corto'.p = corto.p /\ corto'.c = corto.c
    BY <1>a, <1>4 DEF CortoSaca, TipoCorto
  <2>7. TomaCorto'
    BY <2>1, <2>6 DEF TomaCorto
  <2>8. Len(lista'["READY"]) = Len(lista["READY"]) - 1
    BY <1>0, <2>1, <2>2, PasarProps
  <2>9. CuentaReady'
    BY <1>b, <1>c, <2>1, <2>6, <2>8 DEF CuentaReady
  <2>10. CuentaExit' /\ CuentaEspIni' /\ CuentaCpus'
    BY <1>0, <1>b, <2>1, <2>2, <2>6, MoverLargos DEF CuentaExit, CuentaEspIni,
       CuentaCpus, CpusLibres
  <2> QED BY <1>4, <2>3, <2>5, <2>7, <2>9, <2>10, PartesIguales DEF CortoSaca, Inv1
<1>5. CASE CortoAsigna
  <2> DEFINE d == corto.c
  <2>1. /\ corto.pc = "asigna" /\ corto.p \in Pids /\ d \in Cpus /\ cpu[d] = "LIBRE"
        /\ corto' = [pc |-> "cpu", p |-> Nadie, c |-> Nadie]
        /\ cpu' = [cpu EXCEPT ![d] = "OCUPADA"]
        /\ enviados' = [enviados EXCEPT ![d] = @ \cup {corto.p}]
        /\ UNCHANGED <<lista, sem, nar, eaf, syscall, hiloCpu>>
    BY <1>b, <1>5 DEF CortoAsigna, TomaCorto
  <2>2. enviados[d] = {} /\ syscall[d] = <<>> /\ hiloCpu[d].pc # "libera"
    BY <1>b, <2>1 DEF CpuCoherente, CpuLibreCallada
  <2>3. /\ corto' \in TipoCorto /\ cpu' \in [Cpus -> {"LIBRE", "OCUPADA"}]
        /\ enviados' \in [Cpus -> SUBSET Pids]
    BY <1>a, <2>1 DEF TipoCorto
  <2>4. TypeOK'
    BY <1>0, <1>5, <2>3 DEF CortoAsigna, TypeOK
  <2>5. \A c \in Cpus : /\ enviados'[c] = IF c = d THEN {corto.p} ELSE enviados[c]
                        /\ cpu'[c] = IF c = d THEN "OCUPADA" ELSE cpu[c]
    BY <1>a, <2>1, <2>2
  <2>6. CpuLibreCallada' /\ CpuUnProceso'
    BY <1>b, <2>1, <2>5 DEF CpuCoherente, CpuLibreCallada, CpuUnProceso
  <2>7. CpuCallaAlCeder'
    <3>1. Len(<<>>) = 0
      OBVIOUS
    <3> QED BY <1>b, <2>1, <2>2, <2>5, <3>1 DEF CpuCoherente, CpuCallaAlCeder
  <2>8. TomaCorto' /\ CuentaReady'
    BY <1>b, <2>1 DEF TomaCorto, CuentaReady
  <2>9. CuentaCpus'
    <3>1. Cardinality(CpusLibres)' = Cardinality(CpusLibres) - 1
      BY <1>0, <2>1, LibresProps
    <3>2. corto'.pc = "cpu" /\ corto.pc # "cpu"
      BY <2>1
    <3> QED BY <1>b, <1>c, <2>1, <3>1, <3>2 DEF CuentaCpus
  <2> QED BY <1>5, <2>4, <2>6, <2>7, <2>8, <2>9, PartesIguales
          DEF CortoAsigna, CpuCoherente, Inv1
<1> QED BY <1>1, <1>2, <1>3, <1>4, <1>5 DEF PlanificacionCorto

------------------------------------------------------------------------------
(* The CPUs' own steps preserve the invariant: a CPU sends only while it   *)
(* runs a process, and nothing after a syscall that ends the turn.         *)
LEMMA PasoCpu == ASSUME NEW c \in Cpus PROVE Inv1 /\ Cpu(c) => Inv1'
<1> SUFFICES ASSUME Inv1, Cpu(c) PROVE Inv1'
  OBVIOUS
<1>0. TypeOK /\ CpuCoherente /\ IdParaInit
  BY DEF Inv1
<1>a. /\ enviados \in [Cpus -> SUBSET Pids] /\ syscall \in [Cpus -> Seq(Mensaje)]
      /\ usadas \in [Pids -> Nat]
  BY <1>0 DEF TypeOK
<1>b. \A d \in Cpus : Len(syscall[d]) \in Nat
  BY <1>a, LenProperties
<1>c. \A m \in Mensaje : Envia(c, m) =>
        /\ syscall' \in [Cpus -> Seq(Mensaje)]
        /\ Len(syscall'[c]) = Len(syscall[c]) + 1
        /\ \A i \in 1 .. Len(syscall[c]) : syscall'[c][i] = syscall[c][i]
        /\ syscall'[c][Len(syscall[c]) + 1] = m
        /\ \A d \in Cpus \ {c} : syscall'[d] = syscall[d]
  BY <1>a, AppendProperties DEF Envia
<1>1. ASSUME NEW p \in enviados[c], NEW tipo \in {"EXIT", "IO", "DUMP"},
             Envia(c, [tipo |-> tipo, p |-> p]),
             enviados' = [enviados EXCEPT ![c] = @ \ {p}],
             usadas' \in [Pids -> Nat],
             UNCHANGED <<lista, pcb, id_pcb_generador, finalizados, sem,
                         mutexMemoria, nar, eaf, corto, hiloCpu, dump, cpu, io, doble>>
      PROVE  Inv1'
  <2>1. [tipo |-> tipo, p |-> p] \in Mensaje
    BY <1>1, <1>a DEF Mensaje
  <2>2. /\ syscall' \in [Cpus -> Seq(Mensaje)]
        /\ Len(syscall'[c]) = Len(syscall[c]) + 1
        /\ \A i \in 1 .. Len(syscall[c]) : syscall'[c][i] = syscall[c][i]
        /\ syscall'[c][Len(syscall[c]) + 1].tipo # "INIT"
        /\ \A d \in Cpus \ {c} : syscall'[d] = syscall[d]
    BY <1>1, <1>c, <2>1
  <2>3. /\ enviados' \in [Cpus -> SUBSET Pids] /\ enviados'[c] = {}
        /\ \A d \in Cpus \ {c} : enviados'[d] = enviados[d]
    BY <1>0, <1>1, <1>a DEF CpuCoherente, CpuUnProceso
  <2>4. TypeOK'
    BY <1>0, <1>1, <2>2, <2>3 DEF TypeOK
  <2>5. /\ cpu[c] # "LIBRE" /\ hiloCpu[c].pc # "libera"
        /\ \A i \in 1 .. Len(syscall[c]) : syscall[c][i].tipo = "INIT"
    BY <1>0, <1>1 DEF CpuCoherente, CpuLibreCallada, CpuCallaAlCeder
  <2>6. CpuLibreCallada' /\ CpuUnProceso'
    BY <1>0, <1>1, <2>2, <2>3, <2>5 DEF CpuCoherente, CpuLibreCallada, CpuUnProceso
  <2>7. CpuCallaAlCeder'
    <3> SUFFICES ASSUME NEW d \in Cpus
                 PROVE /\ \A i \in 1 .. Len(syscall'[d]) : syscall'[d][i].tipo # "INIT"
                            => i = Len(syscall'[d]) /\ enviados'[d] = {}
                       /\ hiloCpu'[d].pc = "libera" =>
                            enviados'[d] = {} /\ syscall'[d] = <<>>
      BY DEF CpuCallaAlCeder
    <3>1. CASE d = c
      <4>1. \A i \in 1 .. Len(syscall'[c]) :
              i = Len(syscall[c]) + 1 \/ i \in 1 .. Len(syscall[c])
        BY <1>b, <2>2
      <4>2. \A i \in 1 .. Len(syscall[c]) : syscall'[c][i].tipo = "INIT"
        BY <2>2, <2>5
      <4> QED BY <1>1, <2>2, <2>3, <2>5, <3>1, <4>1, <4>2
    <3>2. CASE d # c
      BY <1>0, <1>1, <2>2, <2>3, <3>2 DEF CpuCoherente, CpuCallaAlCeder
    <3> QED BY <3>1, <3>2
  <2>8. \A d \in Cpus : \A i \in 1 .. Len(syscall'[d]) :
          syscall'[d][i].tipo = "INIT" => i \in 1 .. Len(syscall[d])
                                          /\ syscall[d][i].tipo = "INIT"
    <3> TAKE d \in Cpus
    <3>1. CASE d = c
      BY <1>b, <2>2, <3>1
    <3>2. CASE d # c
      BY <2>2, <3>2
    <3> QED BY <3>1, <3>2
  <2>9. IdParaInit'
    BY <1>0, <1>1, <2>8 DEF IdParaInit
  <2> QED BY <1>1, <2>4, <2>6, <2>7, <2>9, PartesIguales DEF CpuCoherente, Inv1
<1>2. CASE CpuPideExit(c)
  BY <1>1, <1>2, <1>a DEF CpuPideExit
<1>3. CASE \E tipo \in {"IO", "DUMP"} : CpuPideBloqueo(c, tipo)
  <2>1. PICK tipo \in {"IO", "DUMP"}, p \in enviados[c] :
          /\ usadas' = [usadas EXCEPT ![p] = @ + 1]
          /\ Envia(c, [tipo |-> tipo, p |-> p])
          /\ enviados' = [enviados EXCEPT ![c] = @ \ {p}]
          /\ UNCHANGED <<lista, pcb, id_pcb_generador, finalizados, sem,
                         mutexMemoria, nar, eaf, corto, hiloCpu, dump, cpu, io, doble>>
    BY <1>3 DEF CpuPideBloqueo
  <2>2. usadas' \in [Pids -> Nat]
    BY <1>a, <2>1
  <2> QED BY <1>1, <2>1, <2>2
<1>4. CASE CpuPideInit(c)
  <2>1. PICK p \in enviados[c], w \in Pesos :
          Envia(c, [tipo |-> "INIT", p |-> p, peso |-> w])
    BY <1>4 DEF CpuPideInit
  <2>2. /\ id_pcb_generador < MaxProcesos
        /\ \A d \in Cpus : \A i \in 1 .. Len(syscall[d]) : syscall[d][i].tipo # "INIT"
        /\ UNCHANGED <<lista, pcb, id_pcb_generador, finalizados, sem, mutexMemoria,
                       nar, eaf, corto, hiloCpu, dump, cpu, enviados, usadas, io, doble>>
    BY <1>4 DEF CpuPideInit
  <2>3. [tipo |-> "INIT", p |-> p, peso |-> w] \in Mensaje
    BY <1>a, <2>1 DEF Mensaje
  <2>4. /\ syscall' \in [Cpus -> Seq(Mensaje)]
        /\ Len(syscall'[c]) = Len(syscall[c]) + 1
        /\ \A i \in 1 .. Len(syscall[c]) : syscall'[c][i] = syscall[c][i]
        /\ syscall'[c][Len(syscall[c]) + 1].tipo = "INIT"
        /\ \A d \in Cpus \ {c} : syscall'[d] = syscall[d]
    BY <1>c, <2>1, <2>3
  <2>5. TypeOK'
    BY <1>0, <2>2, <2>4 DEF TypeOK
  <2>6. cpu[c] # "LIBRE" /\ hiloCpu[c].pc # "libera" /\ Len(syscall[c]) = 0
    <3>1. \A i \in 1 .. Len(syscall[c]) : FALSE
      BY <1>0, <2>1, <2>2 DEF CpuCoherente, CpuCallaAlCeder
    <3> QED BY <1>0, <1>b, <2>1, <3>1 DEF CpuCoherente, CpuLibreCallada, CpuCallaAlCeder
  <2>7. CpuLibreCallada' /\ CpuUnProceso'
    BY <1>0, <2>2, <2>4, <2>6 DEF CpuCoherente, CpuLibreCallada, CpuUnProceso
  <2>8. CpuCallaAlCeder'
    <3>1. Len(syscall'[c]) = 1 /\ syscall'[c][1].tipo = "INIT"
      BY <2>4, <2>6
    <3> QED BY <1>0, <2>2, <2>4, <2>6, <3>1 DEF CpuCoherente, CpuCallaAlCeder
  <2>9. IdParaInit'
    <3>1. id_pcb_generador' = id_pcb_generador
      BY <2>2
    <3>2. Len(syscall'[c]) = 1 /\ \A d \in Cpus \ {c} : syscall'[d] = syscall[d]
      BY <2>4, <2>6
    <3>3. \A d \in Cpus \ {c} : \A i \in 1 .. Len(syscall[d]) :
            syscall[d][i].tipo # "INIT"
      BY <2>2
    <3> QED BY <2>2, <3>1, <3>2, <3>3 DEF IdParaInit
  <2> QED BY <2>2, <2>5, <2>7, <2>8, <2>9, PartesIguales DEF CpuCoherente, Inv1
<1> QED BY <1>2, <1>3, <1>4 DEF Cpu

------------------------------------------------------------------------------
(* What reading one message of CPU c's socket gives and leaves.            *)
LEMMA RecibeProps ==
  ASSUME Inv1, NEW c \in Cpus, NEW tipo, Recibe(c, tipo)
  PROVE  /\ syscall' \in [Cpus -> Seq(Mensaje)]
         /\ Head(syscall[c]) \in Mensaje /\ Head(syscall[c]).p \in Pids
         /\ cpu[c] = "OCUPADA" /\ hiloCpu[c].pc = "recibe"
         /\ \A d \in Cpus \ {c} : syscall'[d] = syscall[d]
         /\ Len(syscall[c]) \in Nat /\ Len(syscall'[c]) = Len(syscall[c]) - 1
         /\ \A i \in 1 .. Len(syscall'[c]) :
              /\ syscall'[c][i] = syscall[c][i + 1]
              /\ i + 1 \in 1 .. Len(syscall[c])
         /\ syscall[c][1].tipo = tipo /\ 1 \in 1 .. Len(syscall[c])
         /\ tipo # "INIT" => enviados[c] = {} /\ syscall'[c] = <<>>
<1>0. TypeOK /\ CpuCoherente
  BY DEF Inv1
<1>a. syscall \in [Cpus -> Seq(Mensaje)] /\ cpu \in [Cpus -> {"LIBRE", "OCUPADA"}]
  BY <1>0 DEF TypeOK
<1>1. /\ syscall[c] \in Seq(Mensaje) /\ syscall[c] # <<>> /\ hiloCpu[c].pc = "recibe"
      /\ Head(syscall[c]).tipo = tipo
      /\ syscall' = [syscall EXCEPT ![c] = Tail(@)]
  BY <1>a DEF Recibe
<1>2. /\ Head(syscall[c]) = syscall[c][1] /\ Head(syscall[c]) \in Mensaje
      /\ Tail(syscall[c]) \in Seq(Mensaje)
      /\ Len(syscall[c]) \in Nat /\ Len(syscall[c]) > 0
      /\ Len(Tail(syscall[c])) = Len(syscall[c]) - 1
      /\ \A i \in 1 .. Len(Tail(syscall[c])) : Tail(syscall[c])[i] = syscall[c][i + 1]
  BY <1>1, HeadTailProperties, LenProperties
<1>3. Head(syscall[c]).p \in Pids
  BY <1>2 DEF Mensaje
<1>4. syscall' \in [Cpus -> Seq(Mensaje)] /\ syscall'[c] = Tail(syscall[c])
  BY <1>a, <1>1, <1>2
<1>5. \A d \in Cpus \ {c} : syscall'[d] = syscall[d]
  BY <1>a, <1>1
<1>6. cpu[c] = "OCUPADA"
  BY <1>0, <1>a, <1>1 DEF CpuCoherente, CpuLibreCallada
<1>7. ASSUME tipo # "INIT"
      PROVE  enviados[c] = {} /\ syscall'[c] = <<>>
  <2>1. Len(syscall[c]) = 1 /\ enviados[c] = {}
    <3>1. 1 \in 1 .. Len(syscall[c]) /\ syscall[c][1].tipo # "INIT"
      BY <1>1, <1>2, <1>7
    <3>2. \A i \in 1 .. Len(syscall[c]) :
            syscall[c][i].tipo # "INIT" => i = Len(syscall[c]) /\ enviados[c] = {}
      BY <1>0 DEF CpuCoherente, CpuCallaAlCeder
    <3> QED BY <3>1, <3>2
  <2>2. Len(Tail(syscall[c])) = 0
    BY <1>2, <2>1
  <2> QED BY <1>2, <1>4, <2>1, <2>2, EmptySeq
<1> QED BY <1>1, <1>2, <1>3, <1>4, <1>5, <1>6, <1>7

(* Reading a syscall that ends the turn leaves the CPU with nothing to say *)
(* and the ids in order, whether the thread goes on to free the CPU or     *)
(* has just freed it.                                                      *)
LEMMA RecibeCoherente ==
  ASSUME Inv1, NEW c \in Cpus, NEW tipo, Recibe(c, tipo), tipo # "INIT",
         UNCHANGED <<enviados, id_pcb_generador>>,
         \A d \in Cpus \ {c} : hiloCpu'[d].pc = hiloCpu[d].pc,
         \A d \in Cpus \ {c} : cpu'[d] = cpu[d],
         hiloCpu'[c].pc = "libera" => cpu'[c] # "LIBRE"
  PROVE  CpuCoherente' /\ IdParaInit'
<1>0. CpuCoherente /\ IdParaInit
  BY DEF Inv1
<1>1. /\ enviados[c] = {} /\ syscall'[c] = <<>>
      /\ \A d \in Cpus \ {c} : syscall'[d] = syscall[d]
  BY RecibeProps
<1>2. Len(<<>>) = 0
  OBVIOUS
<1>3. CpuLibreCallada' /\ CpuUnProceso'
  BY <1>0, <1>1 DEF CpuCoherente, CpuLibreCallada, CpuUnProceso
<1>4. CpuCallaAlCeder'
  BY <1>0, <1>1, <1>2 DEF CpuCoherente, CpuCallaAlCeder
<1>5. IdParaInit'
  BY <1>0, <1>1, <1>2 DEF IdParaInit
<1> QED BY <1>3, <1>4, <1>5 DEF CpuCoherente

(* The threads that serve the CPUs preserve the invariant.                 *)
LEMMA PasoHiloCpu == ASSUME NEW c \in Cpus PROVE Inv1 /\ EsperaRtaCpu(c) => Inv1'
<1> SUFFICES ASSUME Inv1, EsperaRtaCpu(c) PROVE Inv1'
  OBVIOUS
<1>0. TypeOK /\ CpuCoherente /\ IdParaInit
  BY DEF Inv1
<1>a. /\ hiloCpu \in TipoHiloCpu /\ pcb \in TipoPcb /\ sem \in TipoSem
      /\ cpu \in [Cpus -> {"LIBRE", "OCUPADA"}] /\ dump \in TipoDump
      /\ id_pcb_generador \in 1 .. MaxProcesos
  BY <1>0 DEF TypeOK
<1>b. "EXEC" \in {"EXEC", "BLOCKED", "SUSP_BLOCKED"} /\ Estimaciones \subseteq Nat
      /\ Pesos \subseteq Nat
  BY ConstantesOk DEF ConstantesOk
<1>e. io \in TipoIo /\ doble \in BOOLEAN
  BY <1>0 DEF TypeOK
<1>c. \A pc \in {"recibe", "libera"} : Luego(c, pc) =>
        /\ hiloCpu' \in TipoHiloCpu /\ hiloCpu'[c].pc = pc
        /\ \A d \in Cpus \ {c} : hiloCpu'[d].pc = hiloCpu[d].pc
  BY <1>a DEF Luego, TipoHiloCpu
<1>d. /\ sem.cpus \in Nat /\ sem.espIni \in Nat /\ EsperanInicializar \in Nat
      /\ Cardinality(CpusLibres) \in Nat
  BY <1>0, <1>a, Largos, LibresProps DEF TipoSem
(* SISCALL_EXIT and SISCALL_IO differ in the list and in the PCB's fields. *)
<1>1. ASSUME NEW tipo \in {"EXIT", "IO"}, NEW a \in {"EXIT", "BLOCKED"},
             Recibe(c, tipo), Pasar(Head(syscall[c]).p, "EXEC", a), Postea(a),
             pcb' \in TipoPcb, io' \in TipoIo, doble' = doble, Luego(c, "libera"),
             UNCHANGED <<id_pcb_generador, finalizados, mutexMemoria, nar, eaf,
                         corto, dump, cpu, enviados, usadas>>
      PROVE  Inv1'
  <2>1. /\ Head(syscall[c]).p \in Pids /\ syscall' \in [Cpus -> Seq(Mensaje)]
        /\ cpu[c] = "OCUPADA"
    BY <1>1, RecibeProps
  <2>2. /\ lista' \in TipoLista /\ sem' \in TipoSem
        /\ TomaNar' /\ TomaEaf' /\ TomaCorto'
        /\ CuentaReady' /\ CuentaExit' /\ CuentaEspIni' /\ CuentaCpus'
    BY <1>1, <1>b, <2>1, MoverCuenta DEF MismoNar
  <2>3. hiloCpu' \in TipoHiloCpu /\ \A d \in Cpus \ {c} : hiloCpu'[d].pc = hiloCpu[d].pc
    BY <1>1, <1>c
  <2>4. TypeOK'
    BY <1>0, <1>1, <2>1, <2>2, <2>3 DEF TypeOK
  <2>5. CpuCoherente' /\ IdParaInit'
    BY <1>1, <2>1, <2>3, RecibeCoherente
  <2> QED BY <2>2, <2>4, <2>5 DEF Inv1
<1>2. CASE AtenderExit(c)
  <2>1. Postea("EXIT")
    BY <1>2 DEF AtenderExit, Postea
  <2> QED BY <1>1, <1>2, <1>a, <1>e, <2>1 DEF AtenderExit
<1>3. CASE AtenderIOInvalida(c)
  <2>1. Postea("EXIT")
    BY <1>3 DEF AtenderIOInvalida, Postea
  <2> QED BY <1>1, <1>3, <1>a, <1>e, <2>1 DEF AtenderIOInvalida
<1>4. CASE AtenderIO(c) \/ AtenderIOAusente(c)
  <2>1. Postea("BLOCKED") /\ Recibe(c, "IO")
    BY <1>4 DEF AtenderIO, AtenderIOAusente, Postea
  <2>2. Head(syscall[c]).p \in Pids
    BY <2>1, RecibeProps
  <2>3. PICK x \in Estimaciones, b \in BOOLEAN :
          pcb' = [pcb EXCEPT ![Head(syscall[c]).p].motivo = "IO",
                             ![Head(syscall[c]).p].est = x,
                             ![Head(syscall[c]).p].olvidado = b]
    BY <1>4 DEF AtenderIO, AtenderIOAusente
  <2>4. pcb' \in TipoPcb
    BY <1>a, <1>b, <2>2, <2>3 DEF TipoPcb, motivo_blocked
  <2>5. /\ Pasar(Head(syscall[c]).p, "EXEC", "BLOCKED") /\ Luego(c, "libera")
        /\ UNCHANGED <<id_pcb_generador, finalizados, mutexMemoria, nar, eaf,
                       corto, dump, cpu, enviados, usadas>>
    BY <1>4 DEF AtenderIO, AtenderIOAusente
  <2>6. io' \in TipoIo /\ doble' = doble
    <3>1. CreaTimer(Head(syscall[c]).p) /\ doble' = doble
      BY <1>4 DEF AtenderIO, AtenderIOAusente
    <3>2. io[Head(syscall[c]).p].timers + 1 \in Nat
      BY <1>e, <2>2 DEF TipoIo
    <3> QED BY <1>e, <2>2, <3>1, <3>2 DEF CreaTimer, TipoIo
  <2> QED BY <1>1, <2>1, <2>4, <2>5, <2>6
<1>5. CASE AtenderInit(c)
  <2> DEFINE N == lista["NEW"]
             n == id_pcb_generador
  <2>1. PICK i \in 1 .. Len(N) + 1 : lista' = [lista EXCEPT !["NEW"] = InsertAt(@, i, n)]
    BY <1>5 DEF AtenderInit
  <2>2. /\ Recibe(c, "INIT") /\ id_pcb_generador' = n + 1
        /\ pcb' = [pcb EXCEPT ![n].peso = Head(syscall[c]).peso]
        /\ sem' = [sem EXCEPT !.espIni = @ + 1]
        /\ UNCHANGED <<finalizados, mutexMemoria, nar, eaf, corto, hiloCpu, dump,
                       cpu, enviados, usadas, io, doble>>
    BY <1>5 DEF AtenderInit
  <2>3. /\ Head(syscall[c]) \in Mensaje /\ syscall' \in [Cpus -> Seq(Mensaje)]
        /\ cpu[c] = "OCUPADA" /\ hiloCpu[c].pc = "recibe"
        /\ \A d \in Cpus \ {c} : syscall'[d] = syscall[d]
        /\ Len(syscall[c]) \in Nat /\ Len(syscall'[c]) = Len(syscall[c]) - 1
        /\ \A j \in 1 .. Len(syscall'[c]) :
              /\ syscall'[c][j] = syscall[c][j + 1]
              /\ j + 1 \in 1 .. Len(syscall[c])
        /\ syscall[c][1].tipo = "INIT" /\ 1 \in 1 .. Len(syscall[c])
    BY <2>2, RecibeProps
  <2>4. n < MaxProcesos /\ n \in Pids /\ n + 1 \in 1 .. MaxProcesos
    <3>1. n < MaxProcesos
      BY <1>0, <2>3 DEF IdParaInit
    <3> QED BY <1>a, <3>1, ConstantesOk DEF Pids, ConstantesOk
  <2>5. /\ lista \in [EstadoProceso -> Seq(Pids)] /\ N \in Seq(Pids)
        /\ Len(N) \in Nat /\ Len(lista["SUSP_READY"]) \in Nat
    BY <1>0, Largos DEF TypeOK, TipoLista, EstadoProceso
  <2>6. /\ InsertAt(N, i, n) \in Seq(Pids) /\ Len(InsertAt(N, i, n)) = Len(N) + 1
        /\ \A q : Contains(InsertAt(N, i, n), q) <=> q = n \/ Contains(N, q)
    BY <2>4, <2>5, PonerProps
  <2>7. /\ lista' \in TipoLista /\ lista'["NEW"] = InsertAt(N, i, n)
        /\ \A e \in EstadoProceso \ {"NEW"} : lista'[e] = lista[e]
    BY <2>1, <2>5, <2>6 DEF TipoLista, EstadoProceso
  <2>8. pcb' \in TipoPcb
    <3>1. Head(syscall[c]).peso \in Nat
      <4>1. Head(syscall[c]).tipo = "INIT"
        BY <2>2 DEF Recibe
      <4> QED BY <1>b, <2>3, <4>1 DEF Mensaje
    <3> QED BY <1>a, <2>2, <3>1 DEF TipoPcb
  <2>9. sem' \in TipoSem
    BY <1>a, <2>2 DEF TipoSem
  <2>10. TypeOK'
    BY <1>0, <2>2, <2>3, <2>4, <2>7, <2>8, <2>9 DEF TypeOK
  <2>11. /\ lista'["READY"] = lista["READY"] /\ lista'["EXIT"] = lista["EXIT"]
         /\ lista'["SUSP_READY"] = lista["SUSP_READY"]
    BY <2>7 DEF EstadoProceso
  <2>12. TomaNar' /\ TomaEaf' /\ TomaCorto'
    BY <2>2, <2>6, <2>7, <2>11 DEF Inv1, TomaNar, TomaEaf, TomaCorto, OrigenNar, En
  <2>13. /\ sem'.espIni = sem.espIni + 1 /\ sem'.ready = sem.ready
         /\ sem'.exit = sem.exit /\ sem'.cpus = sem.cpus
    BY <1>a, <2>2 DEF TipoSem
  <2>14. CuentaReady' /\ CuentaExit' /\ CuentaCpus'
    BY <2>2, <2>11, <2>13 DEF Inv1, CuentaReady, CuentaExit, CuentaCpus, CpusLibres
  <2>15. CuentaEspIni'
    <3> DEFINE m == Len(N)
               s == Len(lista["SUSP_READY"])
    <3>1. EsperanInicializar = m + s /\ EsperanInicializar' = (m + 1) + s
      BY <2>6, <2>7, <2>11 DEF EsperanInicializar
    <3>2. m \in Nat /\ s \in Nat
      BY <2>5
    <3> HIDE DEF m, s
    <3>3. EsperanInicializar' = EsperanInicializar + 1
      BY <3>1, <3>2
    <3> QED BY <1>d, <2>2, <2>13, <3>3 DEF Inv1, CuentaEspIni, Uno
  <2>16. CpuLibreCallada' /\ CpuUnProceso'
    BY <1>0, <2>2, <2>3 DEF CpuCoherente, CpuLibreCallada, CpuUnProceso
  <2>17. CpuCallaAlCeder'
    <3> SUFFICES ASSUME NEW d \in Cpus
                 PROVE /\ \A j \in 1 .. Len(syscall'[d]) : syscall'[d][j].tipo # "INIT"
                            => j = Len(syscall'[d]) /\ enviados'[d] = {}
                       /\ hiloCpu'[d].pc = "libera" =>
                            enviados'[d] = {} /\ syscall'[d] = <<>>
      BY DEF CpuCallaAlCeder
    <3>1. CASE d = c
      <4>1. \A j \in 1 .. Len(syscall'[c]) : syscall'[c][j].tipo # "INIT" =>
              j + 1 = Len(syscall[c]) /\ enviados[c] = {}
        BY <1>0, <2>3 DEF CpuCoherente, CpuCallaAlCeder
      <4>2. \A j \in 1 .. Len(syscall'[c]) : j + 1 = Len(syscall[c]) => j = Len(syscall'[c])
        BY <2>3
      <4> QED BY <2>2, <2>3, <3>1, <4>1, <4>2
    <3>2. CASE d # c
      BY <1>0, <2>2, <2>3, <3>2 DEF CpuCoherente, CpuCallaAlCeder
    <3> QED BY <3>1, <3>2
  <2>18. IdParaInit'
    <3>1. \A d \in Cpus : \A j \in 1 .. Len(syscall[d]) :
            syscall[d][j].tipo = "INIT" => d = c /\ j = 1
      BY <1>0, <2>3 DEF IdParaInit
    <3>2. \A d \in Cpus : \A j \in 1 .. Len(syscall'[d]) : syscall'[d][j].tipo # "INIT"
      <4> TAKE d \in Cpus
      <4>1. CASE d = c
        <5>1. \A j \in 1 .. Len(syscall'[c]) : j + 1 # 1
          BY <2>3
        <5> QED BY <2>3, <3>1, <4>1, <5>1
      <4>2. CASE d # c
        BY <2>3, <3>1, <4>2
      <4> QED BY <4>1, <4>2
    <3> QED BY <3>2 DEF IdParaInit
  <2> QED BY <2>10, <2>12, <2>14, <2>15, <2>16, <2>17, <2>18 DEF CpuCoherente, Inv1
<1>6. CASE AtenderDump(c)
  <2>1. /\ Recibe(c, "DUMP") /\ cpu' = [cpu EXCEPT ![c] = "LIBRE"]
        /\ sem' = [sem EXCEPT !.cpus = @ + 1]
        /\ pcb' = [pcb EXCEPT ![Head(syscall[c]).p].motivo = "MEMORY_DUMP"]
        /\ hiloCpu' = [hiloCpu EXCEPT ![c] = [pc |-> "lanza", p |-> Head(syscall[c]).p]]
        /\ UNCHANGED <<lista, id_pcb_generador, finalizados, mutexMemoria, nar,
                       eaf, corto, dump, enviados, usadas, io, doble>>
    BY <1>6 DEF AtenderDump
  <2>2. /\ syscall' \in [Cpus -> Seq(Mensaje)] /\ Head(syscall[c]).p \in Pids
        /\ cpu[c] = "OCUPADA"
    BY <2>1, RecibeProps
  <2>3. pcb' \in TipoPcb
    BY <1>a, <2>1, <2>2 DEF TipoPcb, motivo_blocked
  <2>4. /\ hiloCpu' \in TipoHiloCpu /\ hiloCpu'[c].pc = "lanza"
        /\ \A d \in Cpus \ {c} : hiloCpu'[d].pc = hiloCpu[d].pc
    BY <1>a, <2>1, <2>2 DEF TipoHiloCpu
  <2>5. /\ cpu' \in [Cpus -> {"LIBRE", "OCUPADA"}]
        /\ \A d \in Cpus : cpu'[d] = IF d = c THEN "LIBRE" ELSE cpu[d]
    BY <1>a, <2>1
  <2>6. sem' \in TipoSem
    BY <1>a, <2>1 DEF TipoSem
  <2>7. TypeOK'
    BY <1>0, <2>1, <2>2, <2>3, <2>4, <2>5, <2>6 DEF TypeOK
  <2>8. CpuCoherente' /\ IdParaInit'
    BY <2>1, <2>4, <2>5, RecibeCoherente
  <2>9. TomaCorto'
    BY <2>1, <2>5 DEF Inv1, TomaCorto, En
  <2>10. /\ sem'.cpus = sem.cpus + 1 /\ sem'.ready = sem.ready
         /\ sem'.exit = sem.exit /\ sem'.espIni = sem.espIni
    BY <1>a, <2>1 DEF TipoSem
  <2>11. CuentaCpus'
    <3>1. Cardinality(CpusLibres)' = Cardinality(CpusLibres) + 1
      BY <1>0, <2>1, <2>2, LibresProps
    <3> QED BY <1>d, <2>1, <2>10, <3>1 DEF Inv1, CuentaCpus, Uno
  <2>12. CuentaReady' /\ CuentaExit' /\ CuentaEspIni'
    BY <2>1, <2>10 DEF Inv1, CuentaReady, CuentaExit, CuentaEspIni, EsperanInicializar
  <2> QED BY <2>1, <2>7, <2>8, <2>9, <2>11, <2>12, PartesIguales DEF Inv1
<1>7. CASE LanzarDump(c)
  <2>1. /\ hiloCpu' \in TipoHiloCpu /\ hiloCpu'[c].pc = "recibe"
        /\ \A d \in Cpus \ {c} : hiloCpu'[d].pc = hiloCpu[d].pc
    BY <1>a, <1>7, ConstantesOk DEF LanzarDump, TipoHiloCpu
  <2>2. dump' \in TipoDump
    BY <1>a, <1>7 DEF LanzarDump, TipoDump, Conexion
  <2>3. TypeOK'
    BY <1>0, <1>7, <2>1, <2>2 DEF LanzarDump, TypeOK
  <2>4. CpuCoherente'
    BY <1>0, <1>7, <2>1 DEF LanzarDump, CpuCoherente, CpuLibreCallada, CpuUnProceso,
       CpuCallaAlCeder
  <2> QED BY <1>7, <2>3, <2>4, PartesIguales DEF LanzarDump, Inv1
<1>8. CASE LiberarCpu(c)
  <2>1. /\ hiloCpu[c].pc = "libera" /\ cpu' = [cpu EXCEPT ![c] = "LIBRE"]
        /\ sem' = [sem EXCEPT !.cpus = @ + 1] /\ Luego(c, "recibe")
        /\ UNCHANGED <<lista, pcb, id_pcb_generador, finalizados, mutexMemoria, nar,
                       eaf, corto, dump, enviados, syscall, usadas, io, doble>>
    BY <1>8 DEF LiberarCpu
  <2>2. enviados[c] = {} /\ syscall[c] = <<>> /\ cpu[c] = "OCUPADA"
    BY <1>0, <1>a, <2>1 DEF CpuCoherente, CpuCallaAlCeder, CpuLibreCallada
  <2>3. /\ hiloCpu' \in TipoHiloCpu /\ hiloCpu'[c].pc = "recibe"
        /\ \A d \in Cpus \ {c} : hiloCpu'[d].pc = hiloCpu[d].pc
    BY <1>c, <2>1
  <2>4. /\ cpu' \in [Cpus -> {"LIBRE", "OCUPADA"}]
        /\ \A d \in Cpus : cpu'[d] = IF d = c THEN "LIBRE" ELSE cpu[d]
    BY <1>a, <2>1
  <2>5. sem' \in TipoSem
    BY <1>a, <2>1 DEF TipoSem
  <2>6. TypeOK'
    BY <1>0, <2>1, <2>3, <2>4, <2>5 DEF TypeOK
  <2>7. CpuCoherente'
    BY <1>0, <2>1, <2>2, <2>3, <2>4 DEF CpuCoherente, CpuLibreCallada, CpuUnProceso,
       CpuCallaAlCeder
  <2>8. TomaCorto'
    BY <2>1, <2>4 DEF Inv1, TomaCorto, En
  <2>9. /\ sem'.cpus = sem.cpus + 1 /\ sem'.ready = sem.ready
        /\ sem'.exit = sem.exit /\ sem'.espIni = sem.espIni
    BY <1>a, <2>1 DEF TipoSem
  <2>10. CuentaCpus'
    <3>1. Cardinality(CpusLibres)' = Cardinality(CpusLibres) + 1
      BY <1>0, <2>1, <2>2, LibresProps
    <3> QED BY <1>d, <2>1, <2>9, <3>1 DEF Inv1, CuentaCpus, Uno
  <2>11. CuentaReady' /\ CuentaExit' /\ CuentaEspIni'
    BY <2>1, <2>9 DEF Inv1, CuentaReady, CuentaExit, CuentaEspIni, EsperanInicializar
  <2> QED BY <2>1, <2>6, <2>7, <2>8, <2>10, <2>11, PartesIguales DEF Inv1
<1> QED BY <1>2, <1>3, <1>4, <1>5, <1>6, <1>7, <1>8 DEF EsperaRtaCpu

------------------------------------------------------------------------------
(* A dump thread preserves the invariant.                                  *)
LEMMA PasoDump == ASSUME NEW p \in Pids PROVE Inv1 /\ HiloDump(p) => Inv1'
<1> SUFFICES ASSUME Inv1, HiloDump(p) PROVE Inv1'
  OBVIOUS
<1>0. TypeOK
  BY DEF Inv1
<1>a. /\ dump \in TipoDump /\ nar \in TipoNar /\ pcb \in TipoPcb
      /\ Estimaciones \subseteq Nat
  BY <1>0, ConstantesOk DEF TypeOK, ConstantesOk
<1>1. ASSUME NEW de \in {"EXEC", "BLOCKED"}, NEW a \in {"BLOCKED", "READY", "EXIT"},
             de # a, Pasar(p, de, a), Postea(a), MismoNar, nar' \in TipoNar,
             dump' \in TipoDump, pcb' \in TipoPcb, mutexMemoria' \in BOOLEAN,
             doble' \in BOOLEAN,
             UNCHANGED <<id_pcb_generador, finalizados, eaf, corto, hiloCpu, cpu,
                         enviados, syscall, usadas, io>>
      PROVE  Inv1'
  <2>1. /\ lista' \in TipoLista /\ sem' \in TipoSem
        /\ TomaNar' /\ TomaEaf' /\ TomaCorto'
        /\ CuentaReady' /\ CuentaExit' /\ CuentaEspIni' /\ CuentaCpus'
    BY <1>1, MoverCuenta
  <2>2. TypeOK'
    BY <1>0, <1>1, <2>1 DEF TypeOK
  <2> QED BY <1>1, <2>1, <2>2, PartesIguales DEF Inv1
<1>2. CASE DumpPide(p)
  <2>1. PICK x \in ConexionNueva :
          /\ dump' = [dump EXCEPT ![p] = [pc |-> "espera", conex |-> x]]
          /\ nar' = [nar EXCEPT !.reusada = @ \/ x = "reusa"]
    BY <1>2 DEF DumpPide
  <2>2. PICK y \in Estimaciones : pcb' = [pcb EXCEPT ![p].est = y]
    BY <1>2 DEF DumpPide
  <2>3. dump' \in TipoDump
    BY <1>a, <2>1 DEF ConexionNueva, TipoDump, Conexion
  <2>4. nar' \in TipoNar /\ MismoNar
    BY <1>a, <2>1 DEF TipoNar, MismoNar
  <2>5. pcb' \in TipoPcb
    BY <1>a, <2>2 DEF TipoPcb
  <2>6. Postea("BLOCKED")
    BY <1>2 DEF DumpPide, Postea
  <2>7. doble' \in BOOLEAN
    BY <1>0, <1>2 DEF DumpPide, TypeOK
  <2> QED BY <1>1, <1>2, <2>3, <2>4, <2>5, <2>6, <2>7 DEF DumpPide
<1>3. CASE DumpConfirmado(p) \/ DumpFallido(p)
  <2>1. /\ dump' = [dump EXCEPT ![p] = [pc |-> "no", conex |-> "cerrada"]]
        /\ mutexMemoria' = FALSE
        /\ UNCHANGED <<pcb, id_pcb_generador, finalizados, nar, eaf, corto,
                       hiloCpu, cpu, enviados, syscall, usadas, io>>
        /\ doble' \in BOOLEAN
    BY <1>3 DEF DumpConfirmado, DumpFallido
  <2>2. dump' \in TipoDump
    BY <1>a, <2>1 DEF TipoDump, Conexion
  <2>3. PICK a \in {"READY", "EXIT"} : Pasar(p, "BLOCKED", a) /\ Postea(a)
    BY <1>3 DEF DumpConfirmado, DumpFallido, Postea
  <2>4. MismoNar
    BY <2>1 DEF MismoNar
  <2> QED BY <1>1, <1>a, <2>1, <2>2, <2>3, <2>4
<1>4. CASE DumpSinRespuesta(p)
  <2>1. dump' \in TipoDump
    BY <1>a, <1>4 DEF DumpSinRespuesta, TipoDump, Conexion
  <2>2. TypeOK'
    BY <1>0, <1>4, <2>1 DEF DumpSinRespuesta, TypeOK
  <2> QED BY <1>4, <2>2, PartesIguales DEF DumpSinRespuesta, Inv1
<1> QED BY <1>2, <1>3, <1>4 DEF HiloDump

(* The moves of the devices and the timers preserve the invariant, also    *)
(* when they find the process gone: they never take from a list that a     *)
(* semaphore counts.                                                       *)
LEMMA PasoIO == ASSUME NEW p \in Pids PROVE Inv1 /\ (LadoIO(p) \/ HiloTimer(p)) => Inv1'
<1> SUFFICES ASSUME Inv1, LadoIO(p) \/ HiloTimer(p) PROVE Inv1'
  OBVIOUS
<1>0. TypeOK /\ io \in TipoIo /\ io[p].corta \in {"no", "BLOCKED", "SUSP_BLOCKED"}
  BY DEF Inv1, TypeOK, TipoIo
<1>1. ASSUME NEW de \in {"BLOCKED", "SUSP_BLOCKED"},
             NEW a \in {"READY", "SUSP_BLOCKED", "SUSP_READY", "EXIT"},
             de # a, Pasar(p, de, a), Postea(a), io' \in TipoIo, doble' \in BOOLEAN,
             UNCHANGED <<pcb, id_pcb_generador, finalizados, mutexMemoria, nar, eaf,
                         corto, hiloCpu, dump, cpu, enviados, syscall, usadas>>
      PROVE  Inv1'
  <2>1. /\ lista' \in TipoLista /\ sem' \in TipoSem
        /\ TomaNar' /\ TomaEaf' /\ TomaCorto'
        /\ CuentaReady' /\ CuentaExit' /\ CuentaEspIni' /\ CuentaCpus'
    BY <1>1, MoverCuenta DEF MismoNar
  <2>2. TypeOK'
    BY <1>0, <1>1, <2>1 DEF TypeOK
  <2> QED BY <1>1, <2>1, <2>2, PartesIguales DEF Inv1
<1>2. CASE AtiendeIO(p)
  <2>1. io' = io /\ doble' \in BOOLEAN
    BY <1>0, <1>2 DEF AtiendeIO, RespondeIO, RespondeIOSuspendido, DesconectaIO, TypeOK
  <2> QED BY <1>0, <1>1, <1>2, <2>1
          DEF AtiendeIO, RespondeIO, RespondeIOSuspendido, DesconectaIO, Postea
<1>3. CASE CortaMueve(p)
  <2>1. io' \in TipoIo /\ doble' \in BOOLEAN
    BY <1>0, <1>3 DEF CortaMueve, TipoIo
  <2> QED BY <1>0, <1>1, <1>3, <2>1 DEF CortaMueve, Postea
<1>4. CASE TimerMueve(p)
  <2>1. io' \in TipoIo /\ doble' \in BOOLEAN
    BY <1>0, <1>4 DEF TimerMueve, TipoIo
  <2> QED BY <1>1, <1>4, <2>1 DEF TimerMueve, Postea
<1>5. CASE PierdeAviso(p)
  <2>1. pcb' \in TipoPcb
    BY <1>0, <1>5 DEF PierdeAviso, TypeOK, TipoPcb
  <2>2. TypeOK'
    BY <1>0, <1>5, <2>1 DEF PierdeAviso, TypeOK
  <2> QED BY <1>5, <2>2, PartesIguales DEF PierdeAviso, Inv1
<1>6. CASE CortaMira(p) \/ TimerMira(p) \/ TimerTermina(p) \/ TimerAvisa(p)
  <2>1. io' \in TipoIo
    BY <1>0, <1>6 DEF CortaMira, TimerMira, TimerTermina, TimerAvisa, TipoIo
  <2>2. UNCHANGED <<lista, pcb, id_pcb_generador, finalizados, sem, mutexMemoria, nar,
                    eaf, corto, hiloCpu, dump, cpu, enviados, syscall, usadas, doble>>
    BY <1>6 DEF CortaMira, TimerMira, TimerTermina, TimerAvisa
  <2>3. TypeOK'
    BY <1>0, <2>1, <2>2 DEF TypeOK
  <2> QED BY <2>2, <2>3, PartesIguales DEF Inv1
<1> QED BY <1>2, <1>3, <1>4, <1>5, <1>6 DEF LadoIO, HiloTimer

------------------------------------------------------------------------------
(* Nothing changes: the invariant stays.                                   *)
LEMMA PasoQuieto == Inv1 /\ UNCHANGED vars => Inv1'
<1> SUFFICES ASSUME Inv1, UNCHANGED vars PROVE Inv1'
  OBVIOUS
<1>1. TypeOK'
  BY DEF Inv1, TypeOK, vars
<1> QED BY <1>1, PartesIguales DEF Inv1, vars

(* Inv1 is an invariant of the planners, for every number of processes and *)
(* CPUs and every pair of algorithms.                                      *)
THEOREM Invariante == Spec => []Inv1
<1>1. Inv1 /\ [Next]_vars => Inv1'
  <2> SUFFICES ASSUME Inv1, [Next]_vars PROVE Inv1'
    OBVIOUS
  <2>1. ASSUME NEW c \in Cpus, Cpu(c) \/ EsperaRtaCpu(c) PROVE Inv1'
    BY <2>1, PasoCpu, PasoHiloCpu
  <2>2. ASSUME NEW p \in Pids, HiloDump(p) \/ LadoIO(p) \/ HiloTimer(p) PROVE Inv1'
    BY <2>2, PasoDump, PasoIO
  <2> QED BY <2>1, <2>2, PasoNar, PasoEaf, PasoCorto, PasoQuieto DEF Next
<1> QED BY <1>1, Inv1Init, PTL DEF Spec

(* Every variable keeps to its type: the ids stay below the bound, the     *)
(* semaphores never go negative, only PCBs are listed.                     *)
THEOREM Tipos == Spec => []TypeOK
BY Invariante, PTL DEF Inv1

(* Each semaphore plus the planner that holds its token counts its list    *)
(* (or the LIBRE CPUs) exactly: no handler that moves a process forgets    *)
(* its post or makes it twice.                                             *)
THEOREM Semaforos == Spec => []SemaforosCuentan
<1>1. Inv1 => SemaforosCuentan
  BY DEF Inv1, SemaforosCuentan
<1> QED BY <1>1, Invariante, PTL

(* Past its semaphore, each planner finds what it waited for: the kernel's *)
(* "no se encontro proceso" and "RARO" branches are dead code, and the     *)
(* "continue" that would lose two tokens is never taken.                   *)
THEOREM Garantia == Spec => []SemaforoGarantiza
<1>1. Inv1 => SemaforoGarantiza
  <2> SUFFICES ASSUME Inv1 PROVE SemaforoGarantiza
    OBVIOUS
  <2>0. TypeOK /\ CuentaReady /\ CuentaExit /\ CuentaEspIni /\ CuentaCpus
    BY DEF Inv1
  <2>1. /\ sem.ready \in Nat /\ sem.exit \in Nat /\ sem.espIni \in Nat
        /\ sem.cpus \in Nat
    BY <2>0 DEF TypeOK, TipoSem
  <2>2. /\ Len(lista["READY"]) \in Nat /\ Len(lista["EXIT"]) \in Nat
        /\ EsperanInicializar \in Nat /\ Cardinality(CpusLibres) \in Nat
    BY <2>0, Largos, LibresProps DEF EstadoProceso
  <2>3. Len(<<>>) = 0
    OBVIOUS
  <2>4. ASSUME corto.pc = "elige"
        PROVE  lista["READY"] # <<>> /\ \E c \in Cpus : cpu[c] = "LIBRE"
    <3>1. Len(lista["READY"]) > 0
      BY <2>0, <2>1, <2>2, <2>4 DEF CuentaReady, Uno
    <3>2. Cardinality(CpusLibres) > 0
      BY <2>0, <2>1, <2>2, <2>4 DEF CuentaCpus, Uno
    <3> QED BY <2>0, <2>3, <3>1, <3>2, LibresProps
  <2>5. ASSUME nar.pc = "espera", sem.espIni > 0
        PROVE  lista["NEW"] # <<>> \/ lista["SUSP_READY"] # <<>>
    <3>1. EsperanInicializar > 0
      BY <2>0, <2>1, <2>2, <2>5 DEF CuentaEspIni, Uno
    <3>2. lista["NEW"] = <<>> /\ lista["SUSP_READY"] = <<>> => EsperanInicializar = 0
      BY <2>3 DEF EsperanInicializar
    <3> QED BY <3>1, <3>2
  <2>6. ASSUME eaf.pc = "espera", sem.exit > 0
        PROVE  lista["EXIT"] # <<>>
    <3>1. Len(lista["EXIT"]) > 0
      BY <2>0, <2>1, <2>2, <2>6 DEF CuentaExit, Uno
    <3> QED BY <2>3, <3>1
  <2> QED BY <2>4, <2>5, <2>6 DEF SemaforoGarantiza
<1> QED BY <1>1, Invariante, PTL

(* The two posts of the Enter are never more nor less than the tokens the  *)
(* two loops of the long-term planner take: neither loop starves the other *)
(* by taking a second one.                                                 *)
THEOREM Tokens == Spec => []TokensDeInicio
<1>1. Init => TokensDeInicio
  BY DEF Init, TokensDeInicio, Uno
<1>2. Inv1 /\ TokensDeInicio /\ [Next]_vars => TokensDeInicio'
  <2> SUFFICES ASSUME Inv1, TokensDeInicio, [Next]_vars PROVE TokensDeInicio'
    OBVIOUS
  <2>0. sem \in TipoSem /\ nar \in TipoNar /\ eaf \in TipoEaf
    BY DEF Inv1, TypeOK
  <2>1. sem.iniciar \in Nat
    BY <2>0 DEF TipoSem
  <2>2. ASSUME sem'.iniciar = sem.iniciar, nar'.pc # "token" <=> nar.pc # "token",
               eaf'.pc # "token" <=> eaf.pc # "token"
        PROVE  TokensDeInicio'
    BY <2>2 DEF TokensDeInicio, Uno
  <2>3. CASE NewAReady
    <3>1. CASE NarToma
      <4>1. /\ sem'.iniciar = sem.iniciar - 1 /\ nar.pc = "token"
            /\ nar'.pc = "espera" /\ eaf' = eaf
        BY <2>0, <3>1 DEF NarToma, TipoSem, TipoNar
      <4> QED BY <2>1, <4>1 DEF TokensDeInicio, Uno
    <3>2. CASE NarElige
      <4>1. /\ nar.pc = "espera" /\ eaf' = eaf
            /\ \/ sem'.iniciar = sem.iniciar /\ nar'.pc = "consulta"
               \/ sem'.iniciar = sem.iniciar + 1 /\ nar'.pc = "token"
        BY <2>0, <3>2 DEF NarElige, TipoSem, TipoNar
      <4> QED BY <2>1, <4>1 DEF TokensDeInicio, Uno
    <3>3. CASE NarDespierta
      <4>1. /\ sem'.iniciar = sem.iniciar + 1 /\ nar.pc = "duerme"
            /\ nar'.pc = "token" /\ eaf' = eaf
        BY <2>0, <3>3 DEF NarDespierta, TipoSem, TipoNar
      <4> QED BY <2>1, <4>1 DEF TokensDeInicio, Uno
    <3>4. CASE NarPasa
      <4>1. /\ sem'.iniciar = sem.iniciar + 1 /\ nar.pc = "pasa"
            /\ nar'.pc = "token" /\ eaf' = eaf
        BY <2>0, <3>4 DEF NarPasa, TipoSem
      <4> QED BY <2>1, <4>1 DEF TokensDeInicio, Uno
    <3>5. CASE NarSinEspacio
      <4>1. sem'.iniciar = sem.iniciar /\ nar.pc = "consulta" /\ nar'.pc = "duerme"
            /\ eaf' = eaf
        BY <2>0, <3>5 DEF NarSinEspacio, TipoSem, TipoNar
      <4> QED BY <2>2, <4>1
    <3>6. CASE NarHayEspacio \/ NarCrea \/ NarDesuspende \/ MemoriaCalla \/ NarRecierra
      <4>1. sem' = sem /\ nar.pc # "token" /\ nar'.pc # "token" /\ eaf'.pc = eaf.pc
        BY <2>0, <3>6 DEF NarHayEspacio, NarCrea, NarDesuspende, MemoriaCalla,
           NarRecierra, TipoNar, TipoEaf
      <4> QED BY <2>2, <4>1
    <3> QED BY <2>3, <3>1, <3>2, <3>3, <3>4, <3>5, <3>6 DEF NewAReady
  <2>4. CASE ExitAFin
    <3>1. CASE EafToma
      <4>1. /\ sem'.iniciar = sem.iniciar - 1 /\ eaf.pc = "token"
            /\ eaf'.pc = "espera" /\ nar' = nar
        BY <2>0, <3>1 DEF EafToma, TipoSem, TipoEaf
      <4> QED BY <2>1, <4>1 DEF TokensDeInicio, Uno
    <3>2. CASE EafFinaliza
      <4>1. /\ sem'.iniciar = sem.iniciar + 1 /\ eaf.pc = "finaliza"
            /\ eaf'.pc = "token" /\ nar' = nar
        BY <2>0, <3>2 DEF EafFinaliza, TipoSem
      <4> QED BY <2>1, <4>1 DEF TokensDeInicio, Uno
    <3>3. CASE EafElige \/ EafResponde
      <4>1. sem'.iniciar = sem.iniciar /\ eaf.pc # "token" /\ eaf'.pc # "token"
            /\ nar' = nar
        BY <2>0, <3>3 DEF EafElige, EafResponde, TipoSem, TipoEaf
      <4> QED BY <2>2, <4>1
    <3>4. CASE EafConecta
      <4>1. sem' = sem /\ eaf.pc # "token" /\ eaf'.pc # "token" /\ nar'.pc = nar.pc
        BY <2>0, <3>4 DEF EafConecta, TipoNar, TipoEaf
      <4> QED BY <2>2, <4>1
    <3> QED BY <2>4, <3>1, <3>2, <3>3, <3>4 DEF ExitAFin
  <2>5. CASE PlanificacionCorto
    <3>1. sem'.iniciar = sem.iniciar /\ nar' = nar /\ eaf' = eaf
      BY <2>0, <2>5 DEF PlanificacionCorto, CortoEsperaCpu, CortoEsperaReady,
         CortoElige, CortoSaca, CortoAsigna, TipoSem
    <3> QED BY <2>2, <3>1
  <2>6. CASE \E c \in Cpus : Cpu(c)
    <3>1. UNCHANGED <<sem, nar, eaf>>
      BY <2>6 DEF Cpu, CpuPideExit, CpuPideInit, CpuPideBloqueo
    <3> QED BY <2>2, <3>1
  <2>7. CASE \E c \in Cpus : EsperaRtaCpu(c)
    <3>1. PICK c \in Cpus : EsperaRtaCpu(c)
      BY <2>7
    <3>2. sem'.iniciar = sem.iniciar /\ nar' = nar /\ eaf' = eaf
      BY <2>0, <3>1 DEF EsperaRtaCpu, AtenderExit, AtenderIO, AtenderIOInvalida,
         AtenderIOAusente, AtenderInit, AtenderDump, LanzarDump, LiberarCpu, TipoSem
    <3> QED BY <2>2, <3>2
  <2>8. CASE \E p \in Pids : HiloDump(p) \/ LadoIO(p) \/ HiloTimer(p)
    <3>1. PICK p \in Pids : HiloDump(p) \/ LadoIO(p) \/ HiloTimer(p)
      BY <2>8
    <3>2. sem'.iniciar = sem.iniciar
      BY <2>0, <3>1 DEF HiloDump, DumpPide, DumpConfirmado, DumpFallido,
         DumpSinRespuesta, LadoIO, AtiendeIO, RespondeIO, RespondeIOSuspendido,
         DesconectaIO, CortaMira, CortaMueve, PierdeAviso, HiloTimer, TimerMira,
         TimerTermina, TimerAvisa, TimerMueve, TipoSem
    <3>3. nar'.pc = nar.pc /\ eaf' = eaf
      BY <2>0, <3>1 DEF HiloDump, DumpPide, DumpConfirmado, DumpFallido,
         DumpSinRespuesta, LadoIO, AtiendeIO, RespondeIO, RespondeIOSuspendido,
         DesconectaIO, CortaMira, CortaMueve, PierdeAviso, HiloTimer, TimerMira,
         TimerTermina, TimerAvisa, TimerMueve, TipoNar
    <3> QED BY <2>2, <3>2, <3>3
  <2>9. CASE UNCHANGED vars
    BY <2>2, <2>9 DEF vars
  <2> QED BY <2>3, <2>4, <2>5, <2>6, <2>7, <2>8, <2>9 DEF Next
<1> QED BY <1>1, <1>2, Invariante, PTL DEF Spec

==============================================================================
