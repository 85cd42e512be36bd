---------------------- MODULE PlanificacionDuenios_proof ----------------------
(***************************************************************************)
(* Who owns each process.  It is in one list; while it is in EXEC it is in *)
(* the hands of one thread, CPU or socket, and nobody else moves it.  That *)
(* (Duenios) lasts until a thread moves a process out of a list it has     *)
(* left; what it implies and such a step does not break (Promesas) lasts   *)
(* for ever.  From the two follow the safety properties of the lists and   *)
(* that the planners implement CicloDeVida up to that step.                *)
(***************************************************************************)
EXTENDS Planificacion_proof

(* One list at a time, each process once.                                  *)
UnaLista ==
  /\ \A e \in EstadoProceso : SinRepetidos(lista[e])
  /\ \A e, f \in EstadoProceso : \A p \in Pids : En(p, e) /\ En(p, f) => e = f

Creado(p) == p < id_pcb_generador /\ p \notin finalizados

(* The processes in the lists are those created and not freed.             *)
Listados == \A p \in Pids : Creado(p) <=> \E e \in EstadoProceso : En(p, e)

LiberadosCreados == \A p \in finalizados : p < id_pcb_generador

(* The hands a process in EXEC can be in: the planner's before it is sent, *)
(* a CPU's, the message that ends its turn, the CPU thread's about to      *)
(* create its dump thread, and the dump thread's before it blocks it.      *)
Cede(c, p) ==
  \E i \in 1 .. Len(syscall[c]) : syscall[c][i].p = p /\ syscall[c][i].tipo # "INIT"

Tiene(t, c, p) ==
  \/ t = "corto" /\ c = Nadie /\ corto.pc = "asigna" /\ corto.p = p
  \/ t = "cpu" /\ c \in Cpus /\ p \in enviados[c]
  \/ t = "msg" /\ c \in Cpus /\ Cede(c, p)
  \/ t = "lanza" /\ c \in Cpus /\ hiloCpu[c].pc = "lanza" /\ hiloCpu[c].p = p
  \/ t = "dump" /\ c = Nadie /\ dump[p].pc = "pide"

Manos   == {"corto", "cpu", "msg", "lanza", "dump"}
Lugares == Cpus \cup {Nadie}

UnaMano ==
  \A p \in Pids : \A t, u \in Manos : \A c, d \in Lugares :
    Tiene(t, c, p) /\ Tiene(u, d, p) => t = u /\ c = d

EnManosEnExec ==
  \A p \in Pids : \A t \in Manos : \A c \in Lugares : Tiene(t, c, p) => En(p, "EXEC")

(* An INIT_PROC in a socket is from the process that runs in that CPU or   *)
(* has ended its turn behind it.                                           *)
InitDelTurno ==
  \A c \in Cpus : \A p \in Pids : \A i \in 1 .. Len(syscall[c]) :
    syscall[c][i].tipo = "INIT" /\ syscall[c][i].p = p => p \in enviados[c] \/ Cede(c, p)

(* A process in a dump is blocked for that reason, so that no device moves *)
(* it (an old timer may suspend it); one that forzar_exit has looked at is *)
(* blocked for an IO, so that no dump thread moves it.                     *)
Retenido(p) == En(p, "BLOCKED") \/ En(p, "SUSP_BLOCKED")

DumpBloquea ==
  \A p \in Pids :
    /\ dump[p].pc # "no" => pcb[p].motivo = "MEMORY_DUMP"
    /\ dump[p].pc \in {"espera", "perdido"} => Retenido(p)
    /\ io[p].corta # "no" => pcb[p].motivo = "IO" /\ Retenido(p)
    /\ \A c \in Cpus : hiloCpu[c].pc = "lanza" /\ hiloCpu[c].p = p =>
         pcb[p].motivo = "MEMORY_DUMP"

(* A thread that holds no process has the null pointer.                    *)
SinProceso ==
  /\ nar.p # Nadie => nar.pc \in NarConProceso
  /\ eaf.p # Nadie => eaf.pc \in {"conecta", "responde", "finaliza"}
  /\ corto.p # Nadie => corto.pc \in {"saca", "asigna"}
  /\ \A c \in Cpus : hiloCpu[c].p # Nadie <=> hiloCpu[c].pc = "lanza"

Duenios == UnaLista /\ Listados /\ LiberadosCreados /\ UnaMano /\ EnManosEnExec
           /\ InitDelTurno /\ DumpBloquea /\ SinProceso

Inv2 == Inv1 /\ Duenios

(* What survives a move out of a list the process had left.                *)
Promesas == NingunoPerdido /\ LiberadoSoloEnTimers /\ CpuExclusiva
            /\ SyscallEncuentraProceso

InvDuenios == Inv1 /\ Promesas /\ (doble \/ Duenios)

------------------------------------------------------------------------------
(* Moves.  Process p, and no other, changes lists, and ends up in a.       *)
Movido(p, a) ==
  \A q \in Pids : \A e \in EstadoProceso :
    En(q, e)' <=> IF q = p THEN e = a ELSE En(q, e)

LEMMA MoverListas ==
  ASSUME Inv2, NEW p \in Pids, NEW de \in EstadoProceso, NEW a \in EstadoProceso,
         de # a, En(p, de), Pasar(p, de, a)
  PROVE  UnaLista' /\ Movido(p, a)
<1>0. TypeOK /\ UnaLista
  BY DEF Inv2, Inv1, Duenios
<1>1. /\ \A e \in EstadoProceso \ {de, a} : lista'[e] = lista[e]
      /\ \A q : Contains(lista'[a], q) <=> q = p \/ Contains(lista[a], q)
      /\ \A q : q # p => (Contains(lista'[de], q) <=> Contains(lista[de], q))
      /\ SinRepetidos(lista'[de]) /\ ~Contains(lista'[de], p)
      /\ SinRepetidos(lista'[a])
  <2>1. SinRepetidos(lista[de]) /\ SinRepetidos(lista[a]) /\ ~Contains(lista[a], p)
    BY <1>0 DEF UnaLista, En
  <2> QED BY <1>0, <2>1, PasarProps
<1>2. Movido(p, a)
  <2> SUFFICES ASSUME NEW q \in Pids, NEW e \in EstadoProceso
               PROVE  Contains(lista'[e], q) <=> IF q = p THEN e = a ELSE Contains(lista[e], q)
    BY DEF Movido, En
  <2>1. CASE e = a
    BY <1>1, <2>1
  <2>2. CASE e = de
    BY <1>1, <2>2
  <2>3. CASE e # a /\ e # de
    BY <1>0, <1>1, <2>3 DEF UnaLista, En
  <2> QED BY <2>1, <2>2, <2>3
<1>3. UnaLista'
  <2>1. \A e \in EstadoProceso : SinRepetidos(lista'[e])
    BY <1>0, <1>1 DEF UnaLista
  <2>2. \A e, f \in EstadoProceso : \A q \in Pids : En(q, e)' /\ En(q, f)' => e = f
    BY <1>0, <1>2 DEF UnaLista, Movido
  <2> QED BY <2>1, <2>2 DEF UnaLista
<1> QED BY <1>2, <1>3

LEMMA MoverListados ==
  ASSUME Inv2, NEW p \in Pids, NEW de \in EstadoProceso, NEW a \in EstadoProceso,
         En(p, de), Movido(p, a), UNCHANGED <<id_pcb_generador, finalizados>>
  PROVE  Listados' /\ LiberadosCreados'
<1>1. \A q \in Pids : (\E e \in EstadoProceso : En(q, e)) <=> \E e \in EstadoProceso : En(q, e)'
  BY DEF Movido
<1> QED BY <1>1 DEF Inv2, Duenios, Listados, LiberadosCreados, Creado

(* Process p leaves EXIT and is in no list.                                *)
Sacado(p) == \A q \in Pids : \A e \in EstadoProceso : En(q, e)' <=> En(q, e) /\ q # p

LEMMA SacarListas ==
  ASSUME Inv2, NEW p \in Pids, En(p, "EXIT"),
         lista' = [lista EXCEPT !["EXIT"] = RemoveFirst(@, p)]
  PROVE  UnaLista' /\ Sacado(p)
<1>0. TypeOK /\ UnaLista
  BY DEF Inv2, Inv1, Duenios
<1>1. "EXIT" \in EstadoProceso /\ lista["EXIT"] \in Seq(Pids) /\ SinRepetidos(lista["EXIT"])
  BY <1>0, Largos DEF EstadoProceso, UnaLista
<1>2. /\ \A e \in EstadoProceso \ {"EXIT"} : lista'[e] = lista[e]
      /\ lista'["EXIT"] = RemoveFirst(lista["EXIT"], p)
  BY <1>0, <1>1 DEF TypeOK, TipoLista
<1>3. /\ \A x : x # p => (Contains(lista'["EXIT"], x) <=> Contains(lista["EXIT"], x))
      /\ SinRepetidos(lista'["EXIT"]) /\ ~Contains(lista'["EXIT"], p)
  BY <1>1, <1>2, SacarProps
<1>4. Sacado(p)
  <2> SUFFICES ASSUME NEW q \in Pids, NEW e \in EstadoProceso
               PROVE  Contains(lista'[e], q) <=> Contains(lista[e], q) /\ q # p
    BY DEF Sacado, En
  <2>1. CASE e = "EXIT"
    BY <1>3, <2>1
  <2>2. CASE e # "EXIT"
    <3>1. lista'[e] = lista[e]
      BY <1>2, <2>2
    <3>2. ~Contains(lista[e], p)
      BY <1>0, <1>1, <2>2 DEF UnaLista, En
    <3> QED BY <3>1, <3>2
  <2> QED BY <2>1, <2>2
<1>5. UnaLista'
  <2>1. \A e \in EstadoProceso : SinRepetidos(lista'[e])
    BY <1>0, <1>2, <1>3 DEF UnaLista
  <2>2. \A e, f \in EstadoProceso : \A q \in Pids : En(q, e)' /\ En(q, f)' => e = f
    BY <1>0, <1>4 DEF UnaLista, Sacado
  <2> QED BY <2>1, <2>2 DEF UnaLista
<1> QED BY <1>4, <1>5

(* Process p, which was in no list, enters NEW.                            *)
Agregado(p) ==
  \A q \in Pids : \A e \in EstadoProceso : En(q, e)' <=> En(q, e) \/ (q = p /\ e = "NEW")

LEMMA AgregarListas ==
  ASSUME Inv2, NEW p \in Pids, \A e \in EstadoProceso : ~En(p, e),
         NEW i \in 1 .. Len(lista["NEW"]) + 1,
         lista' = [lista EXCEPT !["NEW"] = InsertAt(@, i, p)]
  PROVE  UnaLista' /\ Agregado(p)
<1>0. TypeOK /\ UnaLista
  BY DEF Inv2, Inv1, Duenios
<1> DEFINE N == lista["NEW"]
<1>1. N \in Seq(Pids) /\ "NEW" \in EstadoProceso /\ SinRepetidos(N) /\ ~Contains(N, p)
  BY <1>0, Largos DEF EstadoProceso, UnaLista, En
<1>2. /\ lista'["NEW"] = InsertAt(N, i, p)
      /\ \A e \in EstadoProceso \ {"NEW"} : lista'[e] = lista[e]
  BY <1>0, <1>1 DEF TypeOK, TipoLista
<1>3. /\ \A x : Contains(lista'["NEW"], x) <=> x = p \/ Contains(lista["NEW"], x)
      /\ SinRepetidos(lista'["NEW"])
  <2> HIDE DEF N
  <2>1. /\ \A x : Contains(InsertAt(N, i, p), x) <=> x = p \/ Contains(N, x)
        /\ SinRepetidos(InsertAt(N, i, p))
    BY <1>1, PonerProps DEF N
  <2> QED BY <1>2, <2>1 DEF N
<1>4. Agregado(p)
  <2> SUFFICES ASSUME NEW q \in Pids, NEW e \in EstadoProceso
               PROVE  Contains(lista'[e], q) <=> Contains(lista[e], q) \/ (q = p /\ e = "NEW")
    BY DEF Agregado, En
  <2>1. CASE e = "NEW"
    BY <1>3, <2>1
  <2>2. CASE e # "NEW"
    BY <1>2, <2>2
  <2> QED BY <2>1, <2>2
<1>5. UnaLista'
  <2>1. \A e \in EstadoProceso : SinRepetidos(lista'[e])
    BY <1>0, <1>2, <1>3 DEF UnaLista
  <2>2. \A e, f \in EstadoProceso : \A q \in Pids : En(q, e)' /\ En(q, f)' => e = f
    BY <1>0, <1>4 DEF UnaLista, Agregado
  <2> QED BY <2>1, <2>2 DEF UnaLista
<1> QED BY <1>4, <1>5

(* Hands.  Process p ends up in the hand t of c, or in none.               *)
LEMMA PasaDeMano ==
  ASSUME Inv2, NEW p \in Pids, NEW t, NEW c,
         \A q \in Pids : \A u \in Manos : \A d \in Lugares :
           Tiene(u, d, q)' => \/ q # p /\ Tiene(u, d, q)
                              \/ q = p /\ u = t /\ d = c /\ En(p, "EXEC")',
         \A q \in Pids \ {p} : En(q, "EXEC") => En(q, "EXEC")'
  PROVE  UnaMano' /\ EnManosEnExec'
<1>1. UnaMano /\ EnManosEnExec
  BY DEF Inv2, Duenios
<1>2. UnaMano'
  BY <1>1 DEF UnaMano
<1>3. EnManosEnExec'
  BY <1>1 DEF EnManosEnExec
<1> QED BY <1>2, <1>3

(* The parts that only read what a step leaves alone.                      *)
DumpQuieto == \A p \in Pids : dump'[p].pc = dump[p].pc

CortaQuieta == \A p \in Pids : io'[p].corta = io[p].corta

LanzaQuieto ==
  \A c \in Cpus : \A p \in Pids :
    hiloCpu'[c].pc = "lanza" /\ hiloCpu'[c].p = p <=> hiloCpu[c].pc = "lanza" /\ hiloCpu[c].p = p

CortoQuieto ==
  \A p \in Pids : corto'.pc = "asigna" /\ corto'.p = p <=> corto.pc = "asigna" /\ corto.p = p

LEMMA ManosQuietas ==
  ASSUME CortoQuieto, LanzaQuieto, DumpQuieto, UNCHANGED <<enviados, syscall>>
  PROVE  \A p \in Pids : \A t \in Manos : \A c \in Lugares : Tiene(t, c, p)' <=> Tiene(t, c, p)
<1>1. \A c \in Cpus : \A p \in Pids : Cede(c, p)' <=> Cede(c, p)
  BY DEF Cede
<1> QED BY <1>1 DEF Tiene, CortoQuieto, LanzaQuieto, DumpQuieto

LEMMA DueniosIguales ==
  ASSUME Inv2
  PROVE  /\ UNCHANGED lista => UnaLista'
         /\ UNCHANGED <<lista, id_pcb_generador, finalizados>> => Listados' /\ LiberadosCreados'
         /\ UNCHANGED <<lista, enviados, syscall>> /\ CortoQuieto /\ LanzaQuieto /\ DumpQuieto =>
              UnaMano' /\ EnManosEnExec'
         /\ UNCHANGED <<enviados, syscall>> => InitDelTurno'
         /\ UNCHANGED <<lista, pcb>> /\ LanzaQuieto /\ DumpQuieto /\ CortaQuieta => DumpBloquea'
         /\ UNCHANGED <<nar, eaf, corto, hiloCpu>> => SinProceso'
<1>1. UNCHANGED lista => UnaLista'
  BY DEF Inv2, Duenios, UnaLista, En
<1>2. UNCHANGED <<lista, id_pcb_generador, finalizados>> => Listados' /\ LiberadosCreados'
  BY DEF Inv2, Duenios, Listados, LiberadosCreados, Creado, En
<1>3. ASSUME UNCHANGED <<lista, enviados, syscall>>, CortoQuieto, LanzaQuieto, DumpQuieto
      PROVE  UnaMano' /\ EnManosEnExec'
  <2>1. \A p \in Pids : \A t \in Manos : \A c \in Lugares : Tiene(t, c, p)' <=> Tiene(t, c, p)
    BY <1>3, ManosQuietas
  <2>2. \A p \in Pids : En(p, "EXEC")' <=> En(p, "EXEC")
    BY <1>3 DEF En
  <2> QED BY <2>1, <2>2 DEF Inv2, Duenios, UnaMano, EnManosEnExec
<1>4. UNCHANGED <<enviados, syscall>> => InitDelTurno'
  BY DEF Inv2, Duenios, InitDelTurno, Cede
<1>5. UNCHANGED <<lista, pcb>> /\ LanzaQuieto /\ DumpQuieto /\ CortaQuieta => DumpBloquea'
  BY DEF Inv2, Duenios, DumpBloquea, LanzaQuieto, DumpQuieto, CortaQuieta, Retenido, En
<1>6. UNCHANGED <<nar, eaf, corto, hiloCpu>> => SinProceso'
  BY DEF Inv2, Duenios, SinProceso
<1> QED BY <1>1, <1>2, <1>3, <1>4, <1>5, <1>6

(* A thread that moves a process between lists other than EXEC.            *)
LEMMA MoverFuera ==
  ASSUME Inv2, NEW p \in Pids, NEW de \in EstadoProceso \ {"EXEC"},
         NEW a \in EstadoProceso \ {"EXEC"}, de # a, En(p, de), Pasar(p, de, a),
         \/ DumpQuieto
         \/ dump'[p].pc = "no" /\ \A q \in Pids \ {p} : dump'[q].pc = dump[q].pc,
         \A q \in Pids : io'[q].corta # "no" => io[q].corta # "no",
         de \in {"BLOCKED", "SUSP_BLOCKED"} =>
           a = "SUSP_BLOCKED" \/ (dump'[p].pc = "no" /\ io'[p].corta = "no"),
         UNCHANGED <<pcb, id_pcb_generador, finalizados, corto, hiloCpu, enviados, syscall>>,
         SinProceso'
  PROVE  Duenios'
<1>1. UnaLista' /\ Movido(p, a)
  BY MoverListas
<1>2. Listados' /\ LiberadosCreados'
  BY <1>1, MoverListados
<1>3. \A t \in Manos : \A c \in Lugares : ~Tiene(t, c, p)
  BY DEF Inv2, Duenios, EnManosEnExec, UnaLista, EstadoProceso
<1>4. dump'[p].pc # "pide"
  <2>1. Tiene("dump", Nadie, p) <=> dump[p].pc = "pide"
    BY DEF Tiene
  <2> QED BY <1>3, <2>1 DEF DumpQuieto, Manos, Lugares
<1>5. UnaMano' /\ EnManosEnExec'
  <2>1. \A c \in Cpus : \A q \in Pids : Cede(c, q)' <=> Cede(c, q)
    BY DEF Cede
  <2>2. \A q \in Pids : \A t \in Manos : \A c \in Lugares : Tiene(t, c, q)' => q # p /\ Tiene(t, c, q)
    BY <1>3, <1>4, <2>1 DEF Tiene, DumpQuieto
  <2>3. \A q \in Pids \ {p} : En(q, "EXEC") => En(q, "EXEC")'
    BY <1>1 DEF Movido, EstadoProceso
  <2> QED BY <2>2, <2>3, PasaDeMano
<1>6. InitDelTurno'
  BY DueniosIguales
<1>7. DumpBloquea'
  <2>0. DumpBloquea /\ UnaLista
    BY DEF Inv2, Duenios
  <2>1. dump'[p].pc \in {"espera", "perdido"} \/ io'[p].corta # "no" => Retenido(p)'
    <3>1. dump'[p].pc \in {"espera", "perdido"} \/ io'[p].corta # "no" => Retenido(p)
      BY <2>0 DEF DumpBloquea, DumpQuieto
    <3>2. Retenido(p) => de \in {"BLOCKED", "SUSP_BLOCKED"}
      BY <2>0 DEF Retenido, UnaLista, EstadoProceso
    <3>3. En(p, a)'
      BY <1>1 DEF Movido
    <3> QED BY <3>1, <3>2, <3>3 DEF Retenido
  <2>2. \A q \in Pids \ {p} : Retenido(q) => Retenido(q)'
    BY <1>1 DEF Movido, EstadoProceso, Retenido
  <2>3. \A q \in Pids : dump'[q].pc # "no" => dump'[q].pc = dump[q].pc
    BY DEF DumpQuieto
  <2> QED BY <2>0, <2>1, <2>2, <2>3 DEF DumpBloquea
<1> QED BY <1>1, <1>2, <1>5, <1>6, <1>7 DEF Duenios

(* A step that moves nobody.                                               *)
LEMMA MoverNadie ==
  ASSUME Inv2, CortoQuieto, LanzaQuieto, DumpQuieto, CortaQuieta, SinProceso',
         UNCHANGED <<lista, pcb, id_pcb_generador, finalizados, enviados, syscall>>
  PROVE  Duenios'
BY DueniosIguales DEF Duenios

(* The initial state: process 0 in NEW, in nobody's hands.                 *)
LEMMA DueniosInit == Init => Duenios
<1> SUFFICES ASSUME Init PROVE Duenios
  OBVIOUS
<1>1. \A p \in Pids : \A e \in EstadoProceso : En(p, e) <=> p = 0 /\ e = "NEW"
  <2>1. \A p : Contains(<<0>>, p) <=> p = 0
    BY DEF Contains
  <2>2. \A p : ~Contains(<<>>, p)
    BY DEF Contains
  <2>3. \A e \in EstadoProceso : lista[e] = IF e = "NEW" THEN <<0>> ELSE <<>>
    BY DEF Init
  <2> QED BY <2>1, <2>2, <2>3 DEF En
<1>2. UnaLista
  <2>1. \A e \in EstadoProceso : Len(lista[e]) = IF e = "NEW" THEN 1 ELSE 0
    BY DEF Init
  <2>2. \A e \in EstadoProceso : SinRepetidos(lista[e])
    BY <2>1 DEF SinRepetidos
  <2> QED BY <1>1, <2>2 DEF UnaLista
<1>3. Listados /\ LiberadosCreados
  <2>1. id_pcb_generador = 1 /\ finalizados = {}
    BY DEF Init
  <2>2. "NEW" \in EstadoProceso /\ \A p \in Pids : p < 1 <=> p = 0
    BY ConstantesOk DEF EstadoProceso, Pids, ConstantesOk
  <2> QED BY <1>1, <2>1, <2>2 DEF Listados, LiberadosCreados, Creado
<1>4. \A p \in Pids : \A t \in Manos : \A c \in Lugares : ~Tiene(t, c, p)
  BY DEF Init, Tiene, Cede
<1>5. UnaMano /\ EnManosEnExec
  BY <1>4 DEF UnaMano, EnManosEnExec
<1>6. InitDelTurno /\ DumpBloquea
  BY DEF Init, InitDelTurno, DumpBloquea
<1>7. SinProceso
  BY DEF Init, SinProceso, NarConProceso
<1> QED BY <1>2, <1>3, <1>5, <1>6, <1>7 DEF Duenios

------------------------------------------------------------------------------
(* new_a_ready moves the process it holds, which is in NEW or SUSP_READY.  *)
LEMMA DueniosNar == Inv2 /\ NewAReady => Duenios'
<1> SUFFICES ASSUME Inv2, NewAReady PROVE Duenios'
  OBVIOUS
<1>0. TypeOK /\ TomaNar /\ SinProceso
  BY DEF Inv2, Inv1, Duenios
<1>a. nar \in TipoNar /\ dump \in TipoDump
  BY <1>0 DEF TypeOK
<1>1. CASE NarPasa
  <2>1. /\ nar.p \in Pids /\ En(nar.p, OrigenNar) /\ Pasar(nar.p, OrigenNar, "READY")
        /\ OrigenNar \in {"NEW", "SUSP_READY"}
    BY <1>0, <1>1 DEF NarPasa, TomaNar, OrigenNar, NarConProceso
  <2>2. SinProceso'
    BY <1>0, <1>1 DEF NarPasa, SinProceso
  <2>3. DumpQuieto
    BY <1>1 DEF NarPasa, DumpQuieto
  <2>4. io' = io
    BY <1>1 DEF NarPasa
  <2> QED BY <1>1, <2>1, <2>2, <2>3, <2>4, MoverFuera DEF NarPasa, EstadoProceso
<1>2. CASE NarRecierra
  <2>1. nar.pc = "recierra" /\ nar'.pc = "pasa" /\ nar'.p = nar.p
    BY <1>a, <1>2 DEF NarRecierra, TipoNar
  <2>2. eaf'.pc = eaf.pc /\ eaf'.p = eaf.p
    BY <1>0, <1>2 DEF NarRecierra, TypeOK, TipoEaf
  <2>3. SinProceso'
    BY <1>0, <1>2, <2>1, <2>2 DEF NarRecierra, SinProceso, NarConProceso
  <2>4. DumpQuieto
    BY <1>a, <1>2 DEF NarRecierra, DumpQuieto, TipoDump
  <2> QED BY <1>2, <2>3, <2>4, MoverNadie DEF NarRecierra, CortoQuieto, LanzaQuieto, CortaQuieta
<1>3. ASSUME UNCHANGED <<lista, pcb, id_pcb_generador, finalizados, eaf, corto, hiloCpu,
                         dump, cpu, enviados, syscall, io>>,
             nar'.p # Nadie => nar'.pc \in NarConProceso
      PROVE  Duenios'
  <2>1. SinProceso'
    BY <1>0, <1>3 DEF SinProceso
  <2> QED BY <1>3, <2>1, MoverNadie DEF CortoQuieto, LanzaQuieto, DumpQuieto, CortaQuieta
<1>4. CASE NarToma
  BY <1>0, <1>a, <1>3, <1>4 DEF NarToma, SinProceso, NarConProceso, TipoNar
<1>5. CASE NarElige
  <2>1. nar'.p # Nadie => nar'.pc \in NarConProceso
    BY <1>0, <1>a, <1>5 DEF NarElige, SinProceso, NarConProceso, TipoNar
  <2> QED BY <1>3, <1>5, <2>1 DEF NarElige
<1>6. CASE NarHayEspacio
  BY <1>0, <1>a, <1>3, <1>6 DEF NarHayEspacio, SinProceso, NarConProceso, TipoNar
<1>7. CASE NarSinEspacio
  BY <1>0, <1>a, <1>3, <1>7 DEF NarSinEspacio, SinProceso, NarConProceso, TipoNar
<1>8. CASE NarDespierta
  BY <1>0, <1>a, <1>3, <1>8 DEF NarDespierta, SinProceso, NarConProceso, TipoNar
<1>9. CASE NarCrea
  BY <1>0, <1>a, <1>3, <1>9 DEF NarCrea, SinProceso, NarConProceso, TipoNar
<1>10. CASE NarDesuspende
  BY <1>0, <1>a, <1>3, <1>10 DEF NarDesuspende, SinProceso, NarConProceso, TipoNar
<1>11. CASE MemoriaCalla
  BY <1>0, <1>a, <1>3, <1>11 DEF MemoriaCalla, SinProceso, NarConProceso, TipoNar
<1> QED BY <1>1, <1>2, <1>4, <1>5, <1>6, <1>7, <1>8, <1>9, <1>10, <1>11 DEF NewAReady

(* exit_a_fin takes the process it holds out of EXIT and frees it: the     *)
(* only step after which a process is in no list.                          *)
LEMMA DueniosEaf == Inv2 /\ Inv1' /\ ExitAFin => Duenios'
<1> SUFFICES ASSUME Inv2, Inv1', ExitAFin PROVE Duenios'
  OBVIOUS
<1>0. TypeOK /\ TomaEaf /\ Duenios
  BY DEF Inv2, Inv1
<1>a. nar \in TipoNar /\ eaf \in TipoEaf /\ lista \in [EstadoProceso -> Seq(Pids)]
  BY <1>0 DEF TypeOK, TipoLista
<1>1. CASE EafFinaliza
  <2> DEFINE p == eaf.p
  <2>1. /\ p \in Pids /\ En(p, "EXIT")
        /\ lista' = [lista EXCEPT !["EXIT"] = RemoveFirst(@, p)]
    BY <1>0, <1>1 DEF EafFinaliza, TomaEaf
  <2>2. "EXIT" \in EstadoProceso
    BY DEF EstadoProceso
  <2>3. UnaLista' /\ Sacado(p)
    BY <2>1, SacarListas
  <2>5. \A q \in Pids : \A e \in EstadoProceso : En(q, e)' <=> En(q, e) /\ q # p
    BY <2>3 DEF Sacado
  <2>6. finalizados' = finalizados \cup {p} /\ id_pcb_generador' = id_pcb_generador
    BY <1>1 DEF EafFinaliza
  <2> HIDE DEF p
  <2>8. Listados' /\ LiberadosCreados'
    <3>1. \A q \in Pids : Creado(q)' <=> Creado(q) /\ q # p
      BY <2>6 DEF Creado
    <3>2. Listados'
      BY <1>0, <2>5, <3>1 DEF Duenios, Listados
    <3>3. Creado(p)
      BY <1>0, <2>1, <2>2 DEF Duenios, Listados
    <3>4. LiberadosCreados'
      BY <1>0, <2>6, <3>3 DEF Duenios, LiberadosCreados, Creado
    <3> QED BY <3>2, <3>4
  <2>9. \A t \in Manos : \A c \in Lugares : ~Tiene(t, c, p)
    BY <1>0, <2>1, <2>2 DEF Duenios, EnManosEnExec, UnaLista, EstadoProceso
  <2>10. UnaMano' /\ EnManosEnExec'
    <3>1. \A q \in Pids : \A t \in Manos : \A c \in Lugares : Tiene(t, c, q)' <=> Tiene(t, c, q)
      BY <1>1, ManosQuietas DEF EafFinaliza, CortoQuieto, LanzaQuieto, DumpQuieto
    <3>2. "EXEC" \in EstadoProceso
      BY DEF EstadoProceso
    <3> QED BY <1>0, <2>5, <2>9, <3>1, <3>2 DEF Duenios, UnaMano, EnManosEnExec
  <2>11. InitDelTurno'
    BY <1>1, DueniosIguales DEF EafFinaliza
  <2>12. DumpBloquea'
    <3>1. dump' = dump /\ pcb' = pcb /\ hiloCpu' = hiloCpu /\ io' = io
      BY <1>1 DEF EafFinaliza
    <3>2. dump[p].pc \notin {"espera", "perdido"} /\ io[p].corta = "no"
      <4>1. ~Retenido(p)
        BY <1>0, <2>1 DEF Duenios, UnaLista, EstadoProceso, Retenido
      <4> QED BY <1>0, <2>1, <4>1 DEF Duenios, DumpBloquea
    <3>3. \A q \in Pids \ {p} : Retenido(q) => Retenido(q)'
      BY <2>5 DEF EstadoProceso, Retenido
    <3> QED BY <1>0, <2>1, <3>1, <3>2, <3>3 DEF Duenios, DumpBloquea
  <2>13. SinProceso'
    BY <1>0, <1>1 DEF EafFinaliza, Duenios, SinProceso
  <2> QED BY <2>3, <2>8, <2>10, <2>11, <2>12, <2>13 DEF Duenios
<1>2. ASSUME UNCHANGED <<lista, pcb, id_pcb_generador, finalizados, corto, hiloCpu,
                         dump, cpu, enviados, syscall, io>>,
             nar'.p = nar.p, nar'.pc = nar.pc,
             eaf'.p # Nadie => eaf'.pc \in {"conecta", "responde", "finaliza"}
      PROVE  Duenios'
  <2>1. SinProceso'
    BY <1>0, <1>2 DEF Duenios, SinProceso
  <2> QED BY <1>2, <2>1, MoverNadie DEF CortoQuieto, LanzaQuieto, DumpQuieto, CortaQuieta
<1>b. eaf.p # Nadie => eaf.pc \in {"conecta", "responde", "finaliza"}
  BY <1>0 DEF Duenios, SinProceso
<1>3. CASE EafToma
  BY <1>a, <1>b, <1>2, <1>3 DEF EafToma, TipoEaf
<1>4. CASE EafElige
  BY <1>a, <1>b, <1>2, <1>4 DEF EafElige, TipoEaf
<1>5. CASE EafConecta
  <2>1. /\ nar'.p = nar.p /\ nar'.pc = nar.pc
        /\ eaf'.p = eaf.p /\ eaf'.pc = "responde"
    BY <1>a, <1>5 DEF EafConecta, TipoNar, TipoEaf
  <2> QED BY <1>2, <1>5, <2>1 DEF EafConecta
<1>6. CASE EafResponde
  BY <1>a, <1>b, <1>2, <1>6 DEF EafResponde, TipoEaf
<1> QED BY <1>1, <1>3, <1>4, <1>5, <1>6 DEF ExitAFin

(* planificacion_corto takes the process it chose into its own hands and   *)
(* then puts it in those of a CPU.                                         *)
LEMMA DueniosCorto == Inv2 /\ PlanificacionCorto => Duenios'
<1> SUFFICES ASSUME Inv2, PlanificacionCorto PROVE Duenios'
  OBVIOUS
<1>0. TypeOK /\ TomaCorto /\ Duenios
  BY DEF Inv2, Inv1
<1>a. corto \in TipoCorto /\ enviados \in [Cpus -> SUBSET Pids] /\ Nadie \notin Cpus
  BY <1>0, ConstantesOk DEF TypeOK, ConstantesOk
<1>b. "READY" \in EstadoProceso /\ "EXEC" \in EstadoProceso
  BY DEF EstadoProceso
<1>1. CASE CortoSaca
  <2>0. PICK p \in Pids : p = corto.p
    BY <1>0, <1>1 DEF CortoSaca, TomaCorto
  <2>1. /\ p \in Pids /\ En(p, "READY") /\ Pasar(p, "READY", "EXEC") /\ corto.pc = "saca"
        /\ corto' = [corto EXCEPT !.pc = "asigna"]
        /\ UNCHANGED <<pcb, id_pcb_generador, finalizados, nar, eaf, hiloCpu, dump, enviados,
                       syscall, io>>
    BY <1>0, <1>1, <2>0 DEF CortoSaca, TomaCorto
  <2>2. corto'.pc = "asigna" /\ corto'.p = p
    BY <1>a, <2>0, <2>1 DEF TipoCorto
  <2>3. UnaLista' /\ Movido(p, "EXEC")
    BY <1>b, <2>1, MoverListas
  <2>4. Listados' /\ LiberadosCreados'
    BY <1>b, <2>1, <2>3, MoverListados
  <2>5. \A t \in Manos : \A c \in Lugares : ~Tiene(t, c, p)
    BY <1>0, <1>b, <2>1 DEF Duenios, EnManosEnExec, UnaLista
  <2>6. \A c \in Cpus : \A q \in Pids : Cede(c, q)' <=> Cede(c, q)
    BY <2>1 DEF Cede
  <2>7. \A q \in Pids : \A u \in Manos : \A d \in Lugares :
          Tiene(u, d, q)' => \/ q # p /\ Tiene(u, d, q)
                             \/ q = p /\ u = "corto" /\ d = Nadie
    BY <2>1, <2>2, <2>5, <2>6 DEF Tiene
  <2>8. En(p, "EXEC")' /\ \A q \in Pids \ {p} : En(q, "EXEC") => En(q, "EXEC")'
    BY <1>b, <2>1, <2>3 DEF Movido
  <2>9. UnaMano' /\ EnManosEnExec'
    BY <2>1, <2>7, <2>8, PasaDeMano
  <2>10. InitDelTurno'
    BY <2>1, DueniosIguales
  <2>11. DumpBloquea'
    <3>1. ~En(p, "BLOCKED") /\ ~En(p, "SUSP_BLOCKED")
      BY <1>0, <2>1 DEF EstadoProceso, Duenios, UnaLista
    <3>2. \A q \in Pids : Retenido(q) => Retenido(q)'
      BY <2>3, <3>1 DEF Movido, Retenido, EstadoProceso
    <3> QED BY <1>0, <2>1, <3>2 DEF Duenios, DumpBloquea
  <2>12. SinProceso'
    BY <1>0, <2>1, <2>2 DEF Duenios, SinProceso
  <2> QED BY <2>3, <2>4, <2>9, <2>10, <2>11, <2>12 DEF Duenios
<1>2. CASE CortoAsigna
  <2>0. PICK p \in Pids, k \in Cpus : p = corto.p /\ k = corto.c
    BY <1>0, <1>2 DEF CortoAsigna, TomaCorto
  <2>1. /\ p \in Pids /\ k \in Cpus /\ Tiene("corto", Nadie, p)
        /\ enviados' = [enviados EXCEPT ![k] = @ \cup {p}]
        /\ corto' = [pc |-> "cpu", p |-> Nadie, c |-> Nadie]
        /\ UNCHANGED <<lista, pcb, id_pcb_generador, finalizados, nar, eaf, hiloCpu, dump,
                       syscall, io>>
    BY <1>0, <1>2, <2>0 DEF CortoAsigna, TomaCorto, Tiene
  <2>2. \A d \in Cpus : enviados'[d] = IF d = k THEN enviados[d] \cup {p} ELSE enviados[d]
    BY <1>a, <2>1
  <2>3. \A c \in Cpus : \A q \in Pids : Cede(c, q)' <=> Cede(c, q)
    BY <2>1 DEF Cede
  <2>4. "corto" \in Manos /\ Nadie \in Lugares /\ corto'.pc = "cpu"
    BY <2>1 DEF Manos, Lugares
  <2>5. \A u \in Manos : \A d \in Lugares : Tiene(u, d, p) => u = "corto" /\ d = Nadie
    BY <1>0, <2>1, <2>4 DEF Duenios, UnaMano
  <2>6. En(p, "EXEC")
    BY <1>0, <2>1, <2>4 DEF Duenios, EnManosEnExec
  <2>7. \A q \in Pids : \A u \in Manos : \A d \in Lugares :
          Tiene(u, d, q)' => \/ u # "corto" /\ Tiene(u, d, q)
                             \/ q = p /\ u = "cpu" /\ d = k
    BY <2>1, <2>2, <2>3, <2>4 DEF Tiene
  <2>8. \A q \in Pids : En(q, "EXEC")' <=> En(q, "EXEC")
    BY <2>1 DEF En
  <2>9. UnaMano' /\ EnManosEnExec'
    <3>1. \A q \in Pids : \A u \in Manos : \A d \in Lugares :
            Tiene(u, d, q)' => \/ q # p /\ Tiene(u, d, q)
                               \/ q = p /\ u = "cpu" /\ d = k /\ En(p, "EXEC")'
      BY <2>1, <2>5, <2>6, <2>7, <2>8
    <3> QED BY <2>1, <2>8, <3>1, PasaDeMano
  <2>10. InitDelTurno'
    BY <1>0, <2>1, <2>2, <2>3 DEF Duenios, InitDelTurno, Cede
  <2>11. SinProceso'
    BY <1>0, <2>1 DEF Duenios, SinProceso
  <2> QED BY <2>1, <2>9, <2>10, <2>11, DueniosIguales
          DEF Duenios, LanzaQuieto, DumpQuieto, CortaQuieta
<1>3. ASSUME UNCHANGED <<lista, pcb, id_pcb_generador, finalizados, nar, eaf, hiloCpu,
                         dump, cpu, enviados, syscall, io>>,
             corto'.p # Nadie => corto'.pc = "saca",
             CortoQuieto
      PROVE  Duenios'
  <2>1. SinProceso'
    BY <1>0, <1>3 DEF Duenios, SinProceso
  <2> QED BY <1>3, <2>1, MoverNadie DEF LanzaQuieto, DumpQuieto, CortaQuieta
<1>c. corto.p # Nadie => corto.pc \in {"saca", "asigna"}
  BY <1>0 DEF Duenios, SinProceso
<1>4. CASE CortoEsperaCpu
  BY <1>a, <1>c, <1>3, <1>4 DEF CortoEsperaCpu, TipoCorto, CortoQuieto
<1>5. CASE CortoEsperaReady
  BY <1>a, <1>c, <1>3, <1>5 DEF CortoEsperaReady, TipoCorto, CortoQuieto
<1>6. CASE CortoElige
  <2>1. corto'.p # Nadie => corto'.pc = "saca"
    BY <1>a, <1>c, <1>6 DEF CortoElige, TipoCorto
  <2>2. corto.pc # "asigna" /\ corto'.pc # "asigna"
    BY <1>a, <1>6 DEF CortoElige, TipoCorto
  <2> QED BY <1>3, <1>6, <2>1, <2>2 DEF CortoElige, CortoQuieto
<1> QED BY <1>1, <1>2, <1>4, <1>5, <1>6 DEF PlanificacionCorto

------------------------------------------------------------------------------
(* What sending one message leaves in the sockets.                         *)
LEMMA EnviaProps ==
  ASSUME TypeOK, NEW c \in Cpus, NEW m \in Mensaje, Envia(c, m)
  PROVE  /\ \A d \in Cpus \ {c} : syscall'[d] = syscall[d]
         /\ Len(syscall[c]) \in Nat /\ Len(syscall'[c]) = Len(syscall[c]) + 1
         /\ \A i \in 1 .. Len(syscall[c]) : syscall'[c][i] = syscall[c][i]
         /\ syscall'[c][Len(syscall[c]) + 1] = m
         /\ m.tipo = "INIT" => \A d \in Cpus : \A q \in Pids : Cede(d, q)' <=> Cede(d, q)
         /\ m.tipo # "INIT" => \A d \in Cpus : \A q \in Pids :
              Cede(d, q)' <=> Cede(d, q) \/ (d = c /\ q = m.p)
<1>1. syscall[c] \in Seq(Mensaje) /\ syscall' = [syscall EXCEPT ![c] = Append(@, m)]
  BY DEF TypeOK, Envia
<1>2. syscall'[c] = Append(syscall[c], m) /\ \A d \in Cpus \ {c} : syscall'[d] = syscall[d]
  BY <1>1 DEF TypeOK
<1>3. /\ Len(syscall[c]) \in Nat /\ Len(syscall'[c]) = Len(syscall[c]) + 1
      /\ \A i \in 1 .. Len(syscall[c]) : syscall'[c][i] = syscall[c][i]
      /\ syscall'[c][Len(syscall[c]) + 1] = m
  BY <1>1, <1>2, AppendProperties, LenProperties
<1> DEFINE n == Len(syscall[c])
<1>4. \A i \in 1 .. n + 1 : i \in 1 .. n \/ i = n + 1
  BY <1>3
<1>5. \A d \in Cpus \ {c} : \A q \in Pids : Cede(d, q)' <=> Cede(d, q)
  BY <1>2 DEF Cede
<1>6. \A q \in Pids : Cede(c, q)' <=> Cede(c, q) \/ (m.tipo # "INIT" /\ q = m.p)
  <2> SUFFICES ASSUME NEW q \in Pids
               PROVE  (\E i \in 1 .. n + 1 : syscall'[c][i].p = q /\ syscall'[c][i].tipo # "INIT")
                      <=> \/ \E i \in 1 .. n : syscall[c][i].p = q /\ syscall[c][i].tipo # "INIT"
                          \/ m.tipo # "INIT" /\ q = m.p
    BY <1>3 DEF Cede
  <2>1. n \in Nat /\ n + 1 \in 1 .. n + 1 /\ 1 .. n \subseteq 1 .. n + 1
    BY <1>3
  <2> QED BY <1>3, <1>4, <2>1
<1> QED BY <1>2, <1>3, <1>5, <1>6

(* A CPU gives its process up in the message that ends its turn.           *)
LEMMA DueniosCpu == ASSUME NEW c \in Cpus PROVE Inv2 /\ Cpu(c) => Duenios'
<1> SUFFICES ASSUME Inv2, Cpu(c) PROVE Duenios'
  OBVIOUS
<1>0. TypeOK /\ Duenios
  BY DEF Inv2, Inv1
<1>a. enviados \in [Cpus -> SUBSET Pids] /\ c \in Lugares /\ "cpu" \in Manos
  BY <1>0 DEF TypeOK, Lugares, Manos
<1>1. ASSUME NEW tipo \in {"EXIT", "IO", "DUMP"}, NEW p \in enviados[c],
             Envia(c, [tipo |-> tipo, p |-> p]),
             enviados' = [enviados EXCEPT ![c] = @ \ {p}],
             UNCHANGED <<lista, pcb, id_pcb_generador, finalizados, nar, eaf, corto, hiloCpu,
                         dump, io>>
      PROVE  Duenios'
  <2> DEFINE m == [tipo |-> tipo, p |-> p]
  <2>1. p \in Pids /\ m \in Mensaje /\ m.tipo # "INIT" /\ m.tipo = tipo /\ m.p = p
    BY <1>a DEF Mensaje
  <2> HIDE DEF m
  <2>2. Envia(c, m)
    BY <1>1 DEF m
  <2>3. /\ \A d \in Cpus : \A q \in Pids : Cede(d, q)' <=> Cede(d, q) \/ (d = c /\ q = p)
        /\ \A d \in Cpus \ {c} : syscall'[d] = syscall[d]
        /\ Len(syscall[c]) \in Nat /\ Len(syscall'[c]) = Len(syscall[c]) + 1
        /\ \A i \in 1 .. Len(syscall[c]) : syscall'[c][i] = syscall[c][i]
        /\ syscall'[c][Len(syscall[c]) + 1] = m
    BY <1>0, <2>1, <2>2, EnviaProps
  <2>4. \A d \in Cpus : enviados'[d] = IF d = c THEN enviados[d] \ {p} ELSE enviados[d]
    BY <1>a, <1>1
  <2>5. Tiene("cpu", c, p)
    BY <1>1 DEF Tiene
  <2>6. /\ \A u \in Manos : \A d \in Lugares : Tiene(u, d, p) => u = "cpu" /\ d = c
        /\ En(p, "EXEC")
    BY <1>0, <1>a, <2>1, <2>5 DEF Duenios, UnaMano, EnManosEnExec
  <2>7. \A q \in Pids : \A u \in Manos : \A d \in Lugares :
          Tiene(u, d, q)' => \/ Tiene(u, d, q) /\ ~(q = p /\ u = "cpu" /\ d = c)
                             \/ q = p /\ u = "msg" /\ d = c
    <3>1. UNCHANGED <<corto, hiloCpu, dump>> /\ p \notin enviados'[c]
      BY <1>1, <1>a, <2>4
    <3>2. \A d \in Cpus : \A q \in Pids : q \in enviados'[d] => q \in enviados[d]
      BY <2>4
    <3> QED BY <2>1, <2>3, <3>1, <3>2 DEF Tiene
  <2>8. \A q \in Pids : En(q, "EXEC")' <=> En(q, "EXEC")
    BY <1>1 DEF En
  <2>9. UnaMano' /\ EnManosEnExec'
    <3>1. \A q \in Pids : \A u \in Manos : \A d \in Lugares :
            Tiene(u, d, q)' => \/ q # p /\ Tiene(u, d, q)
                               \/ q = p /\ u = "msg" /\ d = c /\ En(p, "EXEC")'
      BY <2>1, <2>6, <2>7, <2>8
    <3> QED BY <2>1, <2>8, <3>1, PasaDeMano
  <2>10. InitDelTurno'
    <3> SUFFICES ASSUME NEW d \in Cpus, NEW q \in Pids, NEW i \in 1 .. Len(syscall'[d]),
                        syscall'[d][i].tipo = "INIT", syscall'[d][i].p = q
                 PROVE  q \in enviados'[d] \/ Cede(d, q)'
      BY DEF InitDelTurno
    <3>1. i \in 1 .. Len(syscall[d]) /\ syscall'[d][i] = syscall[d][i]
      BY <2>1, <2>3
    <3>2. q \in enviados[d] \/ Cede(d, q)
      BY <1>0, <3>1 DEF Duenios, InitDelTurno
    <3> QED BY <2>3, <2>4, <3>2
  <2>11. SinProceso'
    BY <1>1, DueniosIguales
  <2> QED BY <1>1, <2>9, <2>10, <2>11, DueniosIguales
          DEF Duenios, LanzaQuieto, DumpQuieto, CortaQuieta
<1>2. CASE CpuPideExit(c)
  BY <1>1, <1>2 DEF CpuPideExit
<1>3. ASSUME NEW tipo \in {"IO", "DUMP"}, CpuPideBloqueo(c, tipo) PROVE Duenios'
  BY <1>1, <1>3 DEF CpuPideBloqueo
<1>4. CASE CpuPideInit(c)
  <2>1. PICK p \in enviados[c], w \in Pesos : Envia(c, [tipo |-> "INIT", p |-> p, peso |-> w])
    BY <1>4 DEF CpuPideInit
  <2> DEFINE m == [tipo |-> "INIT", p |-> p, peso |-> w]
  <2>2. m \in Mensaje /\ m.tipo = "INIT" /\ m.p = p
    BY <1>a DEF Mensaje
  <2> HIDE DEF m
  <2>3. Envia(c, m)
    BY <2>1 DEF m
  <2>4. /\ \A d \in Cpus : \A q \in Pids : Cede(d, q)' <=> Cede(d, q)
        /\ \A d \in Cpus \ {c} : syscall'[d] = syscall[d]
        /\ Len(syscall[c]) \in Nat /\ Len(syscall'[c]) = Len(syscall[c]) + 1
        /\ \A i \in 1 .. Len(syscall[c]) : syscall'[c][i] = syscall[c][i]
        /\ syscall'[c][Len(syscall[c]) + 1] = m
    BY <1>0, <2>2, <2>3, EnviaProps
  <2>5. UNCHANGED <<lista, pcb, id_pcb_generador, finalizados, nar, eaf, corto, hiloCpu, dump,
                    enviados, io>>
    BY <1>4 DEF CpuPideInit
  <2>6. UnaMano' /\ EnManosEnExec'
    <3>1. \A q \in Pids : \A u \in Manos : \A d \in Lugares : Tiene(u, d, q)' <=> Tiene(u, d, q)
      BY <2>4, <2>5 DEF Tiene
    <3>2. \A q \in Pids : En(q, "EXEC")' <=> En(q, "EXEC")
      BY <2>5 DEF En
    <3> QED BY <1>0, <3>1, <3>2 DEF Duenios, UnaMano, EnManosEnExec
  <2>7. InitDelTurno'
    <3> SUFFICES ASSUME NEW d \in Cpus, NEW q \in Pids, NEW i \in 1 .. Len(syscall'[d]),
                        syscall'[d][i].tipo = "INIT", syscall'[d][i].p = q
                 PROVE  q \in enviados'[d] \/ Cede(d, q)'
      BY DEF InitDelTurno
    <3>1. CASE d = c /\ i = Len(syscall[c]) + 1
      BY <2>2, <2>4, <2>5, <3>1
    <3>2. CASE ~(d = c /\ i = Len(syscall[c]) + 1)
      <4>1. i \in 1 .. Len(syscall[d]) /\ syscall'[d][i] = syscall[d][i]
        BY <2>4, <3>2
      <4>2. q \in enviados[d] \/ Cede(d, q)
        BY <1>0, <4>1 DEF Duenios, InitDelTurno
      <4> QED BY <2>4, <2>5, <4>2
    <3> QED BY <3>1, <3>2
  <2> QED BY <2>5, <2>6, <2>7, DueniosIguales DEF Duenios, LanzaQuieto, DumpQuieto, CortaQuieta
<1> QED BY <1>2, <1>3, <1>4 DEF Cpu

------------------------------------------------------------------------------
(* Reading the message that ends a turn: its process is in EXEC, in nobody *)
(* else's hands and in no dump.                                            *)
LEMMA CedeTurno ==
  ASSUME Inv2, NEW c \in Cpus, NEW tipo, tipo # "INIT", Recibe(c, tipo),
         NEW p \in Pids, p = Head(syscall[c]).p, UNCHANGED <<enviados, corto, dump>>
  PROVE  /\ En(p, "EXEC") /\ dump[p].pc = "no" /\ io[p].corta = "no"
         /\ \A d \in Cpus : ~(hiloCpu[d].pc = "lanza" /\ hiloCpu[d].p = p)
         /\ \A q \in Pids : \A u \in Manos \ {"lanza"} : \A d \in Lugares :
              Tiene(u, d, q)' => q # p /\ Tiene(u, d, q)
         /\ InitDelTurno'
<1>0. TypeOK /\ Duenios
  BY DEF Inv2, Inv1
<1>1. /\ \A d \in Cpus \ {c} : syscall'[d] = syscall[d]
      /\ syscall[c][1].tipo = tipo /\ 1 \in 1 .. Len(syscall[c])
      /\ enviados[c] = {} /\ syscall'[c] = <<>>
  BY RecibeProps DEF Inv2
<1>2. syscall[c][1].p = p
  <2>1. syscall[c] \in Seq(Mensaje) /\ syscall[c] # <<>>
    BY <1>0 DEF TypeOK, Recibe
  <2>2. Head(syscall[c]) = syscall[c][1]
    BY <2>1, HeadTailProperties
  <2> QED BY <2>2
<1>3. Cede(c, p) /\ Tiene("msg", c, p) /\ c \in Lugares /\ "msg" \in Manos
  BY <1>1, <1>2 DEF Cede, Tiene, Lugares, Manos
<1>4. /\ \A u \in Manos : \A d \in Lugares : Tiene(u, d, p) => u = "msg" /\ d = c
      /\ En(p, "EXEC")
  BY <1>0, <1>3 DEF Duenios, UnaMano, EnManosEnExec
<1>a. ~Retenido(p)
  BY <1>0, <1>4 DEF Duenios, UnaLista, EstadoProceso, Retenido
<1>b. io[p].corta = "no"
  BY <1>0, <1>a DEF Duenios, DumpBloquea
<1>5. dump[p].pc = "no"
  <2>1. dump[p].pc # "pide"
    <3>1. dump[p].pc = "pide" => Tiene("dump", Nadie, p)
      BY DEF Tiene
    <3> QED BY <1>4, <3>1 DEF Lugares, Manos
  <2>2. dump[p].pc \notin {"espera", "perdido"}
    BY <1>0, <1>a DEF Duenios, DumpBloquea
  <2> QED BY <1>0, <2>1, <2>2 DEF TypeOK, TipoDump
<1>6. \A d \in Cpus : ~(hiloCpu[d].pc = "lanza" /\ hiloCpu[d].p = p)
  <2>1. \A d \in Cpus : hiloCpu[d].pc = "lanza" /\ hiloCpu[d].p = p => Tiene("lanza", d, p)
    BY DEF Tiene
  <2> QED BY <1>4, <2>1 DEF Lugares, Manos
<1>7. \A d \in Cpus : \A q \in Pids : Cede(d, q)' => d # c /\ Cede(d, q)
  <2>1. Len(<<>>) = 0
    OBVIOUS
  <2> QED BY <1>1, <2>1 DEF Cede
<1>8. \A q \in Pids : \A u \in Manos \ {"lanza"} : \A d \in Lugares :
        Tiene(u, d, q)' => Tiene(u, d, q) /\ ~(u = "msg" /\ d = c)
  BY <1>7 DEF Tiene, Manos
<1>9. InitDelTurno'
  <2>1. Len(<<>>) = 0
    OBVIOUS
  <2>2. \A d \in Cpus \ {c} : \A q \in Pids : Cede(d, q)' <=> Cede(d, q)
    BY <1>1 DEF Cede
  <2> QED BY <1>0, <1>1, <2>1, <2>2 DEF Duenios, InitDelTurno
<1> QED BY <1>b, <1>4, <1>5, <1>6, <1>8, <1>9

(* The threads that serve the CPUs.                                        *)
LEMMA DueniosHiloCpu == ASSUME NEW c \in Cpus PROVE Inv2 /\ EsperaRtaCpu(c) => Duenios'
<1> SUFFICES ASSUME Inv2, EsperaRtaCpu(c) PROVE Duenios'
  OBVIOUS
<1>0. TypeOK /\ Duenios /\ Inv1
  BY DEF Inv2, Inv1
<1>a. /\ hiloCpu \in TipoHiloCpu /\ pcb \in TipoPcb /\ dump \in TipoDump
      /\ Nadie \notin Pids /\ c \in Lugares
  BY <1>0, ConstantesOk DEF TypeOK, ConstantesOk, Lugares
<1>b. \A q \in Pids : \A d \in Cpus :
        Tiene("lanza", d, q) <=> hiloCpu[d].pc = "lanza" /\ hiloCpu[d].p = q
  BY DEF Tiene
<1>1. ASSUME NEW tipo \in {"EXIT", "IO"}, NEW a \in {"EXIT", "BLOCKED"},
             Recibe(c, tipo), Pasar(Head(syscall[c]).p, "EXEC", a), Luego(c, "libera"),
             \A q \in Pids : q # Head(syscall[c]).p => pcb'[q].motivo = pcb[q].motivo,
             CortaQuieta,
             UNCHANGED <<id_pcb_generador, finalizados, nar, eaf, corto, dump, enviados>>
      PROVE  Duenios'
  <2>0. PICK p \in Pids : p = Head(syscall[c]).p
    BY <1>0, <1>1, RecibeProps
  <2>1. /\ En(p, "EXEC") /\ dump[p].pc = "no" /\ io[p].corta = "no"
        /\ \A d \in Cpus : ~(hiloCpu[d].pc = "lanza" /\ hiloCpu[d].p = p)
        /\ \A q \in Pids : \A u \in Manos \ {"lanza"} : \A d \in Lugares :
             Tiene(u, d, q)' => q # p /\ Tiene(u, d, q)
        /\ InitDelTurno'
    BY <1>1, <2>0, CedeTurno
  <2>2. /\ "EXEC" \in EstadoProceso /\ a \in EstadoProceso /\ a # "EXEC"
        /\ Pasar(p, "EXEC", a)
    BY <1>1, <2>0 DEF EstadoProceso
  <2>3. UnaLista' /\ Movido(p, a)
    BY <2>1, <2>2, MoverListas
  <2>4. Listados' /\ LiberadosCreados'
    BY <1>1, <2>1, <2>2, <2>3, MoverListados
  <2>5. /\ hiloCpu[c].pc = "recibe"
        /\ hiloCpu'[c].pc = "libera" /\ hiloCpu'[c].p = hiloCpu[c].p
        /\ \A d \in Cpus \ {c} : hiloCpu'[d] = hiloCpu[d]
    BY <1>0, <1>a, <1>1, RecibeProps DEF Luego, TipoHiloCpu
  <2>6. LanzaQuieto
    BY <2>5 DEF LanzaQuieto
  <2>7. \A q \in Pids : \A d \in Lugares :
          Tiene("lanza", d, q)' => q # p /\ Tiene("lanza", d, q)
    BY <2>1, <2>6 DEF Tiene, LanzaQuieto
  <2>8. UnaMano' /\ EnManosEnExec'
    <3>1. \A q \in Pids : \A u \in Manos : \A d \in Lugares :
            Tiene(u, d, q)' => q # p /\ Tiene(u, d, q)
      BY <2>1, <2>7
    <3>2. \A q \in Pids \ {p} : En(q, "EXEC") => En(q, "EXEC")'
      BY <2>2, <2>3 DEF Movido
    <3> QED BY <3>1, <3>2, PasaDeMano
  <2>9. DumpBloquea'
    <3>1. \A q \in Pids \ {p} : Retenido(q) => Retenido(q)'
      BY <2>3 DEF Movido, EstadoProceso, Retenido
    <3>2. \A q \in Pids \ {p} : pcb'[q].motivo = pcb[q].motivo
      BY <1>1, <2>0
    <3>3. io'[p].corta = "no" /\ dump'[p].pc = "no"
      BY <1>1, <2>1 DEF CortaQuieta
    <3>4. \A q \in Pids \ {p} : io'[q].corta = io[q].corta /\ dump'[q].pc = dump[q].pc
      BY <1>1 DEF CortaQuieta
    <3> QED BY <1>0, <2>1, <2>6, <3>1, <3>2, <3>3, <3>4 DEF Duenios, DumpBloquea, LanzaQuieto
  <2>10. SinProceso'
    BY <1>0, <1>1, <2>5 DEF Duenios, SinProceso
  <2> QED BY <2>1, <2>3, <2>4, <2>8, <2>9, <2>10 DEF Duenios
<1>2. CASE AtenderExit(c)
  BY <1>1, <1>2 DEF AtenderExit, CortaQuieta
<1>3. CASE AtenderIOInvalida(c)
  BY <1>1, <1>3 DEF AtenderIOInvalida, CortaQuieta
<1>4. CASE AtenderIO(c) \/ AtenderIOAusente(c)
  <2>1. PICK p \in Pids : p = Head(syscall[c]).p
    BY <1>0, <1>4, RecibeProps DEF AtenderIO, AtenderIOAusente
  <2>2. PICK x \in Estimaciones, b \in BOOLEAN :
          pcb' = [pcb EXCEPT ![p].motivo = "IO", ![p].est = x, ![p].olvidado = b]
    BY <1>4, <2>1 DEF AtenderIO, AtenderIOAusente
  <2>3. \A q \in Pids : q # p => pcb'[q].motivo = pcb[q].motivo
    BY <1>a, <2>2 DEF TipoPcb
  <2>4. /\ Recibe(c, "IO") /\ Pasar(p, "EXEC", "BLOCKED") /\ Luego(c, "libera")
        /\ UNCHANGED <<id_pcb_generador, finalizados, nar, eaf, corto, dump, enviados>>
    BY <1>4, <2>1 DEF AtenderIO, AtenderIOAusente
  <2>5. CortaQuieta
    <3>1. io \in TipoIo
      BY <1>0 DEF TypeOK
    <3>2. PICK n : io' = [io EXCEPT ![p].timers = n]
      BY <1>4, <2>1 DEF AtenderIO, AtenderIOAusente, CreaTimer
    <3> QED BY <3>1, <3>2 DEF CortaQuieta, TipoIo
  <2> QED BY <1>1, <2>1, <2>3, <2>4, <2>5
<1>5. CASE AtenderDump(c)
  <2>0. PICK p \in Pids : p = Head(syscall[c]).p
    BY <1>0, <1>5, RecibeProps DEF AtenderDump
  <2>1. /\ Recibe(c, "DUMP")
        /\ pcb' = [pcb EXCEPT ![p].motivo = "MEMORY_DUMP"]
        /\ hiloCpu' = [hiloCpu EXCEPT ![c] = [pc |-> "lanza", p |-> p]]
        /\ UNCHANGED <<lista, id_pcb_generador, finalizados, nar, eaf, corto, dump, enviados, io>>
    BY <1>5, <2>0 DEF AtenderDump
  <2>2. /\ En(p, "EXEC") /\ dump[p].pc = "no" /\ io[p].corta = "no"
        /\ \A d \in Cpus : ~(hiloCpu[d].pc = "lanza" /\ hiloCpu[d].p = p)
        /\ \A q \in Pids : \A u \in Manos \ {"lanza"} : \A d \in Lugares :
             Tiene(u, d, q)' => q # p /\ Tiene(u, d, q)
        /\ InitDelTurno'
    BY <2>0, <2>1, CedeTurno
  <2>3. /\ hiloCpu'[c].pc = "lanza" /\ hiloCpu'[c].p = p
        /\ \A d \in Cpus \ {c} : hiloCpu'[d] = hiloCpu[d]
    BY <1>a, <2>1 DEF TipoHiloCpu
  <2>4. \A q \in Pids : \A d \in Lugares :
          Tiene("lanza", d, q)' => (q # p /\ Tiene("lanza", d, q)) \/ (q = p /\ d = c)
    BY <2>2, <2>3 DEF Tiene
  <2>5. \A q \in Pids : En(q, "EXEC")' <=> En(q, "EXEC")
    BY <2>1 DEF En
  <2>6. UnaMano' /\ EnManosEnExec'
    <3>1. \A q \in Pids : \A u \in Manos : \A d \in Lugares :
            Tiene(u, d, q)' => \/ q # p /\ Tiene(u, d, q)
                               \/ q = p /\ u = "lanza" /\ d = c /\ En(p, "EXEC")'
      BY <2>2, <2>4, <2>5
    <3> QED BY <2>5, <3>1, PasaDeMano
  <2>7. DumpBloquea'
    <3>1. \A q \in Pids : pcb'[q].motivo = IF q = p THEN "MEMORY_DUMP" ELSE pcb[q].motivo
      BY <1>a, <2>1 DEF TipoPcb
    <3>2. \A q \in Pids : Retenido(q)' <=> Retenido(q)
      BY <2>1 DEF En, Retenido
    <3> QED BY <1>0, <2>1, <2>2, <2>3, <3>1, <3>2 DEF Duenios, DumpBloquea
  <2>8. SinProceso'
    BY <1>0, <1>a, <2>1, <2>3 DEF Duenios, SinProceso
  <2> QED BY <2>1, <2>2, <2>6, <2>7, <2>8, DueniosIguales DEF Duenios
<1>6. CASE LanzarDump(c)
  <2>0. PICK p \in Pids : p = hiloCpu[c].p
    BY <1>0, <1>a, <1>6 DEF LanzarDump, Duenios, SinProceso, TipoHiloCpu
  <2>1. /\ hiloCpu[c].pc = "lanza"
        /\ dump' = [dump EXCEPT ![p] = [pc |-> "pide", conex |-> "cerrada"]]
        /\ hiloCpu' = [hiloCpu EXCEPT ![c] = [pc |-> "recibe", p |-> Nadie]]
        /\ UNCHANGED <<lista, pcb, id_pcb_generador, finalizados, nar, eaf, corto, enviados,
                       syscall, io>>
    BY <1>6, <2>0 DEF LanzarDump
  <2>2. /\ hiloCpu'[c].pc = "recibe" /\ hiloCpu'[c].p = Nadie
        /\ \A d \in Cpus \ {c} : hiloCpu'[d] = hiloCpu[d]
        /\ dump'[p].pc = "pide" /\ \A q \in Pids \ {p} : dump'[q] = dump[q]
    BY <1>a, <2>1 DEF TipoHiloCpu, TipoDump
  <2>3. /\ \A u \in Manos : \A d \in Lugares : Tiene(u, d, p) => u = "lanza" /\ d = c
        /\ En(p, "EXEC")
    <3>1. Tiene("lanza", c, p) /\ "lanza" \in Manos
      BY <1>b, <2>0, <2>1 DEF Manos
    <3> QED BY <1>0, <1>a, <3>1 DEF Duenios, UnaMano, EnManosEnExec
  <2>4. \A d \in Cpus : \A q \in Pids : Cede(d, q)' <=> Cede(d, q)
    BY <2>1 DEF Cede
  <2>5. \A q \in Pids : \A u \in Manos : \A d \in Lugares :
          Tiene(u, d, q)' => \/ Tiene(u, d, q) /\ ~(u = "lanza" /\ d = c)
                             \/ q = p /\ u = "dump" /\ d = Nadie
    BY <2>1, <2>2, <2>4 DEF Tiene
  <2>6. \A q \in Pids : En(q, "EXEC")' <=> En(q, "EXEC")
    BY <2>1 DEF En
  <2>7. UnaMano' /\ EnManosEnExec'
    <3>1. \A q \in Pids : \A u \in Manos : \A d \in Lugares :
            Tiene(u, d, q)' => \/ q # p /\ Tiene(u, d, q)
                               \/ q = p /\ u = "dump" /\ d = Nadie /\ En(p, "EXEC")'
      BY <2>3, <2>5, <2>6
    <3> QED BY <2>6, <3>1, PasaDeMano
  <2>8. DumpBloquea'
    <3>1. pcb[p].motivo = "MEMORY_DUMP"
      BY <1>0, <2>0, <2>1 DEF Duenios, DumpBloquea
    <3>2. \A q \in Pids : Retenido(q)' <=> Retenido(q)
      BY <2>1 DEF En, Retenido
    <3> QED BY <1>0, <2>1, <2>2, <3>1, <3>2 DEF Duenios, DumpBloquea
  <2>9. SinProceso'
    BY <1>0, <2>1, <2>2 DEF Duenios, SinProceso
  <2> QED BY <2>1, <2>7, <2>8, <2>9, DueniosIguales DEF Duenios
<1>7. CASE LiberarCpu(c)
  <2>1. /\ hiloCpu[c].pc = "libera" /\ hiloCpu'[c].pc = "recibe" /\ hiloCpu'[c].p = hiloCpu[c].p
        /\ \A d \in Cpus \ {c} : hiloCpu'[d] = hiloCpu[d]
    BY <1>a, <1>7 DEF LiberarCpu, Luego, TipoHiloCpu
  <2>2. LanzaQuieto
    BY <2>1 DEF LanzaQuieto
  <2>3. SinProceso'
    BY <1>0, <1>7, <2>1 DEF LiberarCpu, Duenios, SinProceso
  <2> QED BY <1>7, <2>2, <2>3, MoverNadie DEF LiberarCpu, CortoQuieto, DumpQuieto, CortaQuieta
<1>8. CASE AtenderInit(c)
  <2> DEFINE w == Head(syscall[c]).peso
             N == lista["NEW"]
  <2>1. /\ Recibe(c, "INIT") /\ syscall[c][1].tipo = "INIT" /\ 1 \in 1 .. Len(syscall[c])
        /\ \A d \in Cpus \ {c} : syscall'[d] = syscall[d]
        /\ Len(syscall[c]) \in Nat /\ Len(syscall'[c]) = Len(syscall[c]) - 1
        /\ \A i \in 1 .. Len(syscall'[c]) :
             syscall'[c][i] = syscall[c][i + 1] /\ i + 1 \in 1 .. Len(syscall[c])
    BY <1>0, <1>8, RecibeProps DEF AtenderInit
  <2>2. id_pcb_generador < MaxProcesos
    BY <1>0, <2>1 DEF Inv1, IdParaInit
  <2>3. PICK p \in Pids : p = id_pcb_generador
    BY <1>0, <2>2, ConstantesOk DEF TypeOK, Pids, ConstantesOk
  <2>4. PICK i \in 1 .. Len(N) + 1 : lista' = [lista EXCEPT !["NEW"] = InsertAt(@, i, p)]
    BY <1>8, <2>3 DEF AtenderInit
  <2>5. /\ id_pcb_generador' = p + 1 /\ pcb' = [pcb EXCEPT ![p].peso = w]
        /\ UNCHANGED <<finalizados, nar, eaf, corto, hiloCpu, dump, enviados, io>>
    BY <1>8, <2>3 DEF AtenderInit
  <2> HIDE DEF w
  <2>6. \A e \in EstadoProceso : ~En(p, e)
    BY <1>0, <2>3 DEF Duenios, Listados, Creado, Pids
  <2>7. "NEW" \in EstadoProceso
    BY DEF EstadoProceso
  <2>9. UnaLista' /\ Agregado(p)
    BY <2>4, <2>6, AgregarListas
  <2>10. \A q \in Pids : \A e \in EstadoProceso :
           En(q, e)' <=> En(q, e) \/ (q = p /\ e = "NEW")
    BY <2>9 DEF Agregado
  <2>12. Listados' /\ LiberadosCreados'
    <3>1. finalizados \subseteq Pids /\ \A q \in Pids : q \in Int
      BY <1>0 DEF TypeOK, Pids
    <3>2. \A q \in Pids : q < p + 1 <=> q < p \/ q = p
      BY <3>1
    <3>3. p \notin finalizados
      BY <1>0, <2>3, <3>1 DEF Duenios, LiberadosCreados
    <3>4. \A q \in Pids : Creado(q)' <=> Creado(q) \/ q = p
      BY <2>3, <2>5, <3>2, <3>3 DEF Creado
    <3>5. Listados'
      BY <1>0, <2>7, <2>10, <3>4 DEF Duenios, Listados
    <3>6. LiberadosCreados'
      BY <1>0, <2>3, <2>5, <3>1, <3>2 DEF Duenios, LiberadosCreados
    <3> QED BY <3>5, <3>6
  <2>13. \A d \in Cpus : \A q \in Pids : Cede(d, q)' => Cede(d, q)
    BY <2>1 DEF Cede
  <2>14. UnaMano' /\ EnManosEnExec'
    <3>1. \A q \in Pids : \A u \in Manos : \A d \in Lugares : Tiene(u, d, q)' => Tiene(u, d, q)
      BY <2>5, <2>13 DEF Tiene
    <3>2. \A q \in Pids : En(q, "EXEC") => En(q, "EXEC")'
      BY <2>10 DEF EstadoProceso
    <3> QED BY <1>0, <3>1, <3>2 DEF Duenios, UnaMano, EnManosEnExec
  <2>15. InitDelTurno'
    <3>1. \A d \in Cpus : \A j \in 1 .. Len(syscall[d]) :
            syscall[d][j].tipo = "INIT" => d = c /\ j = 1
      BY <1>0, <2>1 DEF Inv1, IdParaInit
    <3>2. ASSUME NEW d \in Cpus \ {c}, NEW j \in 1 .. Len(syscall'[d])
          PROVE  syscall'[d][j].tipo # "INIT"
      <4>1. syscall'[d] = syscall[d] /\ d # c
        BY <2>1
      <4> QED BY <3>1, <4>1
    <3>3. ASSUME NEW j \in 1 .. Len(syscall'[c])
          PROVE  syscall'[c][j].tipo # "INIT"
      <4>1. syscall'[c][j] = syscall[c][j + 1] /\ j + 1 \in 1 .. Len(syscall[c])
        BY <2>1
      <4>2. j + 1 # 1
        BY <2>1
      <4> QED BY <3>1, <4>1, <4>2
    <3>4. \A d \in Cpus : \A j \in 1 .. Len(syscall'[d]) : syscall'[d][j].tipo # "INIT"
      BY <3>2, <3>3
    <3> QED BY <3>4 DEF InitDelTurno
  <2>16. DumpBloquea'
    <3>1. \A q \in Pids : pcb'[q].motivo = pcb[q].motivo
      BY <1>a, <2>5 DEF TipoPcb
    <3>2. \A q \in Pids : Retenido(q) => Retenido(q)'
      BY <2>10 DEF EstadoProceso, Retenido
    <3> QED BY <1>0, <2>5, <3>1, <3>2 DEF Duenios, DumpBloquea
  <2>17. SinProceso'
    BY <2>5, DueniosIguales
  <2> QED BY <2>9, <2>12, <2>14, <2>15, <2>16, <2>17 DEF Duenios
<1> QED BY <1>2, <1>3, <1>4, <1>5, <1>6, <1>7, <1>8 DEF EsperaRtaCpu

------------------------------------------------------------------------------
(* A dump thread blocks the process it serves and wakes it up, or loses it.*)
LEMMA DueniosDump ==
  ASSUME NEW p \in Pids PROVE Inv2 /\ HiloDump(p) /\ ~doble' => Duenios'
<1> SUFFICES ASSUME Inv2, HiloDump(p), ~doble' PROVE Duenios'
  OBVIOUS
<1>0. TypeOK /\ Duenios
  BY DEF Inv2, Inv1
<1>a. dump \in TipoDump /\ pcb \in TipoPcb /\ nar \in TipoNar /\ Nadie \in Lugares
  BY <1>0 DEF TypeOK, Lugares
<1>b. {"EXEC", "BLOCKED", "READY", "EXIT"} \subseteq EstadoProceso
  BY DEF EstadoProceso
<1>1. CASE DumpPide(p)
  <2>1. PICK x \in ConexionNueva :
          /\ dump' = [dump EXCEPT ![p] = [pc |-> "espera", conex |-> x]]
          /\ nar' = [nar EXCEPT !.reusada = @ \/ x = "reusa"]
    BY <1>1 DEF DumpPide
  <2>2. PICK y \in Estimaciones : pcb' = [pcb EXCEPT ![p].est = y]
    BY <1>1 DEF DumpPide
  <2>3. /\ dump[p].pc = "pide" /\ Pasar(p, "EXEC", "BLOCKED")
        /\ UNCHANGED <<id_pcb_generador, finalizados, eaf, corto, hiloCpu, enviados, syscall, io>>
    BY <1>1 DEF DumpPide
  <2>4. dump'[p].pc = "espera" /\ \A q \in Pids \ {p} : dump'[q] = dump[q]
    BY <1>a, <2>1 DEF TipoDump
  <2>5. /\ \A u \in Manos : \A d \in Lugares : Tiene(u, d, p) => u = "dump" /\ d = Nadie
        /\ En(p, "EXEC")
    <3>1. Tiene("dump", Nadie, p) /\ "dump" \in Manos
      BY <2>3 DEF Tiene, Manos
    <3> QED BY <1>0, <1>a, <3>1 DEF Duenios, UnaMano, EnManosEnExec
  <2>6. UnaLista' /\ Movido(p, "BLOCKED")
    BY <1>b, <2>3, <2>5, MoverListas
  <2>7. Listados' /\ LiberadosCreados'
    BY <1>b, <2>3, <2>5, <2>6, MoverListados
  <2>8. UnaMano' /\ EnManosEnExec'
    <3>1. \A d \in Cpus : \A q \in Pids : Cede(d, q)' <=> Cede(d, q)
      BY <2>3 DEF Cede
    <3>2. \A q \in Pids : \A u \in Manos : \A d \in Lugares :
            Tiene(u, d, q)' => Tiene(u, d, q) /\ ~(q = p /\ u = "dump")
      BY <2>3, <2>4, <3>1 DEF Tiene
    <3>3. \A q \in Pids \ {p} : En(q, "EXEC") => En(q, "EXEC")'
      BY <1>b, <2>6 DEF Movido
    <3> QED BY <2>5, <3>2, <3>3, PasaDeMano
  <2>9. InitDelTurno'
    BY <2>3, DueniosIguales
  <2>10. DumpBloquea'
    <3>1. \A q \in Pids : pcb'[q].motivo = pcb[q].motivo
      BY <1>a, <2>2 DEF TipoPcb
    <3>2. pcb[p].motivo = "MEMORY_DUMP"
      BY <1>0, <2>3 DEF Duenios, DumpBloquea
    <3>3. Retenido(p)' /\ \A q \in Pids \ {p} : Retenido(q) => Retenido(q)'
      BY <2>6 DEF Movido, Retenido, EstadoProceso
    <3>4. io[p].corta = "no"
      BY <1>0, <3>2 DEF Duenios, DumpBloquea
    <3> QED BY <1>0, <2>3, <2>4, <3>1, <3>2, <3>3, <3>4 DEF Duenios, DumpBloquea
  <2>11. SinProceso'
    <3>1. nar'.p = nar.p /\ nar'.pc = nar.pc
      BY <1>a, <2>1 DEF TipoNar
    <3> QED BY <1>0, <2>3, <3>1 DEF Duenios, SinProceso
  <2> QED BY <2>6, <2>7, <2>8, <2>9, <2>10, <2>11 DEF Duenios
<1>2. CASE DumpConfirmado(p) \/ DumpFallido(p)
  <2>1. PICK a \in {"READY", "EXIT"} : Pasar(p, "BLOCKED", a) /\ doble' = ~En(p, "BLOCKED")
    BY <1>2 DEF DumpConfirmado, DumpFallido
  <2>2. /\ dump[p].pc = "espera" /\ dump' = [dump EXCEPT ![p] = [pc |-> "no", conex |-> "cerrada"]]
        /\ UNCHANGED <<pcb, id_pcb_generador, finalizados, nar, eaf, corto, hiloCpu, enviados,
                       syscall, io>>
    BY <1>2 DEF DumpConfirmado, DumpFallido
  <2>3. dump'[p].pc = "no" /\ \A q \in Pids \ {p} : dump'[q] = dump[q]
    BY <1>a, <2>2 DEF TipoDump
  <2>4. En(p, "BLOCKED") /\ io[p].corta = "no"
    BY <1>0, <2>1, <2>2 DEF Duenios, DumpBloquea
  <2>5. SinProceso'
    BY <2>2, DueniosIguales
  <2>6. dump'[p].pc = "no" /\ \A q \in Pids \ {p} : dump'[q].pc = dump[q].pc
    BY <2>3
  <2> QED BY <1>b, <2>1, <2>2, <2>4, <2>5, <2>6, MoverFuera
<1>3. CASE DumpSinRespuesta(p)
  <2>1. /\ dump[p].pc = "espera" /\ dump' = [dump EXCEPT ![p] = [pc |-> "perdido", conex |-> "cerrada"]]
        /\ UNCHANGED <<lista, pcb, id_pcb_generador, finalizados, nar, eaf, corto, hiloCpu,
                       enviados, syscall, io>>
    BY <1>3 DEF DumpSinRespuesta
  <2>2. dump'[p].pc = "perdido" /\ \A q \in Pids \ {p} : dump'[q] = dump[q]
    BY <1>a, <2>1 DEF TipoDump
  <2>3. \A q \in Pids : \A e \in EstadoProceso : En(q, e)' <=> En(q, e)
    BY <2>1 DEF En
  <2>4. UnaMano' /\ EnManosEnExec'
    <3>1. \A d \in Cpus : \A q \in Pids : Cede(d, q)' <=> Cede(d, q)
      BY <2>1 DEF Cede
    <3>2. \A q \in Pids : \A u \in Manos : \A d \in Lugares : Tiene(u, d, q)' => Tiene(u, d, q)
      BY <2>1, <2>2, <3>1 DEF Tiene
    <3> QED BY <1>0, <1>b, <2>3, <3>2 DEF Duenios, UnaMano, EnManosEnExec
  <2>5. DumpBloquea'
    <3>1. \A q \in Pids : Retenido(q)' <=> Retenido(q)
      BY <2>3 DEF Retenido, EstadoProceso
    <3> QED BY <1>0, <2>1, <2>2, <3>1 DEF Duenios, DumpBloquea
  <2> QED BY <2>1, <2>4, <2>5, DueniosIguales DEF Duenios
<1> QED BY <1>1, <1>2, <1>3 DEF HiloDump

(* The devices, forzar_exit and the suspension timers move processes that  *)
(* are blocked; only a timer moves one that is in a dump.                  *)
LEMMA DueniosIO ==
  ASSUME NEW p \in Pids
  PROVE  Inv2 /\ (LadoIO(p) \/ HiloTimer(p)) /\ ~doble' => Duenios'
<1> SUFFICES ASSUME Inv2, LadoIO(p) \/ HiloTimer(p), ~doble' PROVE Duenios'
  OBVIOUS
<1>0. TypeOK /\ Duenios
  BY DEF Inv2, Inv1
<1>a. io \in TipoIo /\ pcb \in TipoPcb /\ io[p].corta \in {"no", "BLOCKED", "SUSP_BLOCKED"}
  BY <1>0 DEF TypeOK, TipoIo
<1>1. ASSUME NEW de \in {"BLOCKED", "SUSP_BLOCKED"},
             NEW a \in {"READY", "SUSP_BLOCKED", "SUSP_READY", "EXIT"},
             de # a, Pasar(p, de, a), En(p, de),
             \A q \in Pids : io'[q].corta # "no" => io[q].corta # "no",
             a = "SUSP_BLOCKED" \/ (pcb[p].motivo = "IO" /\ io'[p].corta = "no"),
             UNCHANGED <<pcb, id_pcb_generador, finalizados, nar, eaf, corto, hiloCpu, dump,
                         enviados, syscall>>
      PROVE  Duenios'
  <2>1. pcb[p].motivo = "IO" => dump[p].pc = "no"
    BY <1>0 DEF Duenios, DumpBloquea
  <2>2. SinProceso'
    BY <1>1, DueniosIguales
  <2>3. DumpQuieto
    BY <1>1 DEF DumpQuieto
  <2>4. de \in EstadoProceso \ {"EXEC"} /\ a \in EstadoProceso \ {"EXEC"}
    BY <1>1 DEF EstadoProceso
  <2>5. a = "SUSP_BLOCKED" \/ (dump'[p].pc = "no" /\ io'[p].corta = "no")
    BY <1>1, <2>1
  <2> QED BY <1>1, <2>2, <2>3, <2>4, <2>5, MoverFuera
<1>2. CASE AtiendeIO(p)
  <2>1. io' = io /\ io[p].corta = "no" /\ pcb[p].motivo = "IO"
    BY <1>2 DEF AtiendeIO, RespondeIO, RespondeIOSuspendido, DesconectaIO, PideIO
  <2>2. PICK de \in {"BLOCKED", "SUSP_BLOCKED"}, a \in {"READY", "SUSP_READY", "EXIT"} :
          Pasar(p, de, a) /\ En(p, de)
    BY <1>2 DEF AtiendeIO, RespondeIO, RespondeIOSuspendido, DesconectaIO, PideIO, Suspendido
  <2>3. UNCHANGED <<pcb, id_pcb_generador, finalizados, nar, eaf, corto, hiloCpu, dump,
                    enviados, syscall>>
    BY <1>2 DEF AtiendeIO, RespondeIO, RespondeIOSuspendido, DesconectaIO
  <2> QED BY <1>1, <2>1, <2>2, <2>3
<1>3. CASE CortaMueve(p)
  <2>1. io' = [io EXCEPT ![p].corta = "no"]
    BY <1>3 DEF CortaMueve
  <2>2. \A q \in Pids : io'[q].corta = IF q = p THEN "no" ELSE io[q].corta
    BY <1>a, <2>1 DEF TipoIo
  <2>3. PICK de \in {"BLOCKED", "SUSP_BLOCKED"} : de = io[p].corta
    BY <1>a, <1>3 DEF CortaMueve
  <2>4. /\ Pasar(p, de, "EXIT") /\ En(p, de) /\ pcb[p].motivo = "IO"
        /\ UNCHANGED <<pcb, id_pcb_generador, finalizados, nar, eaf, corto, hiloCpu, dump,
                       enviados, syscall>>
    BY <1>0, <1>3, <2>3 DEF CortaMueve, Duenios, DumpBloquea
  <2> QED BY <1>1, <2>2, <2>4
<1>4. CASE TimerMueve(p)
  <2>1. io' = [io EXCEPT ![p].dentro = FALSE]
    BY <1>4 DEF TimerMueve
  <2>2. \A q \in Pids : io'[q].corta = io[q].corta
    BY <1>a, <2>1 DEF TipoIo
  <2> QED BY <1>1, <1>4, <2>2 DEF TimerMueve
<1>5. CASE CortaMira(p)
  <2>1. PICK e \in {"BLOCKED", "SUSP_BLOCKED"} : io' = [io EXCEPT ![p].corta = e]
    BY <1>5 DEF CortaMira
  <2>2. \A q \in Pids : io'[q].corta = IF q = p THEN e ELSE io[q].corta
    BY <1>a, <2>1 DEF TipoIo
  <2>3. /\ pcb[p].motivo = "IO" /\ Retenido(p)
        /\ UNCHANGED <<lista, pcb, id_pcb_generador, finalizados, nar, eaf, corto, hiloCpu, dump,
                       enviados, syscall>>
    BY <1>5 DEF CortaMira, PideIO, Retenido
  <2>4. DumpBloquea'
    <3>1. \A q \in Pids : Retenido(q)' <=> Retenido(q)
      BY <2>3 DEF Retenido, En
    <3> QED BY <1>0, <2>2, <2>3, <3>1 DEF Duenios, DumpBloquea
  <2> QED BY <2>3, <2>4, DueniosIguales DEF Duenios, CortoQuieto, LanzaQuieto, DumpQuieto
<1>6. CASE PierdeAviso(p)
  <2>1. \A q \in Pids : pcb'[q].motivo = pcb[q].motivo
    BY <1>a, <1>6 DEF PierdeAviso, TipoPcb
  <2>2. UNCHANGED <<lista, id_pcb_generador, finalizados, nar, eaf, corto, hiloCpu, dump,
                    enviados, syscall, io>>
    BY <1>6 DEF PierdeAviso
  <2>3. DumpBloquea'
    <3>1. \A q \in Pids : Retenido(q)' <=> Retenido(q)
      BY <2>2 DEF Retenido, En
    <3> QED BY <1>0, <2>1, <2>2, <3>1 DEF Duenios, DumpBloquea
  <2> QED BY <2>2, <2>3, DueniosIguales DEF Duenios, CortoQuieto, LanzaQuieto, DumpQuieto
<1>7. CASE TimerMira(p) \/ TimerTermina(p) \/ TimerAvisa(p)
  <2>1. CortaQuieta
    BY <1>a, <1>7 DEF TimerMira, TimerTermina, TimerAvisa, TipoIo, CortaQuieta
  <2>2. UNCHANGED <<lista, pcb, id_pcb_generador, finalizados, nar, eaf, corto, hiloCpu, dump,
                    enviados, syscall>>
    BY <1>7 DEF TimerMira, TimerTermina, TimerAvisa
  <2> QED BY <2>1, <2>2, DueniosIguales DEF Duenios, CortoQuieto, LanzaQuieto, DumpQuieto
<1> QED BY <1>2, <1>3, <1>4, <1>5, <1>6, <1>7 DEF LadoIO, HiloTimer

------------------------------------------------------------------------------
(* One step after which no PCB is in two lists.                            *)
LEMMA PasoDuenios == Inv2 /\ Inv1' /\ Next /\ ~doble' => Duenios'
<1> SUFFICES ASSUME Inv2, Inv1', Next, ~doble' PROVE Duenios'
  OBVIOUS
<1>1. ASSUME NEW c \in Cpus, Cpu(c) \/ EsperaRtaCpu(c) PROVE Duenios'
  BY <1>1, DueniosCpu, DueniosHiloCpu
<1>2. ASSUME NEW p \in Pids, HiloDump(p) \/ LadoIO(p) \/ HiloTimer(p) PROVE Duenios'
  BY <1>2, DueniosDump, DueniosIO
<1> QED BY <1>1, <1>2, DueniosNar, DueniosEaf, DueniosCorto DEF Next

(* The other steps: a thread moves p out of a list it has left, so p only  *)
(* enters one.                                                             *)
Dobla ==
  \E p \in Pids : \E de \in {"BLOCKED", "SUSP_BLOCKED"} :
    \E a \in {"READY", "EXIT", "SUSP_BLOCKED"} :
      /\ Pasar(p, de, a) /\ ~En(p, de) /\ de # a
      /\ a = "READY" => dump[p].pc = "espera"
      /\ UNCHANGED <<pcb, id_pcb_generador, finalizados, nar, eaf, corto, hiloCpu, cpu,
                     enviados, syscall>>
      /\ \A q \in Pids : /\ dump'[q].pc \in {dump[q].pc, "no"}
                         /\ io'[q].corta \in {io[q].corta, "no"}

LEMMA PasoDobla == Inv2 /\ Next /\ doble' => Dobla
<1> SUFFICES ASSUME Inv2, Next, doble' PROVE Dobla
  OBVIOUS
<1>0. TypeOK /\ Duenios /\ dump \in TipoDump /\ io \in TipoIo
  BY DEF Inv2, Inv1, TypeOK
<1>1. ~doble
  BY DEF Next
<1>2. NewAReady \/ ExitAFin \/ PlanificacionCorto => UNCHANGED doble
  BY DEF NewAReady, NarToma, NarElige, NarHayEspacio, NarSinEspacio, NarDespierta, NarCrea,
     NarRecierra, NarDesuspende, MemoriaCalla, NarPasa, ExitAFin, EafToma, EafElige,
     EafConecta, EafResponde, EafFinaliza, PlanificacionCorto, CortoEsperaCpu,
     CortoEsperaReady, CortoElige, CortoSaca, CortoAsigna
<1>3. ASSUME NEW c \in Cpus, Cpu(c) \/ EsperaRtaCpu(c) PROVE UNCHANGED doble
  BY <1>3 DEF Cpu, CpuPideExit, CpuPideInit, CpuPideBloqueo, EsperaRtaCpu, AtenderExit,
     AtenderIO, AtenderIOInvalida, AtenderIOAusente, AtenderInit, AtenderDump, LanzarDump,
     LiberarCpu
<1>4. PICK p \in Pids : HiloDump(p) \/ LadoIO(p) \/ HiloTimer(p)
  BY <1>1, <1>2, <1>3 DEF Next
<1>5. DumpConfirmado(p) \/ DumpFallido(p) \/ CortaMueve(p) \/ TimerMueve(p)
  BY <1>1, <1>4 DEF HiloDump, DumpPide, DumpSinRespuesta, LadoIO, AtiendeIO, RespondeIO,
     RespondeIOSuspendido, DesconectaIO, CortaMira, PierdeAviso, HiloTimer, TimerMira,
     TimerTermina, TimerAvisa
<1>6. CASE DumpConfirmado(p) \/ DumpFallido(p)
  <2>1. dump' = [dump EXCEPT ![p] = [pc |-> "no", conex |-> "cerrada"]]
    BY <1>6 DEF DumpConfirmado, DumpFallido
  <2>2. \A q \in Pids : dump'[q].pc \in {dump[q].pc, "no"}
    BY <1>0, <2>1 DEF TipoDump
  <2>3. PICK a \in {"READY", "EXIT"} :
          Pasar(p, "BLOCKED", a) /\ ~En(p, "BLOCKED") /\ dump[p].pc = "espera"
    BY <1>6 DEF DumpConfirmado, DumpFallido
  <2>4. UNCHANGED <<pcb, id_pcb_generador, finalizados, nar, eaf, corto, hiloCpu, cpu,
                    enviados, syscall, io>>
    BY <1>6 DEF DumpConfirmado, DumpFallido
  <2> QED BY <2>2, <2>3, <2>4 DEF Dobla
<1>7. CASE CortaMueve(p)
  <2>1. io' = [io EXCEPT ![p].corta = "no"]
    BY <1>7 DEF CortaMueve
  <2>2. \A q \in Pids : io'[q].corta \in {io[q].corta, "no"}
    BY <1>0, <2>1 DEF TipoIo
  <2>3. PICK de \in {"BLOCKED", "SUSP_BLOCKED"} : de = io[p].corta
    BY <1>0, <1>7 DEF CortaMueve, TipoIo
  <2>4. Pasar(p, de, "EXIT") /\ ~En(p, de)
    BY <1>7, <2>3 DEF CortaMueve
  <2>5. UNCHANGED <<pcb, id_pcb_generador, finalizados, nar, eaf, corto, hiloCpu, dump, cpu,
                    enviados, syscall>>
    BY <1>7 DEF CortaMueve
  <2> QED BY <2>2, <2>4, <2>5 DEF Dobla
<1>8. CASE TimerMueve(p)
  <2>1. io' = [io EXCEPT ![p].dentro = FALSE]
    BY <1>8 DEF TimerMueve
  <2>2. \A q \in Pids : io'[q].corta = io[q].corta
    BY <1>0, <2>1 DEF TipoIo
  <2>3. Pasar(p, "BLOCKED", "SUSP_BLOCKED") /\ ~En(p, "BLOCKED")
    BY <1>8 DEF TimerMueve
  <2>4. UNCHANGED <<pcb, id_pcb_generador, finalizados, nar, eaf, corto, hiloCpu, dump, cpu,
                    enviados, syscall>>
    BY <1>8 DEF TimerMueve
  <2> QED BY <2>2, <2>3, <2>4 DEF Dobla
<1> QED BY <1>5, <1>6, <1>7, <1>8

LEMMA DoblaListas ==
  ASSUME TypeOK, Dobla
  PROVE  \A q \in Pids : \A e \in EstadoProceso : En(q, e) => En(q, e)'
<1>1. PICK p \in Pids, de \in {"BLOCKED", "SUSP_BLOCKED"}, a \in {"READY", "EXIT", "SUSP_BLOCKED"} :
        Pasar(p, de, a) /\ ~En(p, de) /\ de # a
  BY DEF Dobla
<1>2. de \in EstadoProceso /\ a \in EstadoProceso
  BY DEF EstadoProceso
<1>3. /\ \A e \in EstadoProceso \ {de, a} : lista'[e] = lista[e]
      /\ \A q : Contains(lista'[a], q) <=> q = p \/ Contains(lista[a], q)
      /\ \A q : q # p => (Contains(lista'[de], q) <=> Contains(lista[de], q))
  BY <1>1, <1>2, PasarProps
<1> SUFFICES ASSUME NEW q \in Pids, NEW e \in EstadoProceso, Contains(lista[e], q)
             PROVE  Contains(lista'[e], q)
  BY DEF En
<1>4. CASE e = a
  BY <1>3, <1>4
<1>5. CASE e = de /\ e # a
  BY <1>1, <1>3, <1>5 DEF En
<1>6. CASE e # a /\ e # de
  BY <1>3, <1>6
<1> QED BY <1>4, <1>5, <1>6

------------------------------------------------------------------------------
(* What the owners imply.                                                  *)
LEMMA PerdidosDeInv2 == Inv2 => NingunoPerdido
<1>1. Inv2 => \A p \in 0 .. id_pcb_generador - 1 : p \in Pids /\ p < id_pcb_generador
  BY ConstantesOk DEF Inv2, Inv1, TypeOK, Pids, ConstantesOk
<1> QED BY <1>1 DEF Inv2, Duenios, Listados, Creado, NingunoPerdido

LEMMA LiberadosDeInv2 == Inv2 => LiberadoSoloEnTimers
<1> SUFFICES ASSUME Inv2, NEW p \in finalizados
             PROVE  /\ \A e \in EstadoProceso : ~En(p, e)
                    /\ nar.p # p /\ eaf.p # p /\ corto.p # p
                    /\ dump[p].pc \in {"no", "perdido"} /\ io[p].corta = "no"
                    /\ \A c \in Cpus : /\ p \notin enviados[c] /\ hiloCpu[c].p # p
                                       /\ \A i \in 1 .. Len(syscall[c]) : syscall[c][i].p # p
  BY DEF LiberadoSoloEnTimers
<1>0. TypeOK /\ Duenios /\ TomaNar /\ TomaEaf /\ TomaCorto
  BY DEF Inv2, Inv1
<1>1. p \in Pids /\ p # Nadie /\ Nadie \in Lugares
  BY <1>0, ConstantesOk DEF TypeOK, ConstantesOk, Lugares
<1>2. \A e \in EstadoProceso : ~En(p, e)
  BY <1>0, <1>1 DEF Duenios, Listados, Creado
<1>3. \A t \in Manos : \A c \in Lugares : ~Tiene(t, c, p)
  BY <1>0, <1>1, <1>2 DEF Duenios, EnManosEnExec, EstadoProceso
<1>4. nar.p # p
  BY <1>0, <1>1, <1>2 DEF Duenios, SinProceso, TomaNar, OrigenNar, EstadoProceso
<1>5. eaf.p # p
  BY <1>0, <1>1, <1>2 DEF Duenios, SinProceso, TomaEaf, EstadoProceso
<1>6. corto.p # p
  <2>1. corto.p = p => corto.pc \in {"saca", "asigna"}
    BY <1>0, <1>1 DEF Duenios, SinProceso
  <2>2. ~(corto.pc = "asigna" /\ corto.p = p)
    BY <1>1, <1>3 DEF Tiene, Manos
  <2>3. ~(corto.pc = "saca" /\ corto.p = p)
    BY <1>0, <1>2 DEF TomaCorto, EstadoProceso
  <2> QED BY <2>1, <2>2, <2>3
<1>7. ~Retenido(p)
  BY <1>2 DEF Retenido, EstadoProceso
<1>8. io[p].corta = "no"
  BY <1>0, <1>1, <1>7 DEF Duenios, DumpBloquea
<1>9. dump[p].pc \in {"no", "perdido"}
  <2>1. dump[p].pc # "pide"
    BY <1>1, <1>3 DEF Tiene, Manos
  <2>2. dump[p].pc # "espera"
    BY <1>0, <1>1, <1>7 DEF Duenios, DumpBloquea
  <2> QED BY <1>0, <1>1, <2>1, <2>2 DEF TypeOK, TipoDump
<1>10. ASSUME NEW c \in Cpus
      PROVE  /\ p \notin enviados[c] /\ hiloCpu[c].p # p
             /\ \A i \in 1 .. Len(syscall[c]) : syscall[c][i].p # p
  <2>0. c \in Lugares
    BY DEF Lugares
  <2>1. p \notin enviados[c]
    BY <1>3, <2>0 DEF Tiene, Manos
  <2>2. hiloCpu[c].p # p
    BY <1>0, <1>1, <1>3, <2>0 DEF Tiene, Manos, Duenios, SinProceso
  <2>3. ~Cede(c, p)
    BY <1>3, <2>0 DEF Tiene, Manos
  <2>4. \A i \in 1 .. Len(syscall[c]) : syscall[c][i].p # p
    BY <1>0, <1>1, <2>1, <2>3 DEF Duenios, InitDelTurno, Cede
  <2> QED BY <2>1, <2>2, <2>4
<1> QED BY <1>2, <1>4, <1>5, <1>6, <1>9, <1>10, <1>8

LEMMA ExclusivaDeInv2 == Inv2 => CpuExclusiva
<1> SUFFICES ASSUME Inv2 PROVE CpuExclusiva
  OBVIOUS
<1>0. TypeOK /\ Duenios /\ CpuLibreCallada /\ CpuUnProceso
  BY DEF Inv2, Inv1, CpuCoherente
<1>1. \A c, d \in Cpus : \A p \in Pids : p \in enviados[c] /\ p \in enviados[d] => c = d
  <2>1. \A c \in Cpus : \A p \in Pids : p \in enviados[c] => Tiene("cpu", c, p)
    BY DEF Tiene
  <2> QED BY <1>0, <2>1 DEF Duenios, UnaMano, Manos, Lugares
<1>2. \A c \in Cpus : enviados[c] \subseteq Pids
  BY <1>0 DEF TypeOK
<1> QED BY <1>0, <1>1, <1>2 DEF CpuExclusiva, CpuLibreCallada, CpuUnProceso

LEMMA SyscallDeInv2 == Inv2 => SyscallEncuentraProceso
<1> SUFFICES ASSUME Inv2, NEW c \in Cpus, NEW i \in 1 .. Len(syscall[c])
             PROVE  En(syscall[c][i].p, "EXEC")
  BY DEF SyscallEncuentraProceso
<1>0. TypeOK /\ Duenios
  BY DEF Inv2, Inv1
<1>1. syscall[c][i] \in Mensaje
  BY <1>0, ElementOfSeq DEF TypeOK
<1>2. PICK p \in Pids : p = syscall[c][i].p
  BY <1>1 DEF Mensaje
<1>3. p \in enviados[c] \/ Cede(c, p)
  BY <1>0, <1>2 DEF Duenios, InitDelTurno, Cede
<1>4. Tiene("cpu", c, p) \/ Tiene("msg", c, p)
  BY <1>3 DEF Tiene
<1> QED BY <1>0, <1>2, <1>4 DEF Duenios, EnManosEnExec, Manos, Lugares

LEMMA PromesasDeInv2 == Inv2 => Promesas
BY PerdidosDeInv2, LiberadosDeInv2, ExclusivaDeInv2, SyscallDeInv2 DEF Promesas

(* A PCB that enters a second list, or a list after it is freed, breaks    *)
(* none of the four.                                                       *)
LEMMA PromesasTrasDoblar ==
  ASSUME Inv2, Promesas, Dobla, doble'
  PROVE  Promesas'
<1>0. TypeOK
  BY DEF Inv2, Inv1
<1>1. \A q \in Pids : \A e \in EstadoProceso : En(q, e) => En(q, e)'
  BY <1>0, DoblaListas
<1>2. /\ UNCHANGED <<id_pcb_generador, finalizados, nar, eaf, corto, hiloCpu, cpu, enviados,
                     syscall>>
      /\ \A q \in Pids : /\ dump'[q].pc \in {dump[q].pc, "no"}
                         /\ io'[q].corta \in {io[q].corta, "no"}
  BY DEF Dobla
<1>3. NingunoPerdido'
  <2>1. 0 .. id_pcb_generador - 1 \subseteq Pids
    BY <1>0, ConstantesOk DEF TypeOK, Pids, ConstantesOk
  <2> QED BY <1>1, <1>2, <2>1 DEF Promesas, NingunoPerdido
<1>4. LiberadoSoloEnTimers'
  <2>1. finalizados \subseteq Pids
    BY <1>0 DEF TypeOK
  <2>2. \A p \in finalizados : dump'[p].pc \in {"no", "perdido"} /\ io'[p].corta = "no"
    BY <1>2, <2>1 DEF Promesas, LiberadoSoloEnTimers
  <2> QED BY <1>2, <2>2 DEF Promesas, LiberadoSoloEnTimers
<1>5. CpuExclusiva'
  BY <1>2 DEF Promesas, CpuExclusiva
<1>6. SyscallEncuentraProceso'
  <2> SUFFICES ASSUME NEW c \in Cpus, NEW i \in 1 .. Len(syscall[c])
               PROVE  En(syscall[c][i].p, "EXEC")'
    BY <1>2 DEF SyscallEncuentraProceso
  <2>1. syscall[c][i] \in Mensaje
    BY <1>0, ElementOfSeq DEF TypeOK
  <2>2. PICK p \in Pids : p = syscall[c][i].p
    BY <2>1 DEF Mensaje
  <2>3. En(p, "EXEC") /\ "EXEC" \in EstadoProceso
    BY <2>2 DEF Promesas, SyscallEncuentraProceso, EstadoProceso
  <2>4. En(p, "EXEC")'
    BY <1>1, <2>3
  <2> QED BY <1>2, <2>2, <2>4 DEF En
<1> QED BY <1>3, <1>4, <1>5, <1>6 DEF Promesas

(* The owners are an invariant of the planners until a PCB is in two lists *)
(* and what they promise is one for ever.                                  *)
THEOREM InvarianteDuenios == Spec => []InvDuenios
<1>1. Init => InvDuenios
  <2>1. Init => Inv2
    BY Inv1Init, DueniosInit DEF Inv2
  <2> QED BY <2>1, PromesasDeInv2 DEF Inv2, InvDuenios
<1>2. InvDuenios /\ Inv1' /\ [Next]_vars => InvDuenios'
  <2> SUFFICES ASSUME InvDuenios, Inv1', [Next]_vars PROVE InvDuenios'
    OBVIOUS
  <2>1. Inv2' => Promesas'
    BY PromesasDeInv2, PTL
  <2>2. CASE Next
    <3>1. Inv2
      BY <2>2 DEF Next, InvDuenios, Inv2
    <3>2. CASE doble'
      <4>1. Promesas'
        BY <2>2, <3>1, <3>2, PasoDobla, PromesasTrasDoblar DEF InvDuenios
      <4> QED BY <3>2, <4>1 DEF InvDuenios
    <3>3. CASE ~doble'
      <4>1. Duenios'
        BY <2>2, <3>1, <3>3, PasoDuenios
      <4> QED BY <2>1, <4>1 DEF InvDuenios, Inv2
    <3> QED BY <3>2, <3>3
  <2>3. CASE UNCHANGED vars
    <3>1. Promesas'
      BY <2>3 DEF InvDuenios, vars, Promesas, NingunoPerdido, LiberadoSoloEnTimers,
         CpuExclusiva, SyscallEncuentraProceso, En
    <3>2. (doble \/ Duenios)'
      <4>1. doble => doble'
        BY <2>3 DEF vars
      <4>2. ASSUME Duenios PROVE Duenios'
        <5>1. Inv2
          BY <4>2 DEF InvDuenios, Inv2
        <5> QED BY <2>3, <5>1, DueniosIguales
                DEF vars, Duenios, CortoQuieto, LanzaQuieto, DumpQuieto, CortaQuieta
      <4> QED BY <4>1, <4>2 DEF InvDuenios
    <3> QED BY <3>1, <3>2 DEF InvDuenios
  <2> QED BY <2>2, <2>3
<1> QED BY <1>1, <1>2, Invariante, PTL DEF Spec

(* No process is in two lists or twice in one, whatever the planners, the  *)
(* CPU threads and the devices do: pasar_proceso_de_estado_a_otro finds it *)
(* where its caller thinks.  The first step that breaks it is a timer's,   *)
(* forzar_exit's or a dump thread's, which finds its process gone.         *)
THEOREM Disjuntas == Spec => []ListasDisjuntas
<1>1. InvDuenios => ListasDisjuntas
  <2> SUFFICES ASSUME InvDuenios, ~doble, NEW e \in EstadoProceso, NEW f \in EstadoProceso,
                      NEW i \in 1 .. Len(lista[e]), NEW j \in 1 .. Len(lista[f]),
                      lista[e][i] = lista[f][j]
               PROVE  e = f /\ i = j
    BY DEF ListasDisjuntas
  <2>0. Inv2
    BY DEF InvDuenios, Inv2
  <2>1. lista[e] \in Seq(Pids) /\ lista[f] \in Seq(Pids)
    BY <2>0, Largos DEF Inv2, Inv1
  <2>2. PICK p \in Pids : p = lista[e][i]
    BY <2>1, ElementOfSeq
  <2>3. En(p, e) /\ En(p, f)
    BY <2>1, <2>2 DEF En, Contains
  <2>4. e = f
    BY <2>0, <2>3 DEF Inv2, Duenios, UnaLista
  <2>5. i = j
    BY <2>0, <2>4 DEF Inv2, Duenios, UnaLista, SinRepetidos
  <2> QED BY <2>4, <2>5
<1> QED BY <1>1, InvarianteDuenios, PTL

(* No created process drops out of every list before it is freed.          *)
THEOREM SinPerdidos == Spec => []NingunoPerdido
BY InvarianteDuenios, PTL DEF InvDuenios, Promesas

(* liberar_pcb frees a PCB that no planner, CPU, CPU thread, dump thread,  *)
(* message or forzar_exit still names: of the threads modelled here, only  *)
(* its suspension timers may.                                              *)
THEOREM LiberadosSinUso == Spec => []LiberadoSoloEnTimers
BY InvarianteDuenios, PTL DEF InvDuenios, Promesas

(* A LIBRE CPU is idle, a CPU runs one process, a process runs in one CPU. *)
THEOREM Exclusiva == Spec => []CpuExclusiva
BY InvarianteDuenios, PTL DEF InvDuenios, Promesas

(* No handler dereferences the NULL of buscar_proceso_en_exec_con_pid:     *)
(* every message in a socket names a process in EXEC.                      *)
THEOREM SyscallEnExec == Spec => []SyscallEncuentraProceso
BY InvarianteDuenios, PTL DEF InvDuenios, Promesas

------------------------------------------------------------------------------
(* The planners implement the life-cycle.  What EstadoDe reads off the     *)
(* lists:                                                                  *)
Lecturas ==
  \A p \in Pids :
    /\ \A e \in EstadoProceso : En(p, e) => EstadoDe(p) = e
    /\ p \in finalizados => EstadoDe(p) = "FINALIZADO"
    /\ p \notin finalizados /\ (\A e \in EstadoProceso : ~En(p, e)) => EstadoDe(p) = "SIN_CREAR"

LEMMA LecturasDeInv2 == Inv2 => Lecturas
<1> SUFFICES ASSUME Inv2, NEW p \in Pids
             PROVE  /\ \A e \in EstadoProceso : En(p, e) => EstadoDe(p) = e
                    /\ p \in finalizados => EstadoDe(p) = "FINALIZADO"
                    /\ p \notin finalizados /\ (\A e \in EstadoProceso : ~En(p, e)) =>
                         EstadoDe(p) = "SIN_CREAR"
  BY DEF Lecturas
<1>1. ASSUME NEW e \in EstadoProceso, En(p, e) PROVE EstadoDe(p) = e
  <2>1. p \notin finalizados
    BY <1>1 DEF Inv2, Duenios, Listados, Creado
  <2>2. \A f \in EstadoProceso : En(p, f) => f = e
    BY <1>1 DEF Inv2, Duenios, UnaLista
  <2>3. (CHOOSE f \in EstadoProceso : En(p, f)) = e
    BY <1>1, <2>2
  <2> QED BY <1>1, <2>1, <2>3 DEF EstadoDe
<1>2. p \in finalizados => EstadoDe(p) = "FINALIZADO"
  BY DEF EstadoDe
<1>3. p \notin finalizados /\ (\A e \in EstadoProceso : ~En(p, e)) => EstadoDe(p) = "SIN_CREAR"
  BY DEF EstadoDe
<1> QED BY <1>1, <1>2, <1>3

(* The four things a step can do to the lists.                             *)
Mueve ==
  \E p \in Pids : \E t \in Transiciones :
    /\ En(p, t[1]) /\ Pasar(p, t[1], t[2])
    /\ Movido(p, t[2]) /\ UNCHANGED finalizados

PorPeso(p, i) ==
  ALGORITMO_INGRESO_A_READY = "PMCP" =>
    \A j \in 1 .. Len(lista["NEW"]) :
      IF j < i THEN pcb[lista["NEW"][j]].peso <= pcb'[p].peso
               ELSE pcb'[p].peso <= pcb[lista["NEW"][j]].peso

Crea ==
  \E p \in Pids :
    /\ p \notin finalizados /\ \A e \in EstadoProceso : ~En(p, e)
    /\ \E i \in 1 .. Len(lista["NEW"]) + 1 :
         PorPeso(p, i) /\ lista' = [lista EXCEPT !["NEW"] = InsertAt(@, i, p)]
    /\ Agregado(p) /\ UNCHANGED finalizados

Libera ==
  \E p \in Pids :
    /\ En(p, "EXIT") /\ lista' = [lista EXCEPT !["EXIT"] = RemoveFirst(@, p)]
    /\ Sacado(p) /\ finalizados' = finalizados \cup {p}

Deja == UNCHANGED <<lista, finalizados>>

LEMMA MoverEnCiclo ==
  ASSUME Inv2, NEW p \in Pids, NEW de \in EstadoProceso, NEW a \in EstadoProceso,
         <<de, a>> \in Transiciones, En(p, de), Pasar(p, de, a), UNCHANGED finalizados
  PROVE  Mueve
<1>1. de # a
  BY DEF Transiciones
<1>2. Movido(p, a)
  BY <1>1, MoverListas
<1> DEFINE t == <<de, a>>
<1>3. t[1] = de /\ t[2] = a /\ t \in Transiciones
  OBVIOUS
<1> HIDE DEF t
<1> QED BY <1>2, <1>3 DEF Mueve

LEMMA PasoDelCiclo ==
  Inv2 /\ [Next]_vars => Mueve \/ Crea \/ Libera \/ Deja \/ (doble' /\ Dobla)
<1> SUFFICES ASSUME Inv2, [Next]_vars, ~(doble' /\ Next)
             PROVE  Mueve \/ Crea \/ Libera \/ Deja
  BY PasoDobla
<1>0. TypeOK /\ Duenios /\ Inv1 /\ TomaNar /\ TomaEaf /\ TomaCorto
  BY DEF Inv2, Inv1
<1> USE DEF EstadoProceso, Transiciones
<1>1. CASE NewAReady
  <2>1. CASE NarPasa
    <3>1. PICK p \in Pids, de \in {"NEW", "SUSP_READY"} :
            En(p, de) /\ Pasar(p, de, "READY") /\ UNCHANGED finalizados
      BY <1>0, <2>1 DEF NarPasa, TomaNar, OrigenNar, NarConProceso
    <3> QED BY <3>1, MoverEnCiclo
  <2>2. CASE ~NarPasa
    BY <1>1, <2>2 DEF NewAReady, NarToma, NarElige, NarHayEspacio, NarSinEspacio,
       NarDespierta, NarCrea, NarRecierra, NarDesuspende, MemoriaCalla, Deja
  <2> QED BY <2>1, <2>2
<1>2. CASE ExitAFin
  <2>1. CASE EafFinaliza
    <3>1. PICK p \in Pids : p = eaf.p /\ En(p, "EXIT")
      BY <1>0, <2>1 DEF EafFinaliza, TomaEaf
    <3>2. /\ lista' = [lista EXCEPT !["EXIT"] = RemoveFirst(@, p)]
          /\ finalizados' = finalizados \cup {p}
      BY <2>1, <3>1 DEF EafFinaliza
    <3>3. Sacado(p)
      BY <3>1, <3>2, SacarListas
    <3> QED BY <3>1, <3>2, <3>3 DEF Libera
  <2>2. CASE ~EafFinaliza
    BY <1>2, <2>2 DEF ExitAFin, EafToma, EafElige, EafConecta, EafResponde, Deja
  <2> QED BY <2>1, <2>2
<1>3. CASE PlanificacionCorto
  <2>1. CASE CortoSaca
    <3>1. PICK p \in Pids : En(p, "READY") /\ Pasar(p, "READY", "EXEC") /\ UNCHANGED finalizados
      BY <1>0, <2>1 DEF CortoSaca, TomaCorto
    <3> QED BY <3>1, MoverEnCiclo
  <2>2. CASE ~CortoSaca
    BY <1>3, <2>2 DEF PlanificacionCorto, CortoEsperaCpu, CortoEsperaReady, CortoElige,
       CortoAsigna, Deja
  <2> QED BY <2>1, <2>2
<1>4. ASSUME NEW c \in Cpus, Cpu(c) PROVE Deja
  BY <1>4 DEF Cpu, CpuPideExit, CpuPideInit, CpuPideBloqueo, Deja
<1>5. ASSUME NEW c \in Cpus, EsperaRtaCpu(c) PROVE Mueve \/ Crea \/ Deja
  <2>1. CASE AtenderExit(c) \/ AtenderIO(c) \/ AtenderIOInvalida(c) \/ AtenderIOAusente(c)
    <3>1. PICK tipo \in {"EXIT", "IO"} : Recibe(c, tipo)
      BY <2>1 DEF AtenderExit, AtenderIO, AtenderIOInvalida, AtenderIOAusente
    <3>2. PICK p \in Pids : p = Head(syscall[c]).p
      BY <1>0, <3>1, RecibeProps
    <3>3. PICK a \in {"EXIT", "BLOCKED"} :
            En(p, "EXEC") /\ Pasar(p, "EXEC", a) /\ UNCHANGED finalizados
      BY <2>1, <3>2 DEF AtenderExit, AtenderIO, AtenderIOInvalida, AtenderIOAusente
    <3> QED BY <3>3, MoverEnCiclo
  <2>2. CASE AtenderInit(c)
    <3>1. Recibe(c, "INIT")
      BY <2>2 DEF AtenderInit
    <3>2. id_pcb_generador < MaxProcesos
      BY <1>0, <3>1, RecibeProps DEF Inv1, IdParaInit
    <3>3. PICK p \in Pids : p = id_pcb_generador
      BY <1>0, <3>2, ConstantesOk DEF TypeOK, Pids, ConstantesOk
    <3>4. p \notin finalizados /\ \A e \in EstadoProceso : ~En(p, e)
      BY <1>0, <3>3 DEF Duenios, Listados, LiberadosCreados, Creado, Pids
    <3>5. PICK i \in 1 .. Len(lista["NEW"]) + 1 :
            /\ lista' = [lista EXCEPT !["NEW"] = InsertAt(@, i, p)]
            /\ IF ALGORITMO_INGRESO_A_READY = "FIFO" THEN i = Len(lista["NEW"]) + 1
               ELSE \A j \in 1 .. Len(lista["NEW"]) :
                      IF j < i THEN pcb[lista["NEW"][j]].peso <= Head(syscall[c]).peso
                               ELSE Head(syscall[c]).peso <= pcb[lista["NEW"][j]].peso
      BY <2>2, <3>3 DEF AtenderInit
    <3>6. pcb'[p].peso = Head(syscall[c]).peso
      BY <1>0, <2>2, <3>3 DEF AtenderInit, TypeOK, TipoPcb
    <3>7. PorPeso(p, i)
      BY <3>5, <3>6 DEF PorPeso
    <3>8. Agregado(p) /\ UNCHANGED finalizados
      BY <2>2, <3>4, <3>5, AgregarListas DEF AtenderInit
    <3> QED BY <3>4, <3>5, <3>7, <3>8 DEF Crea
  <2>3. CASE AtenderDump(c) \/ LanzarDump(c) \/ LiberarCpu(c)
    BY <2>3 DEF AtenderDump, LanzarDump, LiberarCpu, Deja
  <2> QED BY <1>5, <2>1, <2>2, <2>3 DEF EsperaRtaCpu
<1>6. ASSUME NEW p \in Pids, HiloDump(p), ~doble' PROVE Mueve \/ Deja
  <2>1. CASE DumpPide(p)
    <3>1. En(p, "EXEC")
      <4>1. Tiene("dump", Nadie, p)
        BY <2>1 DEF DumpPide, Tiene
      <4> QED BY <1>0, <4>1 DEF Duenios, EnManosEnExec, Manos, Lugares
    <3> QED BY <2>1, <3>1, MoverEnCiclo DEF DumpPide
  <2>2. CASE DumpConfirmado(p) \/ DumpFallido(p)
    <3>1. PICK a \in {"READY", "EXIT"} : Pasar(p, "BLOCKED", a) /\ UNCHANGED finalizados
      BY <2>2 DEF DumpConfirmado, DumpFallido
    <3>2. En(p, "BLOCKED")
      BY <1>6, <2>2 DEF DumpConfirmado, DumpFallido
    <3> QED BY <3>1, <3>2, MoverEnCiclo
  <2>3. CASE DumpSinRespuesta(p)
    BY <2>3 DEF DumpSinRespuesta, Deja
  <2> QED BY <1>6, <2>1, <2>2, <2>3 DEF HiloDump
<1>7. ASSUME NEW p \in Pids, LadoIO(p) \/ HiloTimer(p), ~doble' PROVE Mueve \/ Deja
  <2>1. CASE AtiendeIO(p) \/ CortaMueve(p) \/ TimerMueve(p)
    <3>1. UNCHANGED finalizados
      BY <2>1 DEF AtiendeIO, RespondeIO, RespondeIOSuspendido, DesconectaIO, CortaMueve,
         TimerMueve
    <3>2. PICK t \in {<<"BLOCKED", "READY">>, <<"BLOCKED", "SUSP_BLOCKED">>, <<"BLOCKED", "EXIT">>,
                      <<"SUSP_BLOCKED", "SUSP_READY">>, <<"SUSP_BLOCKED", "EXIT">>} :
            En(p, t[1]) /\ Pasar(p, t[1], t[2])
      <4>1. CASE AtiendeIO(p)
        BY <4>1 DEF AtiendeIO, RespondeIO, RespondeIOSuspendido, DesconectaIO, PideIO, Suspendido
      <4>2. CASE TimerMueve(p)
        BY <1>7, <4>2 DEF TimerMueve
      <4>3. CASE CortaMueve(p)
        <5>1. io[p].corta \in {"BLOCKED", "SUSP_BLOCKED"}
          BY <1>0, <4>3 DEF CortaMueve, TypeOK, TipoIo
        <5> QED BY <1>7, <4>3, <5>1 DEF CortaMueve
      <4> QED BY <2>1, <4>1, <4>2, <4>3
    <3> QED BY <3>1, <3>2, MoverEnCiclo
  <2>2. CASE CortaMira(p) \/ PierdeAviso(p) \/ TimerMira(p) \/ TimerTermina(p) \/ TimerAvisa(p)
    BY <2>2 DEF CortaMira, PierdeAviso, TimerMira, TimerTermina, TimerAvisa, Deja
  <2> QED BY <1>7, <2>1, <2>2 DEF LadoIO, HiloTimer
<1>8. CASE UNCHANGED vars
  BY <1>8 DEF vars, Deja
<1> QED BY <1>1, <1>2, <1>3, <1>4, <1>5, <1>6, <1>7, <1>8 DEF Next

(* A step of the lists is a step of the life-cycle, read by Lecturas.      *)
LEMMA PasoImplementa ==
  ASSUME Inv2, Lecturas, Lecturas', Mueve \/ Crea \/ Libera \/ Deja
  PROVE  [Ciclo!Next]_([p \in Pids |-> EstadoDe(p)])
<1> DEFINE estado == [p \in Pids |-> EstadoDe(p)]
<1>0. \A q \in Pids : \/ q \in finalizados
                      \/ \E e \in EstadoProceso : En(q, e)
                      \/ q \notin finalizados /\ \A e \in EstadoProceso : ~En(q, e)
  OBVIOUS
<1>1. CASE Mueve
  <2>1. PICK p \in Pids, t \in Transiciones :
          En(p, t[1]) /\ Movido(p, t[2]) /\ UNCHANGED finalizados
    BY <1>1 DEF Mueve
  <2>2. t[1] \in EstadoProceso /\ t[2] \in EstadoProceso
    BY DEF Transiciones, EstadoProceso
  <2>3. EstadoDe(p) = t[1] /\ EstadoDe(p)' = t[2]
    BY <2>1, <2>2 DEF Lecturas, Movido
  <2>4. \A q \in Pids \ {p} : EstadoDe(q)' = EstadoDe(q)
    <3> SUFFICES ASSUME NEW q \in Pids \ {p} PROVE EstadoDe(q)' = EstadoDe(q)
      OBVIOUS
    <3>1. \A e \in EstadoProceso : En(q, e)' <=> En(q, e)
      BY <2>1 DEF Movido
    <3> QED BY <1>0, <2>1, <3>1 DEF Lecturas
  <2>5. Ciclo!Pasar(p)
    <3>1. estado[p] = t[1] /\ estado' = [estado EXCEPT ![p] = t[2]]
      BY <2>3, <2>4
    <3>2. Ciclo!Transiciones = Transiciones
      BY DEF Ciclo!Transiciones, Transiciones
    <3> QED BY <3>1, <3>2 DEF Ciclo!Pasar
  <2> QED BY <2>5 DEF Ciclo!Next
<1>2. CASE Crea
  <2>1. PICK p \in Pids :
          /\ p \notin finalizados /\ \A e \in EstadoProceso : ~En(p, e)
          /\ Agregado(p) /\ UNCHANGED finalizados
    BY <1>2 DEF Crea
  <2>2. EstadoDe(p) = "SIN_CREAR" /\ EstadoDe(p)' = "NEW"
    BY <2>1 DEF Lecturas, Agregado, EstadoProceso
  <2>3. \A q \in Pids \ {p} : EstadoDe(q)' = EstadoDe(q)
    <3> SUFFICES ASSUME NEW q \in Pids \ {p} PROVE EstadoDe(q)' = EstadoDe(q)
      OBVIOUS
    <3>1. \A e \in EstadoProceso : En(q, e)' <=> En(q, e)
      BY <2>1 DEF Agregado
    <3> QED BY <1>0, <2>1, <3>1 DEF Lecturas
  <2>4. Ciclo!Crear(p)
    <3>1. estado[p] = "SIN_CREAR" /\ estado' = [estado EXCEPT ![p] = "NEW"]
      BY <2>2, <2>3
    <3> QED BY <3>1 DEF Ciclo!Crear
  <2> QED BY <2>4 DEF Ciclo!Next
<1>3. CASE Libera
  <2>1. PICK p \in Pids : En(p, "EXIT") /\ Sacado(p) /\ finalizados' = finalizados \cup {p}
    BY <1>3 DEF Libera
  <2>2. EstadoDe(p) = "EXIT" /\ EstadoDe(p)' = "FINALIZADO"
    BY <2>1 DEF Lecturas, EstadoProceso
  <2>3. \A q \in Pids \ {p} : EstadoDe(q)' = EstadoDe(q)
    <3> SUFFICES ASSUME NEW q \in Pids \ {p} PROVE EstadoDe(q)' = EstadoDe(q)
      OBVIOUS
    <3>1. /\ \A e \in EstadoProceso : En(q, e)' <=> En(q, e)
          /\ q \in finalizados' <=> q \in finalizados
      BY <2>1 DEF Sacado
    <3> QED BY <1>0, <3>1 DEF Lecturas
  <2>4. Ciclo!Finalizar(p)
    <3>1. estado[p] = "EXIT" /\ estado' = [estado EXCEPT ![p] = "FINALIZADO"]
      BY <2>2, <2>3
    <3> QED BY <3>1 DEF Ciclo!Finalizar
  <2> QED BY <2>4 DEF Ciclo!Next
<1>4. CASE Deja
  <2>1. estado' = estado
    BY <1>4 DEF Deja, EstadoDe, En
  <2> QED BY <2>1
<1> QED BY <1>1, <1>2, <1>3, <1>4

(* The initial lists are an initial state of the life-cycle.               *)
LEMMA InicioImplementa == Init => Ciclo!Init
<1> SUFFICES ASSUME Init PROVE Ciclo!Init
  OBVIOUS
<1>1. 0 \in Pids /\ "NEW" \in EstadoProceso
  BY ConstantesOk DEF Pids, ConstantesOk, EstadoProceso
<1>2. \A p \in Pids : \A e \in EstadoProceso : En(p, e) <=> p = 0 /\ e = "NEW"
  <2>1. \A p : (Contains(<<0>>, p) <=> p = 0) /\ ~Contains(<<>>, p)
    BY DEF Contains
  <2>2. \A e \in EstadoProceso : lista[e] = IF e = "NEW" THEN <<0>> ELSE <<>>
    BY DEF Init
  <2> QED BY <2>1, <2>2 DEF En
<1>3. Lecturas
  BY Inv1Init, DueniosInit, LecturasDeInv2 DEF Inv2
<1>4. finalizados = {}
  BY DEF Init
<1>5. \A q \in Pids : EstadoDe(q) = IF q = 0 THEN "NEW" ELSE "SIN_CREAR"
  BY <1>1, <1>2, <1>3, <1>4 DEF Lecturas
<1> QED BY <1>1, <1>5 DEF Ciclo!Init

(* Every behaviour of the planners, the CPUs' threads, the dump threads,   *)
(* the IO side and the timers is one of CicloDeVida up to the step that    *)
(* leaves a PCB in two lists: each step moves one process at most, along   *)
(* an edge of the diagram, and a freed process stays freed.                *)
THEOREM CicloDeVidaCumplido == Spec => CumpleCicloDeVida
<1>1. InvDuenios /\ InvDuenios' /\ [Next]_vars =>
        [Ciclo!Next \/ doble']_<<[p \in Pids |-> EstadoDe(p)]>>
  <2> SUFFICES ASSUME InvDuenios, InvDuenios', [Next]_vars, ~doble'
               PROVE  [Ciclo!Next]_([p \in Pids |-> EstadoDe(p)])
    OBVIOUS
  <2>1. CASE Next
    <3>1. Inv2 /\ Inv2'
      BY <2>1 DEF Next, InvDuenios, Inv2
    <3>2. Inv2 => Lecturas
      BY LecturasDeInv2
    <3>3. Inv2' => Lecturas'
      BY LecturasDeInv2, PTL
    <3> QED BY <3>1, <3>2, <3>3, PasoDelCiclo, PasoImplementa
  <2>2. CASE UNCHANGED vars
    BY <2>2 DEF vars, EstadoDe, En
  <2> QED BY <2>1, <2>2
<1> QED BY <1>1, InicioImplementa, InvarianteDuenios, PTL DEF Spec, CumpleCicloDeVida

------------------------------------------------------------------------------
(* The order of the queues.  Process q may stand before p in the list of   *)
(* state e:                                                                *)
Antes(e, q, p) ==
  /\ e = "READY" /\ ALGORITMO_CORTO_PLAZO = "SJF" => MenorEstimacion(q, p)
  /\ e \in {"NEW", "SUSP_READY"} /\ ALGORITMO_INGRESO_A_READY = "PMCP" =>
       pcb[q].peso <= pcb[p].peso

EnSuOrden(e) ==
  \A q, p \in Pids : \A i, j \in 1 .. Len(lista[e]) :
    i < j /\ lista[e][i] = q /\ lista[e][j] = p => Antes(e, q, p)

Orden == \A e \in EstadoProceso : EnSuOrden(e)

LEMMA OrdenDaColas == TypeOK /\ Orden => ColasOrdenadas
<1> SUFFICES ASSUME TypeOK, Orden PROVE ColasOrdenadas
  OBVIOUS
<1>1. \A e \in EstadoProceso : \A i \in 1 .. Len(lista[e]) : lista[e][i] \in Pids
  BY Largos, ElementOfSeq
<1>2. {"READY", "NEW", "SUSP_READY"} \subseteq EstadoProceso
  BY DEF EstadoProceso
<1>3. ASSUME NEW e \in {"READY", "NEW", "SUSP_READY"},
             NEW i \in 1 .. Len(lista[e]), NEW j \in 1 .. Len(lista[e]), i < j
      PROVE  Antes(e, lista[e][i], lista[e][j])
  <2>1. EnSuOrden(e) /\ lista[e][i] \in Pids /\ lista[e][j] \in Pids
    BY <1>1, <1>2 DEF Orden
  <2> QED BY <1>3, <2>1 DEF EnSuOrden
<1> QED BY <1>3 DEF ColasOrdenadas, Antes

(* The estimate of a process that waits in READY and the size of a created *)
(* one do not change.                                                      *)
PcbQuieto ==
  \A q \in Pids : /\ En(q, "READY")' => pcb'[q].est = pcb[q].est
                  /\ q < id_pcb_generador => pcb'[q].peso = pcb[q].peso

LEMMA PcbEnCola == Inv2 /\ (doble' \/ Duenios') /\ [Next]_vars => PcbQuieto
<1> SUFFICES ASSUME Inv2, doble' \/ Duenios', [Next]_vars PROVE PcbQuieto
  OBVIOUS
<1>0. TypeOK /\ Duenios /\ Inv1
  BY DEF Inv2, Inv1
<1>a. pcb \in TipoPcb /\ id_pcb_generador \in Nat /\ id_pcb_generador \notin finalizados
  BY <1>0, ConstantesOk DEF TypeOK, Duenios, LiberadosCreados, ConstantesOk
<1>1. CASE UNCHANGED pcb
  BY <1>1 DEF PcbQuieto
<1>2. ASSUME NEW p \in Pids, En(p, "BLOCKED")', ~doble', NEW x, NEW m, NEW b,
             \/ pcb' = [pcb EXCEPT ![p].motivo = m, ![p].est = x, ![p].olvidado = b]
             \/ pcb' = [pcb EXCEPT ![p].est = x]
      PROVE  PcbQuieto
  <2>1. ~En(p, "READY")'
    BY <1>2 DEF Duenios, UnaLista, EstadoProceso
  <2>2. \A q \in Pids : /\ pcb'[q].peso = pcb[q].peso
                        /\ q # p => pcb'[q].est = pcb[q].est
    BY <1>a, <1>2 DEF TipoPcb
  <2> QED BY <2>1, <2>2 DEF PcbQuieto
<1>3. ASSUME NEW p \in Pids, NEW de \in EstadoProceso, Pasar(p, de, "BLOCKED"),
             En(p, de), de # "BLOCKED"
      PROVE  En(p, "BLOCKED")'
  BY <1>3, MoverListas DEF Movido, EstadoProceso
<1>4. ASSUME NEW c \in Cpus, AtenderIO(c) \/ AtenderIOAusente(c), ~doble PROVE PcbQuieto
  <2>1. PICK p \in Pids : p = Head(syscall[c]).p
    BY <1>0, <1>4, RecibeProps DEF AtenderIO, AtenderIOAusente
  <2>2. En(p, "EXEC") /\ Pasar(p, "EXEC", "BLOCKED")
    BY <1>4, <2>1 DEF AtenderIO, AtenderIOAusente
  <2>3. PICK x \in Estimaciones, b \in BOOLEAN :
          pcb' = [pcb EXCEPT ![p].motivo = "IO", ![p].est = x, ![p].olvidado = b]
    BY <1>4, <2>1 DEF AtenderIO, AtenderIOAusente
  <2>4. ~doble'
    BY <1>4 DEF AtenderIO, AtenderIOAusente
  <2> QED BY <1>2, <1>3, <2>2, <2>3, <2>4 DEF EstadoProceso
<1>5. ASSUME NEW c \in Cpus, AtenderInit(c) PROVE PcbQuieto
  <2>1. \A q \in Pids : q # id_pcb_generador => pcb'[q] = pcb[q]
    BY <1>a, <1>5 DEF AtenderInit, TipoPcb
  <2>2. \A q \in Pids : pcb'[q].est = pcb[q].est
    BY <1>a, <1>5 DEF AtenderInit, TipoPcb
  <2> QED BY <1>a, <2>1, <2>2 DEF PcbQuieto, Pids
<1>6. ASSUME NEW c \in Cpus, AtenderDump(c) PROVE PcbQuieto
  <2>1. \A q \in Pids : pcb'[q].est = pcb[q].est /\ pcb'[q].peso = pcb[q].peso
    BY <1>a, <1>6 DEF AtenderDump, TipoPcb
  <2> QED BY <2>1 DEF PcbQuieto
<1>7. ASSUME NEW p \in Pids, DumpPide(p), ~doble PROVE PcbQuieto
  <2>1. Tiene("dump", Nadie, p)
    BY <1>7 DEF DumpPide, Tiene
  <2>2. En(p, "EXEC") /\ Pasar(p, "EXEC", "BLOCKED")
    BY <1>0, <1>7, <2>1 DEF Duenios, EnManosEnExec, DumpPide, Manos, Lugares
  <2>3. PICK x \in Estimaciones : pcb' = [pcb EXCEPT ![p].est = x]
    BY <1>7 DEF DumpPide
  <2>4. ~doble'
    BY <1>7 DEF DumpPide
  <2> QED BY <1>2, <1>3, <2>2, <2>3, <2>4 DEF EstadoProceso
<1>8. CASE NewAReady \/ ExitAFin \/ PlanificacionCorto \/ UNCHANGED vars
  <2>1. NewAReady => UNCHANGED pcb
    BY DEF NewAReady, NarToma, NarElige, NarHayEspacio, NarSinEspacio, NarDespierta, NarCrea,
       NarRecierra, NarDesuspende, MemoriaCalla, NarPasa
  <2>2. ExitAFin => UNCHANGED pcb
    BY DEF ExitAFin, EafToma, EafElige, EafConecta, EafResponde, EafFinaliza
  <2>3. PlanificacionCorto => UNCHANGED pcb
    BY DEF PlanificacionCorto, CortoEsperaCpu, CortoEsperaReady, CortoElige, CortoSaca,
       CortoAsigna
  <2> QED BY <1>1, <1>8, <2>1, <2>2, <2>3 DEF vars
<1>9. ASSUME NEW c \in Cpus, Cpu(c) \/ EsperaRtaCpu(c), ~doble PROVE PcbQuieto
  <2>1. Cpu(c) => UNCHANGED pcb
    BY DEF Cpu, CpuPideExit, CpuPideInit, CpuPideBloqueo
  <2>2. AtenderExit(c) \/ AtenderIOInvalida(c) \/ LanzarDump(c) \/ LiberarCpu(c) => UNCHANGED pcb
    BY DEF AtenderExit, AtenderIOInvalida, LanzarDump, LiberarCpu
  <2> QED BY <1>1, <1>4, <1>5, <1>6, <1>9, <2>1, <2>2 DEF EsperaRtaCpu
<1>10. ASSUME NEW p \in Pids, HiloDump(p) \/ LadoIO(p) \/ HiloTimer(p), ~doble PROVE PcbQuieto
  <2>1. CASE DumpPide(p)
    BY <1>7, <1>10, <2>1
  <2>2. CASE PierdeAviso(p)
    <3>1. \A q \in Pids : pcb'[q].est = pcb[q].est /\ pcb'[q].peso = pcb[q].peso
      BY <1>a, <2>2 DEF PierdeAviso, TipoPcb
    <3> QED BY <3>1 DEF PcbQuieto
  <2>3. CASE ~DumpPide(p) /\ ~PierdeAviso(p)
    <3>1. UNCHANGED pcb
      BY <1>10, <2>3 DEF HiloDump, DumpConfirmado, DumpFallido, DumpSinRespuesta, LadoIO,
         AtiendeIO, RespondeIO, RespondeIOSuspendido, DesconectaIO, CortaMira, CortaMueve,
         HiloTimer, TimerMira, TimerTermina, TimerAvisa, TimerMueve
    <3> QED BY <1>1, <3>1
  <2> QED BY <2>1, <2>2, <2>3
<1> QED BY <1>8, <1>9, <1>10 DEF Next

(* Where list_add_sorted puts p, p is in order.                            *)
LEMMA PosicionesOrden ==
  ASSUME TypeOK, NEW e \in EstadoProceso, NEW p \in Pids, NEW i \in Posiciones(e, p), ~En(p, e),
         NEW n \in 1 .. Len(lista[e]), NEW q \in Pids, lista[e][n] = q
  PROVE  (n < i => Antes(e, q, p)) /\ (n >= i => Antes(e, p, q))
<1>1. /\ pcb[p].est \in Int /\ pcb[q].est \in Int /\ pcb[p].peso \in Int /\ pcb[q].peso \in Int
      /\ p \in Int /\ q \in Int /\ n \in Int
  BY DEF TypeOK, TipoPcb, Pids
<1>2. i \in Int
  BY PosicionesTipo, Largos
<1>3. p # q
  BY DEF En, Contains
<1>4. ASSUME e = "READY", ALGORITMO_CORTO_PLAZO = "SJF"
      PROVE  (n < i => MenorEstimacion(q, p)) /\ (n >= i => MenorEstimacion(p, q))
  <2>1. n < i <=> MenorEstimacion(q, p)
    BY <1>4 DEF Posiciones
  <2>2. MenorEstimacion(q, p) \/ MenorEstimacion(p, q)
    BY <1>1, <1>3 DEF MenorEstimacion
  <2> QED BY <1>1, <1>2, <2>1, <2>2
<1>5. ASSUME e \in {"NEW", "SUSP_READY"}, ALGORITMO_INGRESO_A_READY = "PMCP"
      PROVE  (n < i => pcb[q].peso <= pcb[p].peso) /\ (n >= i => pcb[p].peso <= pcb[q].peso)
  <2>1. IF n < i THEN pcb[q].peso <= pcb[p].peso ELSE pcb[p].peso <= pcb[q].peso
    BY <1>5 DEF Posiciones
  <2> QED BY <1>1, <1>2, <2>1
<1> QED BY <1>4, <1>5 DEF Antes

(* Two listed processes that were in order still are.                      *)
LEMMA AntesSigue ==
  ASSUME Inv2, PcbQuieto, NEW e \in EstadoProceso, NEW q \in Pids, NEW p \in Pids,
         En(q, e)', En(p, e)', q < id_pcb_generador, p < id_pcb_generador
  PROVE  Antes(e, q, p) <=> Antes(e, q, p)'
BY DEF PcbQuieto, Antes, MenorEstimacion

LEMMA ListadosCreados ==
  Inv2 => \A p \in Pids : \A e \in EstadoProceso : En(p, e) => p < id_pcb_generador
BY DEF Inv2, Duenios, Listados, Creado

(* A list that only lost elements, or none.                                *)
LEMMA OrdenSinNuevos ==
  ASSUME Inv2, lista' \in TipoLista, Orden, PcbQuieto, NEW e \in EstadoProceso,
         \A j, k \in 1 .. Len(lista'[e]) : j < k => EnOrden(lista'[e], j, k, lista[e])
  PROVE  EnSuOrden(e)'
<1> SUFFICES ASSUME NEW q \in Pids, NEW p \in Pids,
                    NEW j \in 1 .. Len(lista'[e]), NEW k \in 1 .. Len(lista'[e]),
                    j < k, lista'[e][j] = q, lista'[e][k] = p
             PROVE  Antes(e, q, p)'
  BY DEF EnSuOrden
<1>1. PICK m, n \in 1 .. Len(lista[e]) : m < n /\ q = lista[e][m] /\ p = lista[e][n]
  BY DEF EnOrden
<1>2. Antes(e, q, p)
  BY <1>1 DEF Orden, EnSuOrden
<1>3. En(q, e) /\ En(p, e) /\ En(q, e)' /\ En(p, e)'
  BY <1>1 DEF En, Contains
<1> QED BY <1>2, <1>3, AntesSigue, ListadosCreados

(* A list that process p entered where its order puts it.                  *)
LEMMA OrdenConNuevo ==
  ASSUME Inv2, Orden, PcbQuieto, NEW e \in EstadoProceso, NEW p \in Pids,
         NEW i \in 1 .. Len(lista[e]) + 1, lista'[e] = InsertAt(lista[e], i, p),
         \A n \in 1 .. Len(lista[e]) : \A q \in Pids : lista[e][n] = q =>
           (n < i => Antes(e, q, p)') /\ (n >= i => Antes(e, p, q)')
  PROVE  EnSuOrden(e)'
<1>0. lista[e] \in Seq(Pids)
  BY Largos DEF Inv2, Inv1
<1> SUFFICES ASSUME NEW q \in Pids, NEW r \in Pids,
                    NEW j \in 1 .. Len(lista'[e]), NEW k \in 1 .. Len(lista'[e]),
                    j < k, lista'[e][j] = q, lista'[e][k] = r
             PROVE  Antes(e, q, r)'
  BY DEF EnSuOrden
<1>1. \/ EnOrden(lista'[e], j, k, lista[e])
      \/ q = p /\ \E n \in 1 .. Len(lista[e]) : n >= i /\ r = lista[e][n]
      \/ r = p /\ \E m \in 1 .. Len(lista[e]) : m < i /\ q = lista[e][m]
  <2> DEFINE t == InsertAt(lista[e], i, p)
  <2>1. \A x, y \in 1 .. Len(t) : x < y =>
          \/ EnOrden(t, x, y, lista[e])
          \/ t[x] = p /\ \E n \in 1 .. Len(lista[e]) : n >= i /\ t[y] = lista[e][n]
          \/ t[y] = p /\ \E m \in 1 .. Len(lista[e]) : m < i /\ t[x] = lista[e][m]
    BY <1>0, PonerOrden, SMTT(60)
  <2>2. t = lista'[e] /\ j \in 1 .. Len(t) /\ k \in 1 .. Len(t) /\ t[j] = q /\ t[k] = r
    OBVIOUS
  <2> HIDE DEF t
  <2>3. \/ EnOrden(t, j, k, lista[e])
        \/ t[j] = p /\ \E n \in 1 .. Len(lista[e]) : n >= i /\ t[k] = lista[e][n]
        \/ t[k] = p /\ \E m \in 1 .. Len(lista[e]) : m < i /\ t[j] = lista[e][m]
    BY <2>1, <2>2
  <2> QED BY <2>2, <2>3
<1>2. CASE EnOrden(lista'[e], j, k, lista[e])
  <2>1. PICK m, n \in 1 .. Len(lista[e]) : m < n /\ q = lista[e][m] /\ r = lista[e][n]
    BY <1>2 DEF EnOrden
  <2>2. Antes(e, q, r)
    BY <2>1 DEF Orden, EnSuOrden
  <2>3. En(q, e) /\ En(r, e) /\ En(q, e)' /\ En(r, e)'
    BY <2>1 DEF En, Contains
  <2> QED BY <2>2, <2>3, AntesSigue, ListadosCreados
<1> QED BY <1>1, <1>2

LEMMA PasoOrden == Inv2 /\ InvDuenios' /\ Orden /\ [Next]_vars => Orden'
<1> SUFFICES ASSUME Inv2, InvDuenios', Orden, [Next]_vars, NEW e \in EstadoProceso
             PROVE  EnSuOrden(e)'
  BY DEF Orden
<1>0. TypeOK /\ TypeOK' /\ UnaLista
  BY DEF Inv2, InvDuenios, Inv1, Duenios
<1>a. lista \in [EstadoProceso -> Seq(Pids)] /\ lista' \in TipoLista
  BY <1>0 DEF TypeOK, TipoLista
<1>b. PcbQuieto
  BY PcbEnCola DEF InvDuenios
<1>c. ASSUME lista'[e] = lista[e] PROVE EnSuOrden(e)'
  <2>1. \A j, k \in 1 .. Len(lista'[e]) : j < k => EnOrden(lista'[e], j, k, lista[e])
    BY <1>c DEF EnOrden
  <2> QED BY <1>a, <1>b, <2>1, OrdenSinNuevos
<1>d. ASSUME NEW p \in Pids, lista'[e] = RemoveFirst(lista[e], p) PROVE EnSuOrden(e)'
  <2>1. \A j, k \in 1 .. Len(lista'[e]) : j < k => EnOrden(lista'[e], j, k, lista[e])
    BY <1>a, <1>d, SacarOrden
  <2> QED BY <1>a, <1>b, <2>1, OrdenSinNuevos
<1>e. Mueve \/ Crea \/ Libera \/ Deja \/ Dobla
  BY PasoDelCiclo
<1>1. CASE Mueve
  <2>1. PICK p \in Pids, t \in Transiciones :
          En(p, t[1]) /\ Pasar(p, t[1], t[2]) /\ Movido(p, t[2]) /\ UNCHANGED finalizados
    BY <1>1 DEF Mueve
  <2>2. t[1] \in EstadoProceso /\ t[2] \in EstadoProceso /\ t[1] # t[2]
    BY DEF Transiciones, EstadoProceso
  <2>3. PICK i \in Posiciones(t[2], p) :
          lista' = [lista EXCEPT ![t[1]] = RemoveFirst(@, p), ![t[2]] = InsertAt(@, i, p)]
    BY <2>1 DEF Pasar
  <2>4. CASE e = t[1]
    BY <1>a, <1>d, <2>2, <2>3, <2>4
  <2>5. CASE e # t[1] /\ e # t[2]
    BY <1>a, <1>c, <2>2, <2>3, <2>5
  <2>6. CASE e = t[2]
    <3>1. lista'[e] = InsertAt(lista[e], i, p) /\ i \in Posiciones(e, p)
      BY <1>a, <2>2, <2>3, <2>6
    <3>2. ~En(p, e) /\ En(p, e)'
      BY <1>0, <2>1, <2>2, <2>6 DEF UnaLista, Movido
    <3>3. i \in 1 .. Len(lista[e]) + 1
      BY <1>0, <3>1, PosicionesTipo
    <3>4. \A n \in 1 .. Len(lista[e]) : \A q \in Pids : lista[e][n] = q =>
            (n < i => Antes(e, q, p)') /\ (n >= i => Antes(e, p, q)')
      <4> SUFFICES ASSUME NEW n \in 1 .. Len(lista[e]), NEW q \in Pids, lista[e][n] = q
                   PROVE  (n < i => Antes(e, q, p)') /\ (n >= i => Antes(e, p, q)')
        OBVIOUS
      <4>1. (n < i => Antes(e, q, p)) /\ (n >= i => Antes(e, p, q))
        BY <1>0, <3>1, <3>2, PosicionesOrden
      <4>2. q # p /\ En(q, e) /\ En(q, e)'
        BY <2>1, <3>2 DEF En, Contains, Movido
      <4>3. q < id_pcb_generador /\ p < id_pcb_generador
        BY <2>1, <2>2, <4>2, ListadosCreados
      <4> QED BY <1>b, <3>2, <4>1, <4>2, <4>3, AntesSigue
    <3> QED BY <1>b, <3>1, <3>3, <3>4, OrdenConNuevo
  <2> QED BY <2>4, <2>5, <2>6
<1>2. CASE Crea
  <2>1. PICK p \in Pids, i \in 1 .. Len(lista["NEW"]) + 1 :
          /\ \A f \in EstadoProceso : ~En(p, f)
          /\ PorPeso(p, i) /\ lista' = [lista EXCEPT !["NEW"] = InsertAt(@, i, p)]
    BY <1>2 DEF Crea
  <2>2. CASE e # "NEW"
    BY <1>a, <1>c, <2>1, <2>2
  <2>3. CASE e = "NEW"
    <3>1. lista'[e] = InsertAt(lista[e], i, p) /\ i \in 1 .. Len(lista[e]) + 1
      BY <1>a, <2>1, <2>3
    <3>2. \A n \in 1 .. Len(lista[e]) : \A q \in Pids : lista[e][n] = q =>
            (n < i => Antes(e, q, p)') /\ (n >= i => Antes(e, p, q)')
      <4> SUFFICES ASSUME NEW n \in 1 .. Len(lista[e]), NEW q \in Pids, lista[e][n] = q
                   PROVE  (n < i => Antes(e, q, p)') /\ (n >= i => Antes(e, p, q)')
        OBVIOUS
      <4>1. pcb'[q].peso = pcb[q].peso
        <5>1. En(q, e)
          BY DEF En, Contains
        <5> QED BY <1>b, <5>1, ListadosCreados DEF PcbQuieto
      <4>2. ALGORITMO_INGRESO_A_READY = "PMCP" =>
              IF n < i THEN pcb'[q].peso <= pcb'[p].peso ELSE pcb'[p].peso <= pcb'[q].peso
        BY <2>1, <2>3, <4>1 DEF PorPeso
      <4>3. n \in Int /\ i \in Int
        BY <1>0, <2>1, <2>3, Largos
      <4> QED BY <2>3, <4>2, <4>3 DEF Antes
    <3> QED BY <1>b, <3>1, <3>2, OrdenConNuevo
  <2> QED BY <2>2, <2>3
<1>3. CASE Libera
  <2>1. PICK p \in Pids : lista' = [lista EXCEPT !["EXIT"] = RemoveFirst(@, p)]
    BY <1>3 DEF Libera
  <2>2. lista'[e] = RemoveFirst(lista[e], p) \/ lista'[e] = lista[e]
    BY <1>a, <2>1
  <2> QED BY <1>c, <1>d, <2>2
<1>4. CASE Deja
  BY <1>c, <1>4 DEF Deja
<1>5. CASE Dobla
  <2>1. PICK p \in Pids, de \in {"BLOCKED", "SUSP_BLOCKED"}, a \in {"READY", "EXIT", "SUSP_BLOCKED"} :
          Pasar(p, de, a) /\ de # a /\ (a = "READY" => dump[p].pc = "espera")
    BY <1>5 DEF Dobla
  <2>2. de \in EstadoProceso /\ a \in EstadoProceso
    BY DEF EstadoProceso
  <2>3. PICK i \in Posiciones(a, p) :
          lista' = [lista EXCEPT ![de] = RemoveFirst(@, p), ![a] = InsertAt(@, i, p)]
    BY <2>1 DEF Pasar
  <2>4. CASE e = de
    BY <1>a, <1>d, <2>1, <2>2, <2>3, <2>4
  <2>5. CASE e # de /\ e # a
    BY <1>a, <1>c, <2>2, <2>3, <2>5
  <2>6. CASE e = a /\ a # "READY"
    BY <2>6 DEF EnSuOrden, Antes
  <2>7. CASE e = a /\ a = "READY"
    <3>1. lista'[e] = InsertAt(lista[e], i, p) /\ i \in Posiciones(e, p)
      BY <1>a, <2>1, <2>2, <2>3, <2>7
    <3>2. ~En(p, e) /\ p < id_pcb_generador
      <4>1. Retenido(p)
        BY <2>1, <2>7 DEF Inv2, Duenios, DumpBloquea
      <4>2. p < id_pcb_generador
        BY <4>1, ListadosCreados DEF Retenido, EstadoProceso
      <4> QED BY <1>0, <2>7, <4>1, <4>2 DEF UnaLista, Retenido, EstadoProceso
    <3>3. i \in 1 .. Len(lista[e]) + 1 /\ lista[e] \in Seq(Pids)
      BY <1>0, <1>a, <3>1, PosicionesTipo
    <3>4. En(p, e)' /\ \A q \in Pids : En(q, e) => En(q, e)'
      BY <3>1, <3>3, PonerProps DEF En
    <3>5. \A n \in 1 .. Len(lista[e]) : \A q \in Pids : lista[e][n] = q =>
            (n < i => Antes(e, q, p)') /\ (n >= i => Antes(e, p, q)')
      <4> SUFFICES ASSUME NEW n \in 1 .. Len(lista[e]), NEW q \in Pids, lista[e][n] = q
                   PROVE  (n < i => Antes(e, q, p)') /\ (n >= i => Antes(e, p, q)')
        OBVIOUS
      <4>1. (n < i => Antes(e, q, p)) /\ (n >= i => Antes(e, p, q))
        BY <1>0, <3>1, <3>2, PosicionesOrden
      <4>2. En(q, e) /\ En(q, e)'
        BY <3>4 DEF En, Contains
      <4>3. q < id_pcb_generador
        BY <4>2, ListadosCreados
      <4> QED BY <1>b, <3>2, <3>4, <4>1, <4>2, <4>3, AntesSigue
    <3> QED BY <1>b, <3>1, <3>3, <3>5, OrdenConNuevo
  <2> QED BY <2>4, <2>5, <2>6, <2>7
<1> QED BY <1>e, <1>1, <1>2, <1>3, <1>4, <1>5

(* READY stays sorted by estimate under SJF, NEW and SUSP_READY by size    *)
(* under PMCP: whoever inserts does it in order, and nobody changes the    *)
(* estimate or the size of a process that waits in one of them.            *)
THEOREM ColasEnOrden == Spec => []ColasOrdenadas
<1>1. Init => Orden
  <2> SUFFICES ASSUME Init, NEW e \in EstadoProceso PROVE EnSuOrden(e)
    BY DEF Orden
  <2>1. Len(lista[e]) \in {0, 1}
    BY DEF Init
  <2>2. \A n \in {0, 1} : \A i, j \in 1 .. n : ~(i < j)
    OBVIOUS
  <2> QED BY <2>1, <2>2 DEF EnSuOrden
<1>2. InvDuenios /\ InvDuenios' /\ Orden /\ [Next]_vars => Orden'
  <2> SUFFICES ASSUME InvDuenios, InvDuenios', Orden, [Next]_vars PROVE Orden'
    OBVIOUS
  <2>1. CASE Next
    <3>1. Inv2
      BY <2>1 DEF Next, InvDuenios, Inv2
    <3> QED BY <3>1, PasoOrden
  <2>2. CASE UNCHANGED vars
    BY <2>2 DEF vars, Orden, EnSuOrden, Antes, MenorEstimacion
  <2> QED BY <2>1, <2>2
<1>3. InvDuenios /\ Orden => ColasOrdenadas
  BY OrdenDaColas DEF InvDuenios, Inv1
<1> QED BY <1>1, <1>2, <1>3, InvarianteDuenios, PTL DEF Spec
==============================================================================
