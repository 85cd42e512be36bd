------------------------------ MODULE ManejoIO ------------------------------
(***************************************************************************)
(* The IO devices: the queue of requests of the kernel, the thread that    *)
(* looks for a free device (conexion_con_io), one thread per busy device   *)
(* (esperar_rta_io), and the IO programs, which connect, serve one request *)
(* at a time and may be stopped at any moment.                             *)
(*                                                                         *)
(* A device is taken by three steps of one thread and given back by two    *)
(* writes of another, each under mutex_io but not together.  What the      *)
(* planners do with a process is reduced to the list that holds it; the    *)
(* suspension timer, which Suspension models, to its effect.               *)
(***************************************************************************)
EXTENDS Naturals, Sequences, FiniteSets, SequencesExt

CONSTANTS Procesos,
          Disp,       \* the IO programs that may connect, each once
          Nombre,     \* the name each gives
          MaxHilos,   \* bound: threads esperar_rta_io at a time
          MaxUsos,    \* bound: requests of each process
          SeSuspenden, \* bound: the processes whose timer may expire
          Nadie       \* no process, device or name

ASSUME IOsOk == /\ MaxHilos \in Nat /\ MaxUsos \in [Procesos -> Nat]
                /\ SeSuspenden \subseteq Procesos
                /\ Nadie \notin Procesos \cup Disp \cup {Nombre[d] : d \in Disp}

Hilos   == 1 .. MaxHilos
Nombres == {Nombre[d] : d \in Disp}

VARIABLES
  donde,     \* the lists of the kernel that hold each process
  pide,      \* the device a process is in SISCALL_IO for
  usos,
  ios,       \* ios_conectadas
  ocupado, actual,  \* io->ocupado, io->proceso_actual
  liberada,  \* the io_conectada was freed
  pedidos,   \* procesos_esperando_ios
  sem,       \* sem_proceso_bloqueado_por_io
  buscador,  \* conexion_con_io
  hilo,      \* the threads esperar_rta_io
  modulo,    \* each IO program and its socket
  caido,     \* the kernel used a null pointer or freed memory
  choque     \* history: a device in use was marked free

varsProc == <<donde, pide, usos>>
varsDisp == <<ios, ocupado, actual, liberada>>
vars == <<varsProc, varsDisp, pedidos, sem, buscador, hilo, modulo, caido, choque>>

SinHilo == [paso |-> "no", disp |-> Nadie, nueva |-> Nadie, de |-> Nadie,
            bucle |-> FALSE, susp |-> FALSE]
Duerme  == [paso |-> "duerme", disp |-> Nadie, nueva |-> Nadie]

Init == /\ donde = [p \in Procesos |-> {"EXEC"}]
        /\ pide = [p \in Procesos |-> Nadie] /\ usos = [p \in Procesos |-> 0]
        /\ ios = <<>>
        /\ ocupado = [d \in Disp |-> FALSE] /\ actual = [d \in Disp |-> Nadie]
        /\ liberada = [d \in Disp |-> FALSE]
        /\ pedidos = <<>> /\ sem = 0
        /\ buscador = Duerme
        /\ hilo = [h \in Hilos |-> SinHilo]
        /\ modulo = [d \in Disp |-> [vida |-> "no", envio |-> <<>>, rta |-> <<>>]]
        /\ caido = FALSE /\ choque = FALSE

(* pasar_proceso_de_estado_a_otro.                                         *)
Pasa(p, de, a) == donde' = [donde EXCEPT ![p] = (@ \ {de}) \cup {a}]

Conectada(n) == \E d \in ToSet(ios) : Nombre[d] = n

(* tomar_proximo_req_de_io: the first request for the name.                *)
Lugares(n) == {i \in DOMAIN pedidos : pedidos[i].nombre = n}
Primero(n) == CHOOSE i \in Lugares(n) : \A j \in Lugares(n) : i <= j
Proximo(n) == IF Lugares(n) = {} THEN Nadie ELSE pedidos[Primero(n)].proceso
TomaProximo(n) ==
  pedidos' = IF Lugares(n) = {} THEN pedidos ELSE RemoveAt(pedidos, Primero(n))

(* crear_msj_y_mandarselo_a_io: lost if the program is no longer there.    *)
Manda(d, p) ==
  modulo' = [modulo EXCEPT ![d].envio =
               IF modulo[d].vida = "viva" THEN Append(@, p) ELSE @]

Cae == /\ ~caido /\ caido' = TRUE
       /\ UNCHANGED <<varsProc, varsDisp, pedidos, sem, buscador, hilo, modulo, choque>>

------------------------------------------------------------------------------
(* SISCALL_IO.  es_valida_io looks for the name among the connected        *)
(* devices; when it is not there its answer is undefined.                  *)

Corre(p) == ~caido /\ "EXEC" \in donde[p] /\ pide[p] = Nadie

PideIO(p, n) ==
  /\ Corre(p) /\ usos[p] < MaxUsos[p]
  /\ Pasa(p, "EXEC", "BLOCKED")
  /\ pide' = [pide EXCEPT ![p] = n]
  /\ usos' = [usos EXCEPT ![p] = @ + 1]
  /\ UNCHANGED <<varsDisp, pedidos, sem, buscador, hilo, modulo, caido, choque>>

PideIOInvalida(p, n) ==
  /\ Corre(p) /\ usos[p] < MaxUsos[p]
  /\ ~Conectada(n)
  /\ Pasa(p, "EXEC", "EXIT")
  /\ UNCHANGED <<pide, usos, varsDisp, pedidos, sem, buscador, hilo, modulo,
                 caido, choque>>

EncolaIO(p) ==
  /\ ~caido /\ pide[p] # Nadie
  /\ pedidos' = Append(pedidos, [proceso |-> p, nombre |-> pide[p]])
  /\ sem' = sem + 1
  /\ pide' = [pide EXCEPT ![p] = Nadie]
  /\ UNCHANGED <<donde, usos, varsDisp, buscador, hilo, modulo, caido, choque>>

(* The planners take the process to a CPU again; the timer suspends it.    *)
Ejecuta(p) ==
  /\ ~caido /\ \E e \in {"READY", "SUSP_READY"} : donde[p] = {e} /\ Pasa(p, e, "EXEC")
  /\ UNCHANGED <<pide, usos, varsDisp, pedidos, sem, buscador, hilo, modulo,
                 caido, choque>>

Suspende(p) ==
  /\ ~caido /\ p \in SeSuspenden /\ "BLOCKED" \in donde[p]
  /\ Pasa(p, "BLOCKED", "SUSP_BLOCKED")
  /\ UNCHANGED <<pide, usos, varsDisp, pedidos, sem, buscador, hilo, modulo,
                 caido, choque>>

------------------------------------------------------------------------------
(* The IO program d.                                                       *)

(* Its handshake, esperar_ios.                                             *)
Conecta(d) ==
  /\ ~caido /\ modulo[d].vida = "no"
  /\ modulo' = [modulo EXCEPT ![d].vida = "viva"]
  /\ ios' = Append(ios, d)
  /\ sem' = sem + 1
  /\ UNCHANGED <<varsProc, ocupado, actual, liberada, pedidos, buscador, hilo,
                 caido, choque>>

(* esperar_peticiones_kernel: usleep, then the answer.                     *)
Sirve(d) ==
  /\ ~caido /\ modulo[d].vida = "viva" /\ modulo[d].envio # <<>>
  /\ modulo' = [modulo EXCEPT ![d].envio = Tail(@),
                              ![d].rta = Append(@, Head(modulo[d].envio))]
  /\ UNCHANGED <<varsProc, varsDisp, pedidos, sem, buscador, hilo, caido, choque>>

(* manejar_sigint.                                                         *)
Muere(d) ==
  /\ ~caido /\ modulo[d].vida = "viva"
  /\ modulo' = [modulo EXCEPT ![d].vida = "muerta", ![d].envio = <<>>]
  /\ UNCHANGED <<varsProc, varsDisp, pedidos, sem, buscador, hilo, caido, choque>>

------------------------------------------------------------------------------
(* conexion_con_io.                                                        *)

Busca(paso) == ~caido /\ buscador.paso = paso

(* Mutant: the semaphore is not waited for.                                *)
BuscadorNoEspera ==
  /\ Busca("duerme")
  /\ sem' = sem - 1
  /\ buscador' = [buscador EXCEPT !.paso = "busca"]
  /\ UNCHANGED <<varsProc, varsDisp, pedidos, hilo, modulo, caido, choque>>

BuscadorDespierta ==
  /\ Busca("duerme") /\ sem > 0
  /\ sem' = sem - 1
  /\ buscador' = [buscador EXCEPT !.paso = "busca"]
  /\ UNCHANGED <<varsProc, varsDisp, pedidos, hilo, modulo, caido, choque>>

(* busco_si_hay_io_libre_para_req.  When there is none the post is spent.  *)
LibresConReq == {i \in DOMAIN ios : ~ocupado[ios[i]] /\ Lugares(Nombre[ios[i]]) # {}}

BuscadorBusca ==
  /\ Busca("busca")
  /\ buscador' = IF LibresConReq = {} THEN Duerme
                 ELSE [buscador EXCEPT !.paso = "toma",
                         !.disp = ios[CHOOSE i \in LibresConReq :
                                        \A j \in LibresConReq : i <= j]]
  /\ UNCHANGED <<varsProc, varsDisp, pedidos, sem, hilo, modulo, caido, choque>>

BuscadorToma ==
  /\ Busca("toma") /\ ~liberada[buscador.disp]
  /\ TomaProximo(Nombre[buscador.disp])
  /\ buscador' = [buscador EXCEPT !.paso = "ocupa",
                                  !.nueva = Proximo(Nombre[buscador.disp])]
  /\ UNCHANGED <<varsProc, varsDisp, sem, hilo, modulo, caido, choque>>

BuscadorOcupa ==
  /\ Busca("ocupa") /\ ~liberada[buscador.disp]
  /\ buscador.nueva # Nadie
  /\ ocupado' = [ocupado EXCEPT ![buscador.disp] = TRUE]
  /\ actual' = [actual EXCEPT ![buscador.disp] = buscador.nueva]
  /\ buscador' = [buscador EXCEPT !.paso = "envia"]
  /\ UNCHANGED <<varsProc, ios, liberada, pedidos, sem, hilo, modulo, caido, choque>>

(* The request is sent and the thread that waits for its answer created.   *)
BuscadorEnvia(h) ==
  /\ Busca("envia") /\ ~liberada[buscador.disp] /\ hilo[h].paso = "no"
  /\ Manda(buscador.disp, buscador.nueva)
  /\ hilo' = [hilo EXCEPT ![h] = [SinHilo EXCEPT !.paso = "espera",
                                                 !.disp = buscador.disp]]
  /\ buscador' = Duerme
  /\ UNCHANGED <<varsProc, varsDisp, pedidos, sem, caido, choque>>

(* The device it chose was freed, or another device's thread took the      *)
(* request: nueva->proceso.                                                *)
BuscadorCae ==
  /\ \/ buscador.paso \in {"toma", "ocupa", "envia"} /\ liberada[buscador.disp]
     \/ buscador.paso = "ocupa" /\ buscador.nueva = Nadie
  /\ Cae

------------------------------------------------------------------------------
(* esperar_rta_io, thread h, for the device hilo[h].disp.                  *)

D(h) == hilo[h].disp
En(h, paso) == ~caido /\ hilo[h].paso = paso
Sigue(h, paso) == hilo' = [hilo EXCEPT ![h].paso = paso]
Esperan(d) == {h \in Hilos : hilo[h].paso = "espera" /\ D(h) = d}

Recibe(h) ==
  /\ En(h, "espera") /\ modulo[D(h)].rta # <<>>
  /\ hilo' = [hilo EXCEPT ![h].paso = "mueve", ![h].de = Head(modulo[D(h)].rta)]
  /\ modulo' = [modulo EXCEPT ![D(h)].rta = Tail(@)]
  /\ UNCHANGED <<varsProc, varsDisp, pedidos, sem, buscador, caido, choque>>

RecibePerdida(h) ==
  /\ En(h, "espera")
  /\ modulo[D(h)].rta = <<>> /\ modulo[D(h)].vida = "muerta"
  /\ Sigue(h, "pierde")
  /\ UNCHANGED <<varsProc, varsDisp, pedidos, sem, buscador, modulo, caido, choque>>

(* Two threads read one answer, one its code and the other what follows.   *)
LeenMezclado(h) ==
  /\ En(h, "espera") /\ modulo[D(h)].rta # <<>>
  /\ Cardinality(Esperan(D(h))) > 1
  /\ Cae

(* The locked region of mutex_esta_siendo_suspendido.                      *)
Mueve(h) ==
  /\ En(h, "mueve") /\ ~liberada[D(h)] /\ actual[D(h)] # Nadie
  /\ IF "SUSP_BLOCKED" \in donde[actual[D(h)]]
     THEN Pasa(actual[D(h)], "SUSP_BLOCKED", "SUSP_READY")
     ELSE Pasa(actual[D(h)], "BLOCKED", "READY")
  /\ hilo' = [hilo EXCEPT ![h].paso = "toma", ![h].de = Nadie]
  /\ UNCHANGED <<pide, usos, varsDisp, pedidos, sem, buscador, modulo, caido, choque>>

Toma(h) ==
  /\ En(h, "toma") /\ ~liberada[D(h)]
  /\ TomaProximo(Nombre[D(h)])
  /\ hilo' = [hilo EXCEPT ![h].paso = "anota", ![h].nueva = Proximo(Nombre[D(h)])]
  /\ UNCHANGED <<varsProc, varsDisp, sem, buscador, modulo, caido, choque>>

(* Mutant: the device keeps the process it served.                         *)
AnotaElMismo(h) ==
  /\ En(h, "anota") /\ ~liberada[D(h)]
  /\ Sigue(h, IF hilo[h].nueva = Nadie THEN "suelta" ELSE "envia")
  /\ UNCHANGED <<varsProc, varsDisp, pedidos, sem, buscador, modulo, caido, choque>>

(* proceso_actual is the next process, or none.                            *)
Anota(h) ==
  /\ En(h, "anota") /\ ~liberada[D(h)]
  /\ actual' = [actual EXCEPT ![D(h)] = hilo[h].nueva]
  /\ Sigue(h, IF hilo[h].nueva = Nadie THEN "suelta" ELSE "envia")
  /\ UNCHANGED <<varsProc, ios, ocupado, liberada, pedidos, sem, buscador, modulo,
                 caido, choque>>

(* Mutant: the next request is not sent.                                   *)
EnviaNada(h) ==
  /\ En(h, "envia") /\ ~liberada[D(h)]
  /\ hilo' = [hilo EXCEPT ![h].paso = "espera", ![h].nueva = Nadie, ![h].bucle = TRUE]
  /\ UNCHANGED <<varsProc, varsDisp, pedidos, sem, buscador, modulo, caido, choque>>

Envia(h) ==
  /\ En(h, "envia") /\ ~liberada[D(h)]
  /\ Manda(D(h), hilo[h].nueva)
  /\ hilo' = [hilo EXCEPT ![h].paso = "espera", ![h].nueva = Nadie, ![h].bucle = TRUE]
  /\ UNCHANGED <<varsProc, varsDisp, pedidos, sem, buscador, caido, choque>>

Suelta(h) ==
  /\ En(h, "suelta") /\ ~liberada[D(h)]
  /\ ocupado' = [ocupado EXCEPT ![D(h)] = FALSE]
  /\ Sigue(h, "suelta otra vez")
  /\ UNCHANGED <<varsProc, ios, actual, liberada, pedidos, sem, buscador, modulo,
                 caido, choque>>

(* The device has been taken since.                                        *)
Tomada(h) == \/ buscador.paso = "envia" /\ buscador.disp = D(h)
             \/ \E g \in Hilos \ {h} : hilo[g].paso # "no" /\ D(g) = D(h)

(* The last lines, on every path but two: ocupado is cleared again, also   *)
(* in a device that liberar_io has just freed.                             *)
SueltaOtraVez(h) ==
  /\ En(h, "suelta otra vez")
  /\ ocupado' = IF liberada[D(h)] THEN ocupado ELSE [ocupado EXCEPT ![D(h)] = FALSE]
  /\ caido' \in IF liberada[D(h)] THEN BOOLEAN ELSE {FALSE}
  /\ choque' = (choque \/ (~liberada[D(h)] /\ Tomada(h)))
  /\ hilo' = [hilo EXCEPT ![h] = SinHilo]
  /\ UNCHANGED <<varsProc, ios, actual, liberada, pedidos, sem, buscador, modulo>>

------------------------------------------------------------------------------
(* liberar_io, by thread h.                                                *)

(* In the loop the thread returns; before it, it goes on to the last lines.*)
Vuelve(h) == hilo' = [hilo EXCEPT ![h] = IF hilo[h].bucle THEN SinHilo
                                         ELSE [@ EXCEPT !.paso = "suelta otra vez"]]

(* Another thread took the device out of the list first.                   *)
PierdeOtra(h) ==
  /\ En(h, "pierde") /\ ~liberada[D(h)] /\ actual[D(h)] # Nadie
  /\ D(h) \notin ToSet(ios)
  /\ Vuelve(h)
  /\ UNCHANGED <<varsProc, varsDisp, pedidos, sem, buscador, modulo, caido, choque>>

(* Mutant: the device stays in ios_conectadas.                             *)
PierdeSinSacar(h) ==
  /\ En(h, "pierde") /\ ~liberada[D(h)] /\ actual[D(h)] # Nadie
  /\ D(h) \in ToSet(ios)
  /\ Pasa(actual[D(h)], IF "SUSP_BLOCKED" \in donde[actual[D(h)]]
                        THEN "SUSP_BLOCKED" ELSE "BLOCKED", "EXIT")
  /\ Sigue(h, "cuenta")
  /\ UNCHANGED <<pide, usos, varsDisp, pedidos, sem, buscador, modulo, caido, choque>>

Pierde(h) ==
  /\ En(h, "pierde") /\ ~liberada[D(h)] /\ actual[D(h)] # Nadie
  /\ D(h) \in ToSet(ios)
  /\ ios' = RemoveFirst(ios, D(h))
  /\ Pasa(actual[D(h)], IF "SUSP_BLOCKED" \in donde[actual[D(h)]]
                        THEN "SUSP_BLOCKED" ELSE "BLOCKED", "EXIT")
  /\ Sigue(h, "cuenta")
  /\ UNCHANGED <<pide, usos, ocupado, actual, liberada, pedidos, sem, buscador,
                 modulo, caido, choque>>

(* no_hay_mas_ios_con_mismo_nombre.                                        *)
Cuenta(h) ==
  /\ En(h, "cuenta")
  /\ Sigue(h, IF Conectada(Nombre[D(h)]) THEN "libera" ELSE "fuerza")
  /\ UNCHANGED <<varsProc, varsDisp, pedidos, sem, buscador, modulo, caido, choque>>

(* forzar_exit_a_todos_los_bloqueados: a request is taken, the process     *)
(* looked at, and moved; the timer may suspend it in between.              *)
Fuerza(h) ==
  /\ En(h, "fuerza")
  /\ TomaProximo(Nombre[D(h)])
  /\ hilo' = [hilo EXCEPT ![h].nueva = Proximo(Nombre[D(h)]),
                          ![h].paso = IF Lugares(Nombre[D(h)]) = {} THEN "libera"
                                      ELSE "mira"]
  /\ UNCHANGED <<varsProc, varsDisp, sem, buscador, modulo, caido, choque>>

Mira(h) ==
  /\ En(h, "mira")
  /\ hilo' = [hilo EXCEPT ![h].paso = "echa",
                          ![h].susp = "SUSP_BLOCKED" \in donde[hilo[h].nueva]]
  /\ UNCHANGED <<varsProc, varsDisp, pedidos, sem, buscador, modulo, caido, choque>>

(* Mutant: the request is freed and its process left where it is.          *)
EchaElPedido(h) ==
  /\ En(h, "echa")
  /\ hilo' = [hilo EXCEPT ![h].paso = "fuerza", ![h].nueva = Nadie, ![h].susp = FALSE]
  /\ UNCHANGED <<varsProc, varsDisp, pedidos, sem, buscador, modulo, caido, choque>>

Echa(h) ==
  /\ En(h, "echa")
  /\ Pasa(hilo[h].nueva, IF hilo[h].susp THEN "SUSP_BLOCKED" ELSE "BLOCKED", "EXIT")
  /\ hilo' = [hilo EXCEPT ![h].paso = "fuerza", ![h].nueva = Nadie, ![h].susp = FALSE]
  /\ UNCHANGED <<pide, usos, varsDisp, pedidos, sem, buscador, modulo, caido, choque>>

(* Its caller then unlocks a mutex found through the freed device.         *)
Libera(h) ==
  /\ En(h, "libera")
  /\ liberada' = [liberada EXCEPT ![D(h)] = TRUE]
  /\ caido' \in BOOLEAN
  /\ Vuelve(h)
  /\ UNCHANGED <<varsProc, ios, ocupado, actual, pedidos, sem, buscador, modulo,
                 choque>>

(* A freed device, or the process of a device that has none.               *)
HiloCae(h) ==
  /\ \/ hilo[h].paso \in {"mueve", "toma", "anota", "envia", "suelta", "pierde"}
        /\ liberada[D(h)]
     \/ hilo[h].paso \in {"mueve", "pierde"} /\ actual[D(h)] = Nadie
  /\ Cae

------------------------------------------------------------------------------

Proceso(p) == \/ \E n \in Nombres : PideIO(p, n) \/ PideIOInvalida(p, n)
              \/ EncolaIO(p) \/ Ejecuta(p) \/ Suspende(p)

Modulo(d) == Conecta(d) \/ Sirve(d) \/ Muere(d)

Buscador == \/ BuscadorDespierta \/ BuscadorBusca \/ BuscadorToma \/ BuscadorOcupa
            \/ \E h \in Hilos : BuscadorEnvia(h)
            \/ BuscadorCae

Hilo(h) == \/ Recibe(h) \/ RecibePerdida(h) \/ LeenMezclado(h) \/ Mueve(h) \/ Toma(h)
           \/ Anota(h) \/ Envia(h) \/ Suelta(h) \/ SueltaOtraVez(h)
           \/ PierdeOtra(h) \/ Pierde(h) \/ Cuenta(h) \/ Fuerza(h) \/ Mira(h)
           \/ Echa(h) \/ Libera(h) \/ HiloCae(h)

Next == \/ \E p \in Procesos : Proceso(p)
        \/ \E d \in Disp : Modulo(d)
        \/ Buscador
        \/ \E h \in Hilos : Hilo(h)

Spec == Init /\ [][Next]_vars

(* The threads run and an IO program that is not stopped wakes up.         *)
Equidad == /\ WF_vars(Buscador)
           /\ \A h \in Hilos : WF_vars(Hilo(h))
           /\ \A d \in Disp : WF_vars(Sirve(d))

SpecJusta == Spec /\ Equidad

------------------------------------------------------------------------------
(* Types of the variables.                                                 *)
Estados == {"EXEC", "BLOCKED", "SUSP_BLOCKED", "READY", "SUSP_READY", "EXIT"}

TypeOK ==
  /\ donde \in [Procesos -> (SUBSET Estados) \ {{}}]
  /\ pide \in [Procesos -> Nombres \cup {Nadie}]
  /\ usos \in [Procesos -> Nat]
  /\ ios \in Seq(Disp)
  /\ ocupado \in [Disp -> BOOLEAN] /\ liberada \in [Disp -> BOOLEAN]
  /\ actual \in [Disp -> Procesos \cup {Nadie}]
  /\ pedidos \in Seq([proceso : Procesos, nombre : Nombres])
  /\ sem \in Nat
  /\ buscador \in [paso : {"duerme", "busca", "toma", "ocupa", "envia"},
                   disp : Disp \cup {Nadie}, nueva : Procesos \cup {Nadie}]
  /\ hilo \in [Hilos -> [paso : {"no", "espera", "mueve", "toma", "anota", "envia",
                                 "suelta", "suelta otra vez", "pierde", "cuenta",
                                 "fuerza", "mira", "echa", "libera"},
                         disp : Disp \cup {Nadie}, nueva : Procesos \cup {Nadie},
                         de : Procesos \cup {Nadie}, bucle : BOOLEAN, susp : BOOLEAN]]
  /\ \A d \in Disp : /\ modulo[d].vida \in {"no", "viva", "muerta"}
                     /\ modulo[d].envio \in Seq(Procesos)
                     /\ modulo[d].rta \in Seq(Procesos)
  /\ caido \in BOOLEAN /\ choque \in BOOLEAN

(* For each thread in recv there is one request or answer of its device on *)
(* the way, no more and no less, even when two threads wait for the same   *)
(* device: a thread never waits for an answer that nobody will send.       *)
EsperaRespondida ==
  \A d \in Disp : modulo[d].vida = "viva" =>
    Cardinality(Esperan(d)) = Len(modulo[d].envio) + Len(modulo[d].rta)

(* conexion_con_io and the syscalls walk ios_conectadas: however its IO    *)
(* programs are stopped, no device in it has been freed.                   *)
ListaSinLiberadas == \A d \in ToSet(ios) : ~liberada[d]

(* While no device in use was marked free: the process a thread moves is   *)
(* the one whose IO has ended.                                             *)
RespuestaPropia ==
  ~choque /\ ~caido =>
    \A h \in Hilos : hilo[h].paso = "mueve" => actual[D(h)] = hilo[h].de

EnEspera(p) == donde[p] \cap {"BLOCKED", "SUSP_BLOCKED"} # {}

(* The kernel still holds p's request, or a thread will move p.            *)
EnManos(p) ==
  \/ pide[p] # Nadie
  \/ \E i \in DOMAIN pedidos : pedidos[i].proceso = p
  \/ buscador.nueva = p
  \/ \E h \in Hilos : \/ hilo[h].nueva = p
                      \/ hilo[h].paso \in {"espera", "mueve", "pierde"} /\ actual[D(h)] = p

(* While no device in use was marked free: a process that is only in       *)
(* BLOCKED or SUSP_BLOCKED is never forgotten, through the hand-over of a  *)
(* device from one process to the next and the loss of the device.         *)
NingunoOlvidado ==
  ~choque /\ ~caido =>
    \A p \in Procesos : EnEspera(p) /\ Cardinality(donde[p]) = 1 => EnManos(p)

(* A thread in recv goes on: its device answers or is lost.                *)
EsperaTermina ==
  \A h \in Hilos : hilo[h].paso = "espera" ~> hilo[h].paso # "espera" \/ caido

==============================================================================
