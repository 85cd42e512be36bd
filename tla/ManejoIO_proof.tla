---------------------------- MODULE ManejoIO_proof ----------------------------
(***************************************************************************)
(* The devices: what a thread or a list holds has connected and, in the    *)
(* list, was not freed; the threads that wait for a device are as many as  *)
(* the messages under way; and, while no device in use was marked free,    *)
(* each has one user, one message and its process, and none is forgotten.  *)
(***************************************************************************)
EXTENDS ManejoIO, Listas_proof, FiniteSetTheorems, WellFoundedInduction, TLAPS

TipoModulo == [vida : {"no", "viva", "muerta"}, envio : Seq(Procesos), rta : Seq(Procesos)]

(* TypeOK, and that what is sent or moved is a process.                    *)
Tipos ==
  /\ TypeOK
  /\ modulo \in [Disp -> TipoModulo]
  /\ buscador.paso = "envia" => buscador.nueva \in Procesos
  /\ \A h \in Hilos : hilo[h].paso \in {"envia", "mira", "echa"} => hilo[h].nueva \in Procesos

Conecto(d) == d \in Disp /\ modulo[d].vida # "no"

(* Devices.  A thread that has taken one out of the list is the one that   *)
(* frees it.                                                               *)
Sacada(h) == hilo[h].paso \in {"cuenta", "fuerza", "mira", "echa", "libera"}

Vivas ==
  /\ SinRepetidos(ios)
  /\ \A d \in Disp : Contains(ios, d) => Conecto(d) /\ ~liberada[d]
  /\ \A d \in Disp : liberada[d] => Conecto(d)
  /\ buscador.paso \in {"toma", "ocupa", "envia"} => Conecto(buscador.disp)
  /\ \A h \in Hilos : /\ hilo[h].paso # "no" => Conecto(D(h))
                      /\ Sacada(h) => ~Contains(ios, D(h))

(* Messages.                                                               *)
EnCamino(d) == Len(modulo[d].envio) + Len(modulo[d].rta)

Cuentas ==
  \A d \in Disp :
    /\ modulo[d].vida = "no" => modulo[d].envio = <<>> /\ modulo[d].rta = <<>>
    /\ modulo[d].vida = "viva" => Cardinality(Esperan(d)) = EnCamino(d)

Inv == Tipos /\ Vivas /\ Cuentas

------------------------------------------------------------------------------
(* Least elements.                                                         *)
LEMMA Menor ==
  ASSUME NEW s \in SUBSET Nat, s # {}
  PROVE  \E c \in s : \A d \in s : c <= d
<1> DEFINE R == {ss \in Nat \X Nat : ss[1] < ss[2]}
<1>1. IsWellFoundedOn(R, Nat)
  BY NatLessThanWellFounded, Zenon DEF OpToRel
<1> HIDE DEF R
<1>2. PICK c \in s : \A d \in s : ~(<<d, c>> \in R)
  BY <1>1, WFMin
<1>3. \A d \in s : ~(d < c)
  BY <1>2 DEF R
<1> QED BY <1>3

(* tomar_proximo_req_de_io.                                                *)
LEMMA TomaTipos ==
  ASSUME TypeOK, NEW n, TomaProximo(n)
  PROVE  /\ pedidos' \in Seq([proceso : Procesos, nombre : Nombres])
         /\ Proximo(n) \in Procesos \cup {Nadie}
         /\ Lugares(n) # {} => Proximo(n) \in Procesos
<1> DEFINE S == [proceso : Procesos, nombre : Nombres]
<1>0. pedidos \in Seq(S)
  BY DEF TypeOK
<1>1. pedidos \in Seq(S) /\ DOMAIN pedidos = 1 .. Len(pedidos)
  <2> HIDE DEF S
  <2> QED BY <1>0
<1>2. CASE Lugares(n) = {}
  BY <1>1, <1>2 DEF TomaProximo, Proximo
<1>3. CASE Lugares(n) # {}
  <2>1. Lugares(n) \in SUBSET Nat
    BY <1>1 DEF Lugares
  <2>2. Primero(n) \in Lugares(n)
    BY <1>3, <2>1, Menor DEF Primero
  <2>3. Primero(n) \in 1 .. Len(pedidos)
    BY <1>1, <2>2 DEF Lugares
  <2>4. pedidos' \in Seq(S)
    BY <1>1, <1>3, <2>3, RemoveAtProps DEF TomaProximo
  <2>5. pedidos[Primero(n)] \in S
    <3> HIDE DEF S
    <3> QED BY <1>1, <2>3
  <2> QED BY <1>3, <2>4, <2>5 DEF Proximo
<1> QED BY <1>2, <1>3

LEMMA InvInit == Init => Inv
<1> SUFFICES ASSUME Init PROVE Inv
  OBVIOUS
<1>1. TypeOK
  <2>1. donde \in [Procesos -> (SUBSET Estados) \ {{}}]
    BY DEF Init, Estados
  <2>2. /\ ios \in Seq(Disp) /\ pedidos \in Seq([proceso : Procesos, nombre : Nombres])
        /\ \A d \in Disp : /\ modulo[d].vida \in {"no", "viva", "muerta"}
                           /\ modulo[d].envio \in Seq(Procesos)
                           /\ modulo[d].rta \in Seq(Procesos)
    <3>1. \A S : <<>> \in Seq(S)
      BY EmptySeq
    <3> QED BY <3>1 DEF Init
  <2>3. \A h \in Hilos : hilo[h] = SinHilo
    BY DEF Init
  <2> QED BY <2>1, <2>2, <2>3 DEF Init, TypeOK, Duerme, SinHilo
<1>2. Tipos
  BY <1>1 DEF Init, Tipos, TipoModulo, Duerme, SinHilo
<1>3. Vivas
  BY DEF Init, Vivas, SinRepetidos, Contains, Duerme, SinHilo, Sacada
<1>4. Cuentas
  BY DEF Init, Cuentas
<1> QED BY <1>2, <1>3, <1>4 DEF Inv

------------------------------------------------------------------------------
(* The conjuncts of TypeOK that nothing else depends on.                   *)
Resto ==
  /\ donde \in [Procesos -> (SUBSET Estados) \ {{}}]
  /\ pide \in [Procesos -> Nombres \cup {Nadie}]
  /\ usos \in [Procesos -> Nat]
  /\ ocupado \in [Disp -> BOOLEAN]
  /\ actual \in [Disp -> Procesos \cup {Nadie}]
  /\ pedidos \in Seq([proceso : Procesos, nombre : Nombres])
  /\ sem \in Nat
  /\ caido \in BOOLEAN /\ choque \in BOOLEAN

TipoBuscador == [paso : {"duerme", "busca", "toma", "ocupa", "envia"},
                 disp : Disp \cup {Nadie}, nueva : Procesos \cup {Nadie}]

TipoHilo == [paso : {"no", "espera", "mueve", "toma", "anota", "envia",
                     "suelta", "suelta otra vez", "pierde", "cuenta",
                     "fuerza", "mira", "echa", "libera"},
             disp : Disp \cup {Nadie}, nueva : Procesos \cup {Nadie},
             de : Procesos \cup {Nadie}, bucle : BOOLEAN, susp : BOOLEAN]

LEMMA TiposPartes ==
  Tipos <=> /\ Resto /\ ios \in Seq(Disp) /\ liberada \in [Disp -> BOOLEAN]
            /\ buscador \in TipoBuscador /\ hilo \in [Hilos -> TipoHilo]
            /\ modulo \in [Disp -> TipoModulo]
            /\ buscador.paso = "envia" => buscador.nueva \in Procesos
            /\ \A h \in Hilos : hilo[h].paso \in {"envia", "mira", "echa"} =>
                                  hilo[h].nueva \in Procesos
BY DEF Tipos, TypeOK, Resto, TipoBuscador, TipoHilo, TipoModulo

LEMMA TiposPartesPrima ==
  Tipos' <=> /\ Resto' /\ ios' \in Seq(Disp) /\ liberada' \in [Disp -> BOOLEAN]
             /\ buscador' \in TipoBuscador /\ hilo' \in [Hilos -> TipoHilo]
             /\ modulo' \in [Disp -> TipoModulo]
             /\ buscador'.paso = "envia" => buscador'.nueva \in Procesos
             /\ \A h \in Hilos : hilo'[h].paso \in {"envia", "mira", "echa"} =>
                                   hilo'[h].nueva \in Procesos
BY DEF Tipos, TypeOK, Resto, TipoBuscador, TipoHilo, TipoModulo

(* A process that changes lists.                                           *)
LEMMA PasaTipos ==
  ASSUME Resto, NEW p \in Procesos, NEW de, NEW a \in Estados, Pasa(p, de, a)
  PROVE  donde' \in [Procesos -> (SUBSET Estados) \ {{}}]
<1>1. (donde[p] \ {de}) \cup {a} \in (SUBSET Estados) \ {{}}
  BY DEF Resto
<1> QED BY <1>1 DEF Resto, Pasa

(* No thread and no message moves.                                         *)
LEMMA PasoAjeno ==
  ASSUME Inv, UNCHANGED <<ios, liberada, hilo, modulo>>, Resto',
         buscador' \in TipoBuscador,
         buscador'.paso \in {"toma", "ocupa", "envia"} => Conecto(buscador'.disp),
         buscador'.paso = "envia" => buscador'.nueva \in Procesos
  PROVE  Inv'
<1>1. Tipos'
  BY TiposPartes, TiposPartesPrima DEF Inv
<1>2. Vivas'
  BY DEF Inv, Vivas, Conecto, Sacada, D
<1>3. Cuentas'
  <2>1. \A d \in Disp : Esperan(d)' = Esperan(d) /\ EnCamino(d)' = EnCamino(d)
    BY DEF Esperan, EnCamino, D
  <2> QED BY <2>1 DEF Inv, Cuentas
<1> QED BY <1>1, <1>2, <1>3 DEF Inv

(* One thread goes on, neither to recv nor from it.                        *)
LEMMA PasoDeHilo ==
  ASSUME Inv, NEW h \in Hilos, UNCHANGED <<ios, liberada, buscador, modulo>>, Resto',
         hilo[h].paso \notin {"no", "espera"}, hilo'[h].paso # "espera",
         hilo' = [hilo EXCEPT ![h] = hilo'[h]], hilo'[h] \in TipoHilo,
         hilo'[h].paso # "no" => hilo'[h].disp = D(h),
         hilo'[h].paso \in {"envia", "mira", "echa"} => hilo'[h].nueva \in Procesos,
         Sacada(h)' => Sacada(h)
  PROVE  Inv'
<1>0. hilo \in [Hilos -> TipoHilo]
  BY TiposPartes DEF Inv
<1>1. \A g \in Hilos \ {h} : hilo'[g] = hilo[g]
  BY <1>0
<1>2. Tipos'
  <2>1. hilo' \in [Hilos -> TipoHilo]
    BY <1>0
  <2>2. \A g \in Hilos : hilo'[g].paso \in {"envia", "mira", "echa"} => hilo'[g].nueva \in Procesos
    BY <1>1, TiposPartes DEF Inv
  <2> QED BY <2>1, <2>2, TiposPartes, TiposPartesPrima DEF Inv
<1>3. Vivas'
  <2>1. ASSUME NEW g \in Hilos
        PROVE  /\ hilo'[g].paso # "no" => Conecto(D(g))'
               /\ Sacada(g)' => ~Contains(ios, D(g))'
    <3>1. CASE g = h
      BY <3>1 DEF Inv, Vivas, Conecto, D, Sacada
    <3>2. CASE g # h
      BY <1>1, <3>2 DEF Inv, Vivas, Conecto, D, Sacada
    <3> QED BY <3>1, <3>2
  <2> QED BY <2>1 DEF Inv, Vivas, Conecto
<1>4. Cuentas'
  <2>1. \A d \in Disp : Esperan(d)' = Esperan(d)
    BY <1>1 DEF Esperan, D
  <2>2. \A d \in Disp : EnCamino(d)' = EnCamino(d)
    BY DEF EnCamino
  <2> QED BY <2>1, <2>2 DEF Inv, Cuentas
<1> QED BY <1>2, <1>3, <1>4 DEF Inv

------------------------------------------------------------------------------
(* The processes, and conexion_con_io until it sends.                      *)

LEMMA PasoProceso == ASSUME Inv, NEW p \in Procesos, Proceso(p) PROVE Inv'
<1>1. Resto
  BY TiposPartes DEF Inv
<1>2. /\ UNCHANGED <<ios, liberada, hilo, modulo, buscador>>
      /\ UNCHANGED <<ocupado, actual, caido, choque>>
  BY DEF Proceso, PideIO, PideIOInvalida, EncolaIO, Ejecuta, Suspende, varsDisp
<1>3. /\ buscador' \in TipoBuscador
      /\ buscador'.paso \in {"toma", "ocupa", "envia"} => Conecto(buscador'.disp)
      /\ buscador'.paso = "envia" => buscador'.nueva \in Procesos
  BY <1>2, TiposPartes DEF Inv, Vivas
<1>4. Resto'
  <2>1. ASSUME NEW n \in Nombres, PideIO(p, n) PROVE Resto'
    <3>1. donde' \in [Procesos -> (SUBSET Estados) \ {{}}]
      BY <1>1, <2>1, PasaTipos DEF PideIO, Estados
    <3>2. pide' \in [Procesos -> Nombres \cup {Nadie}] /\ usos' \in [Procesos -> Nat]
      BY <1>1, <2>1 DEF PideIO, Resto
    <3>3. UNCHANGED <<pedidos, sem>>
      BY <2>1 DEF PideIO
    <3> QED BY <1>1, <1>2, <3>1, <3>2, <3>3 DEF Resto
  <2>2. ASSUME NEW n \in Nombres, PideIOInvalida(p, n) PROVE Resto'
    <3>1. donde' \in [Procesos -> (SUBSET Estados) \ {{}}]
      BY <1>1, <2>2, PasaTipos DEF PideIOInvalida, Estados
    <3> QED BY <1>1, <1>2, <2>2, <3>1 DEF PideIOInvalida, Resto
  <2>3. ASSUME EncolaIO(p) PROVE Resto'
    <3> DEFINE S == [proceso : Procesos, nombre : Nombres]
    <3>1. /\ pedidos \in Seq(S) /\ pide[p] \in Nombres \cup {Nadie} /\ pide[p] # Nadie
          /\ pedidos' = Append(pedidos, [proceso |-> p, nombre |-> pide[p]])
      BY <1>1, <2>3 DEF EncolaIO, Resto
    <3>2. [proceso |-> p, nombre |-> pide[p]] \in S
      BY <3>1
    <3>3. pedidos' \in Seq(S)
      <4> HIDE DEF S
      <4> QED BY <3>1, <3>2
    <3> QED BY <1>1, <1>2, <2>3, <3>3 DEF EncolaIO, Resto
  <2>4. ASSUME Ejecuta(p) PROVE Resto'
    <3>1. donde' \in [Procesos -> (SUBSET Estados) \ {{}}]
      BY <1>1, <2>4, PasaTipos DEF Ejecuta, Estados
    <3> QED BY <1>1, <1>2, <2>4, <3>1 DEF Ejecuta, Resto
  <2>5. ASSUME Suspende(p) PROVE Resto'
    <3>1. donde' \in [Procesos -> (SUBSET Estados) \ {{}}]
      BY <1>1, <2>5, PasaTipos DEF Suspende, Estados
    <3> QED BY <1>1, <1>2, <2>5, <3>1 DEF Suspende, Resto
  <2> QED BY <2>1, <2>2, <2>3, <2>4, <2>5 DEF Proceso
<1> QED BY <1>2, <1>3, <1>4, PasoAjeno

LEMMA PasoCae == ASSUME Inv, Cae PROVE Inv'
<1>1. Resto' /\ UNCHANGED <<ios, liberada, hilo, modulo, buscador>>
  BY TiposPartes DEF Inv, Cae, Resto, varsProc, varsDisp
<1> QED BY <1>1, TiposPartes, PasoAjeno DEF Inv, Vivas

LEMMA PasoBuscadorDespierta == ASSUME Inv, BuscadorDespierta PROVE Inv'
<1>1. Resto /\ buscador \in TipoBuscador
  BY TiposPartes DEF Inv
<1>2. /\ UNCHANGED <<ios, liberada, hilo, modulo, donde, pide, usos, ocupado, actual, pedidos,
                     caido, choque>>
      /\ sem > 0 /\ sem' = sem - 1 /\ buscador' = [buscador EXCEPT !.paso = "busca"]
  BY DEF BuscadorDespierta, varsProc, varsDisp
<1>3. sem' \in Nat
  BY <1>1, <1>2 DEF Resto
<1>4. Resto'
  BY <1>1, <1>2, <1>3 DEF Resto
<1>5. buscador' \in TipoBuscador /\ buscador'.paso = "busca"
  BY <1>1, <1>2 DEF TipoBuscador
<1> QED BY <1>2, <1>4, <1>5, PasoAjeno

(* busco_si_hay_io_libre_para_req returns a device of the list.            *)
LEMMA PasoBuscadorBusca == ASSUME Inv, BuscadorBusca PROVE Inv'
<1>1. UNCHANGED <<ios, liberada, hilo, modulo>> /\ Resto'
  BY TiposPartes DEF Inv, BuscadorBusca, Resto, varsProc, varsDisp
<1>2. /\ buscador' \in TipoBuscador
      /\ buscador'.paso \in {"toma", "ocupa", "envia"} => Conecto(buscador'.disp)
      /\ buscador'.paso # "envia"
  <2>1. buscador \in TipoBuscador /\ ios \in Seq(Disp)
    BY TiposPartes DEF Inv
  <2>2. CASE LibresConReq = {}
    BY <2>2 DEF BuscadorBusca, Duerme, TipoBuscador
  <2>3. CASE LibresConReq # {}
    <3> DEFINE i == CHOOSE k \in LibresConReq : \A j \in LibresConReq : k <= j
    <3>1. LibresConReq \in SUBSET Nat /\ \A k \in LibresConReq : k \in 1 .. Len(ios)
      BY <2>1 DEF LibresConReq
    <3>2. i \in LibresConReq
      BY <2>3, <3>1, Menor
    <3>3. buscador' = [buscador EXCEPT !.paso = "toma", !.disp = ios[i]]
      BY <2>3 DEF BuscadorBusca
    <3> HIDE DEF i
    <3>4. ios[i] \in Disp /\ Contains(ios, ios[i])
      BY <2>1, <3>1, <3>2 DEF Contains
    <3>5. Conecto(ios[i])
      BY <3>4 DEF Inv, Vivas
    <3> QED BY <2>1, <3>3, <3>4, <3>5 DEF TipoBuscador
  <2> QED BY <2>2, <2>3
<1> QED BY <1>1, <1>2, PasoAjeno

LEMMA PasoBuscadorToma == ASSUME Inv, BuscadorToma PROVE Inv'
<1>1. TypeOK /\ Resto /\ buscador \in TipoBuscador
  BY TiposPartes DEF Inv, Tipos
<1>2. /\ UNCHANGED <<ios, liberada, hilo, modulo, donde, pide, usos, ocupado, actual, sem,
                     caido, choque>>
      /\ TomaProximo(Nombre[buscador.disp]) /\ buscador.paso = "toma"
      /\ buscador' = [buscador EXCEPT !.paso = "ocupa", !.nueva = Proximo(Nombre[buscador.disp])]
  BY DEF BuscadorToma, Busca, varsProc, varsDisp
<1>3. Resto'
  BY <1>1, <1>2, TomaTipos DEF Resto
<1>4. /\ buscador' \in TipoBuscador
      /\ buscador'.paso = "ocupa" /\ buscador'.disp = buscador.disp
  BY <1>1, <1>2, TomaTipos DEF TipoBuscador
<1>5. Conecto(buscador.disp)
  BY <1>2 DEF Inv, Vivas
<1> QED BY <1>2, <1>3, <1>4, <1>5, PasoAjeno

LEMMA PasoBuscadorOcupa == ASSUME Inv, BuscadorOcupa PROVE Inv'
<1>1. Resto /\ buscador \in TipoBuscador /\ Conecto(buscador.disp)
  BY TiposPartes DEF Inv, Vivas, BuscadorOcupa, Busca
<1>2. /\ UNCHANGED <<ios, liberada, hilo, modulo, donde, pide, usos, pedidos, sem, caido,
                     choque>>
      /\ buscador.nueva \in Procesos
      /\ ocupado' = [ocupado EXCEPT ![buscador.disp] = TRUE]
      /\ actual' = [actual EXCEPT ![buscador.disp] = buscador.nueva]
      /\ buscador' = [buscador EXCEPT !.paso = "envia"]
  BY <1>1 DEF BuscadorOcupa, Busca, varsProc, TipoBuscador
<1>3. Resto'
  BY <1>1, <1>2 DEF Resto
<1>4. /\ buscador' \in TipoBuscador
      /\ buscador'.nueva \in Procesos /\ buscador'.disp = buscador.disp
  BY <1>1, <1>2 DEF TipoBuscador
<1> QED BY <1>1, <1>2, <1>3, <1>4, PasoAjeno

------------------------------------------------------------------------------
(* esperar_rta_io between an answer and the next request.                  *)

(* What each of its steps writes of the thread.                            *)
LEMMA EscribeHilo ==
  ASSUME Inv, NEW h \in Hilos, NEW r \in TipoHilo, hilo' = [hilo EXCEPT ![h] = r]
  PROVE  hilo'[h] = r /\ hilo' = [hilo EXCEPT ![h] = hilo'[h]]
BY TiposPartes DEF Inv

LEMMA PasoMueve == ASSUME Inv, NEW h \in Hilos, Mueve(h) PROVE Inv'
<1>1. Resto /\ hilo \in [Hilos -> TipoHilo] /\ Conecto(D(h)) /\ hilo[h].paso = "mueve"
  BY TiposPartes DEF Inv, Vivas, Mueve, En
<1>2. UNCHANGED <<ios, liberada, buscador, modulo, pide, usos, ocupado, actual, pedidos, sem,
                  caido, choque>>
  BY DEF Mueve, varsDisp
<1>3. donde' \in [Procesos -> (SUBSET Estados) \ {{}}]
  <2>1. actual[D(h)] \in Procesos
    BY <1>1 DEF Mueve, Resto, Conecto
  <2> QED BY <1>1, <2>1, PasaTipos DEF Mueve, Estados
<1>4. Resto'
  BY <1>1, <1>2, <1>3 DEF Resto
<1>5. /\ hilo' = [hilo EXCEPT ![h] = hilo'[h]] /\ hilo'[h] \in TipoHilo
      /\ hilo'[h].paso = "toma" /\ hilo'[h].disp = D(h)
  BY <1>1 DEF Mueve, TipoHilo, D
<1> QED BY <1>1, <1>2, <1>4, <1>5, PasoDeHilo DEF Sacada

LEMMA PasoToma == ASSUME Inv, NEW h \in Hilos, Toma(h) PROVE Inv'
<1>1. TypeOK /\ Resto /\ hilo \in [Hilos -> TipoHilo] /\ hilo[h].paso = "toma"
  BY TiposPartes DEF Inv, Tipos, Toma, En
<1>2. /\ UNCHANGED <<ios, liberada, buscador, modulo, donde, pide, usos, ocupado, actual, sem,
                     caido, choque>>
      /\ TomaProximo(Nombre[D(h)])
      /\ hilo' = [hilo EXCEPT ![h].paso = "anota", ![h].nueva = Proximo(Nombre[D(h)])]
  BY DEF Toma, varsProc, varsDisp
<1>3. Resto'
  BY <1>1, <1>2, TomaTipos DEF Resto
<1>4. Proximo(Nombre[D(h)]) \in Procesos \cup {Nadie}
  BY <1>1, <1>2, TomaTipos
<1>5. /\ hilo' = [hilo EXCEPT ![h] = hilo'[h]] /\ hilo'[h] \in TipoHilo
      /\ hilo'[h].paso = "anota" /\ hilo'[h].disp = D(h)
  BY <1>1, <1>2, <1>4 DEF TipoHilo, D
<1> QED BY <1>1, <1>2, <1>3, <1>5, PasoDeHilo DEF Sacada

LEMMA PasoAnota == ASSUME Inv, NEW h \in Hilos, Anota(h) PROVE Inv'
<1>1. Resto /\ hilo \in [Hilos -> TipoHilo] /\ Conecto(D(h)) /\ hilo[h].paso = "anota"
  BY TiposPartes DEF Inv, Vivas, Anota, En
<1>2. /\ UNCHANGED <<ios, liberada, buscador, modulo, donde, pide, usos, ocupado, pedidos, sem,
                     caido, choque>>
      /\ actual' = [actual EXCEPT ![D(h)] = hilo[h].nueva]
      /\ hilo' = [hilo EXCEPT ![h].paso = IF hilo[h].nueva = Nadie THEN "suelta" ELSE "envia"]
  BY DEF Anota, Sigue, varsProc
<1>3. hilo[h].nueva \in Procesos \cup {Nadie}
  BY <1>1 DEF TipoHilo
<1>4. Resto'
  BY <1>1, <1>2, <1>3 DEF Resto
<1>5. /\ hilo' = [hilo EXCEPT ![h] = hilo'[h]] /\ hilo'[h] \in TipoHilo
      /\ hilo'[h].paso \in {"suelta", "envia"} /\ hilo'[h].disp = D(h)
      /\ hilo'[h].paso = "envia" => hilo'[h].nueva \in Procesos
  BY <1>1, <1>2, <1>3 DEF TipoHilo, D
<1> QED BY <1>1, <1>2, <1>4, <1>5, PasoDeHilo DEF Sacada

LEMMA PasoSuelta == ASSUME Inv, NEW h \in Hilos, Suelta(h) PROVE Inv'
<1>1. Resto /\ hilo \in [Hilos -> TipoHilo] /\ hilo[h].paso = "suelta"
  BY TiposPartes DEF Inv, Suelta, En
<1>2. /\ UNCHANGED <<ios, liberada, buscador, modulo, donde, pide, usos, actual, pedidos, sem,
                     caido, choque>>
      /\ ocupado' = [ocupado EXCEPT ![D(h)] = FALSE]
      /\ hilo' = [hilo EXCEPT ![h].paso = "suelta otra vez"]
  BY DEF Suelta, Sigue, varsProc
<1>3. Resto'
  BY <1>1, <1>2 DEF Resto
<1>4. /\ hilo' = [hilo EXCEPT ![h] = hilo'[h]] /\ hilo'[h] \in TipoHilo
      /\ hilo'[h].paso = "suelta otra vez" /\ hilo'[h].disp = D(h)
  BY <1>1, <1>2 DEF TipoHilo, D
<1> QED BY <1>1, <1>2, <1>3, <1>4, PasoDeHilo DEF Sacada

LEMMA PasoSueltaOtraVez == ASSUME Inv, NEW h \in Hilos, SueltaOtraVez(h) PROVE Inv'
<1>1. Resto /\ hilo \in [Hilos -> TipoHilo] /\ hilo[h].paso = "suelta otra vez"
  BY TiposPartes DEF Inv, SueltaOtraVez, En
<1>2. /\ UNCHANGED <<ios, liberada, buscador, modulo, donde, pide, usos, actual, pedidos, sem>>
      /\ ocupado' = ocupado \/ ocupado' = [ocupado EXCEPT ![D(h)] = FALSE]
      /\ caido' \in BOOLEAN /\ choque' \in BOOLEAN
      /\ hilo' = [hilo EXCEPT ![h] = SinHilo]
  BY <1>1 DEF SueltaOtraVez, varsProc, Resto
<1>3. Resto'
  BY <1>1, <1>2 DEF Resto
<1>4. SinHilo \in TipoHilo /\ SinHilo.paso = "no"
  BY DEF SinHilo, TipoHilo
<1>5. hilo' = [hilo EXCEPT ![h] = hilo'[h]] /\ hilo'[h] = SinHilo
  BY <1>2, <1>4, EscribeHilo
<1> QED BY <1>1, <1>2, <1>3, <1>4, <1>5, PasoDeHilo DEF Sacada

------------------------------------------------------------------------------
(* liberar_io, but for the list and the memory of the device.              *)

(* Vuelve.                                                                 *)
LEMMA VuelveHilo ==
  ASSUME Inv, NEW h \in Hilos, Vuelve(h)
  PROVE  /\ hilo' = [hilo EXCEPT ![h] = hilo'[h]] /\ hilo'[h] \in TipoHilo
         /\ hilo'[h].paso \in {"no", "suelta otra vez"}
         /\ hilo'[h].paso # "no" => hilo'[h].disp = D(h)
<1>1. hilo \in [Hilos -> TipoHilo]
  BY TiposPartes DEF Inv
<1>2. CASE hilo[h].bucle
  <2>1. hilo' = [hilo EXCEPT ![h] = SinHilo]
    BY <1>2 DEF Vuelve
  <2>2. SinHilo \in TipoHilo /\ SinHilo.paso = "no"
    BY DEF SinHilo, TipoHilo
  <2> QED BY <2>1, <2>2, EscribeHilo
<1>3. CASE ~hilo[h].bucle
  <2>1. hilo' = [hilo EXCEPT ![h] = [hilo[h] EXCEPT !.paso = "suelta otra vez"]]
    BY <1>3 DEF Vuelve
  <2> QED BY <1>1, <2>1 DEF TipoHilo, D
<1> QED BY <1>2, <1>3

LEMMA PasoPierdeOtra == ASSUME Inv, NEW h \in Hilos, PierdeOtra(h) PROVE Inv'
<1>1. Resto /\ hilo[h].paso = "pierde"
  BY TiposPartes DEF Inv, PierdeOtra, En
<1>2. UNCHANGED <<ios, liberada, buscador, modulo, donde, pide, usos, ocupado, actual, pedidos,
                  sem, caido, choque>>
  BY DEF PierdeOtra, varsProc, varsDisp
<1>3. Resto'
  BY <1>1, <1>2 DEF Resto
<1> QED BY <1>1, <1>2, <1>3, VuelveHilo, PasoDeHilo DEF PierdeOtra, Sacada

LEMMA PasoCuenta == ASSUME Inv, NEW h \in Hilos, Cuenta(h) \/ Mira(h) PROVE Inv'
<1>1. Resto /\ hilo \in [Hilos -> TipoHilo] /\ hilo[h].paso \in {"cuenta", "mira"}
  BY TiposPartes DEF Inv, Cuenta, Mira, En
<1>2. UNCHANGED <<ios, liberada, buscador, modulo, donde, pide, usos, ocupado, actual, pedidos,
                  sem, caido, choque>>
  BY DEF Cuenta, Mira, varsProc, varsDisp
<1>3. Resto'
  BY <1>1, <1>2 DEF Resto
<1>4. /\ hilo' = [hilo EXCEPT ![h] = hilo'[h]] /\ hilo'[h] \in TipoHilo
      /\ hilo'[h].paso \in {"libera", "fuerza", "echa"} /\ hilo'[h].disp = D(h)
      /\ hilo'[h].paso = "echa" => hilo'[h].nueva \in Procesos
  <2>1. ASSUME Cuenta(h)
        PROVE  \E x \in {"libera", "fuerza"} : hilo' = [hilo EXCEPT ![h].paso = x]
    BY <2>1 DEF Cuenta, Sigue
  <2>2. ASSUME Mira(h)
        PROVE  /\ hilo[h].nueva \in Procesos
               /\ \E b \in BOOLEAN : hilo' = [hilo EXCEPT ![h].paso = "echa", ![h].susp = b]
    <3>1. hilo[h].nueva \in Procesos
      BY <2>2, TiposPartes DEF Mira, En, Inv
    <3>2. ("SUSP_BLOCKED" \in donde[hilo[h].nueva]) \in BOOLEAN
      OBVIOUS
    <3> QED BY <2>2, <3>1, <3>2 DEF Mira
  <2>3. ASSUME Cuenta(h) PROVE hilo' = [hilo EXCEPT ![h] = hilo'[h]] /\ hilo'[h] \in TipoHilo
                              /\ hilo'[h].paso \in {"libera", "fuerza"} /\ hilo'[h].disp = D(h)
    <3>1. PICK x \in {"libera", "fuerza"} : hilo' = [hilo EXCEPT ![h].paso = x]
      BY <2>1, <2>3
    <3> QED BY <1>1, <3>1 DEF TipoHilo, D
  <2>4. ASSUME Mira(h) PROVE /\ hilo' = [hilo EXCEPT ![h] = hilo'[h]] /\ hilo'[h] \in TipoHilo
                             /\ hilo'[h].paso = "echa" /\ hilo'[h].disp = D(h)
                             /\ hilo'[h].nueva \in Procesos
    <3>1. PICK b \in BOOLEAN : hilo' = [hilo EXCEPT ![h].paso = "echa", ![h].susp = b]
      BY <2>2, <2>4
    <3> QED BY <1>1, <2>2, <2>4, <3>1 DEF TipoHilo, D
  <2> QED BY <2>3, <2>4
<1> QED BY <1>1, <1>2, <1>3, <1>4, PasoDeHilo DEF Sacada

LEMMA PasoFuerza == ASSUME Inv, NEW h \in Hilos, Fuerza(h) PROVE Inv'
<1>1. TypeOK /\ Resto /\ hilo \in [Hilos -> TipoHilo] /\ hilo[h].paso = "fuerza"
  BY TiposPartes DEF Inv, Tipos, Fuerza, En
<1>2. /\ UNCHANGED <<ios, liberada, buscador, modulo, donde, pide, usos, ocupado, actual, sem,
                     caido, choque>>
      /\ TomaProximo(Nombre[D(h)])
      /\ hilo' = [hilo EXCEPT ![h].nueva = Proximo(Nombre[D(h)]),
                              ![h].paso = IF Lugares(Nombre[D(h)]) = {} THEN "libera"
                                          ELSE "mira"]
  BY DEF Fuerza, varsProc, varsDisp
<1>3. Resto'
  BY <1>1, <1>2, TomaTipos DEF Resto
<1>4. /\ Proximo(Nombre[D(h)]) \in Procesos \cup {Nadie}
      /\ Lugares(Nombre[D(h)]) # {} => Proximo(Nombre[D(h)]) \in Procesos
  BY <1>1, <1>2, TomaTipos
<1>5. /\ hilo' = [hilo EXCEPT ![h] = hilo'[h]] /\ hilo'[h] \in TipoHilo
      /\ hilo'[h].paso \in {"libera", "mira"} /\ hilo'[h].disp = D(h)
      /\ hilo'[h].paso = "mira" => hilo'[h].nueva \in Procesos
  BY <1>1, <1>2, <1>4 DEF TipoHilo, D
<1> QED BY <1>1, <1>2, <1>3, <1>5, PasoDeHilo DEF Sacada

LEMMA PasoEcha == ASSUME Inv, NEW h \in Hilos, Echa(h) PROVE Inv'
<1>1. /\ Resto /\ hilo \in [Hilos -> TipoHilo] /\ hilo[h].paso = "echa"
      /\ hilo[h].nueva \in Procesos
  BY TiposPartes DEF Inv, Echa, En
<1>2. /\ UNCHANGED <<ios, liberada, buscador, modulo, pide, usos, ocupado, actual, pedidos, sem,
                     caido, choque>>
      /\ hilo' = [hilo EXCEPT ![h].paso = "fuerza", ![h].nueva = Nadie, ![h].susp = FALSE]
  BY DEF Echa, varsDisp
<1>3. donde' \in [Procesos -> (SUBSET Estados) \ {{}}]
  BY <1>1, PasaTipos DEF Echa, Estados
<1>4. Resto'
  BY <1>1, <1>2, <1>3 DEF Resto
<1>5. /\ hilo' = [hilo EXCEPT ![h] = hilo'[h]] /\ hilo'[h] \in TipoHilo
      /\ hilo'[h].paso = "fuerza" /\ hilo'[h].disp = D(h)
  BY <1>1, <1>2 DEF TipoHilo, D
<1> QED BY <1>1, <1>2, <1>4, <1>5, PasoDeHilo DEF Sacada

------------------------------------------------------------------------------
(* Threads in recv and messages under way.                                 *)

LEMMA EsperanFinito == ASSUME NEW d PROVE IsFiniteSet(Esperan(d))
<1>1. IsFiniteSet(Hilos)
  BY IOsOk, FS_Interval DEF Hilos
<1> QED BY <1>1, FS_Subset DEF Esperan

LEMMA EntraAEsperar ==
  ASSUME Inv, NEW h \in Hilos, hilo' = [hilo EXCEPT ![h] = hilo'[h]],
         NEW e \in Disp, hilo'[h].disp = e,
         hilo[h].paso # "espera", hilo'[h].paso = "espera"
  PROVE  /\ \A d \in Disp \ {e} : Esperan(d)' = Esperan(d)
         /\ Cardinality(Esperan(e))' = Cardinality(Esperan(e)) + 1
<1>1. \A g \in Hilos \ {h} : hilo'[g] = hilo[g]
  BY TiposPartes DEF Inv
<1>2. \A d \in Disp \ {e} : Esperan(d)' = Esperan(d)
  BY <1>1 DEF Esperan, D
<1>3. Esperan(e)' = Esperan(e) \cup {h} /\ h \notin Esperan(e)
  BY <1>1 DEF Esperan, D
<1>4. Cardinality(Esperan(e) \cup {h}) = Cardinality(Esperan(e)) + 1
  BY <1>3, EsperanFinito, FS_AddElement
<1> QED BY <1>2, <1>3, <1>4

LEMMA SaleDeEsperar ==
  ASSUME Inv, NEW h \in Hilos, hilo' = [hilo EXCEPT ![h] = hilo'[h]],
         NEW e \in Disp, hilo[h].disp = e,
         hilo[h].paso = "espera", hilo'[h].paso # "espera"
  PROVE  /\ \A d \in Disp \ {e} : Esperan(d)' = Esperan(d)
         /\ Cardinality(Esperan(e))' = Cardinality(Esperan(e)) - 1
<1>1. \A g \in Hilos \ {h} : hilo'[g] = hilo[g]
  BY TiposPartes DEF Inv
<1>2. \A d \in Disp \ {e} : Esperan(d)' = Esperan(d)
  BY <1>1 DEF Esperan, D
<1>3. Esperan(e)' = Esperan(e) \ {h} /\ h \in Esperan(e)
  BY <1>1 DEF Esperan, D
<1>4. Cardinality(Esperan(e) \ {h}) = Cardinality(Esperan(e)) - 1
  BY <1>3, EsperanFinito, FS_RemoveElement
<1> QED BY <1>2, <1>3, <1>4

(* The balance of one device changes, and holds.                           *)
LEMMA CuentaDe ==
  ASSUME Inv, NEW e \in Disp, modulo[e].vida # "no", modulo'[e].vida = modulo[e].vida,
         \A d \in Disp \ {e} : Esperan(d)' = Esperan(d) /\ modulo'[d] = modulo[d],
         modulo[e].vida = "viva" => Cardinality(Esperan(e))' = EnCamino(e)'
  PROVE  Cuentas'
<1>1. ASSUME NEW d \in Disp \ {e}
      PROVE  /\ modulo'[d].vida = "no" => modulo'[d].envio = <<>> /\ modulo'[d].rta = <<>>
             /\ modulo'[d].vida = "viva" => Cardinality(Esperan(d))' = EnCamino(d)'
  BY <1>1 DEF Inv, Cuentas, EnCamino
<1> QED BY <1>1 DEF Cuentas

(* The thread whose step it is stays with a device that connected.         *)
LEMMA VivasDeHilo ==
  ASSUME Inv, NEW h \in Hilos, UNCHANGED <<ios, liberada>>,
         hilo' = [hilo EXCEPT ![h] = hilo'[h]], Conecto(hilo'[h].disp), ~Sacada(h)',
         \A d \in Disp : modulo'[d].vida = modulo[d].vida,
         buscador' = buscador \/ buscador'.paso = "duerme"
  PROVE  Vivas'
<1>1. \A g \in Hilos \ {h} : hilo'[g] = hilo[g]
  BY TiposPartes DEF Inv
<1>2. ASSUME NEW g \in Hilos
      PROVE  /\ hilo'[g].paso # "no" => Conecto(D(g))'
             /\ Sacada(g)' => ~Contains(ios, D(g))'
  <2>1. CASE g = h
    BY <2>1 DEF Conecto, D
  <2>2. CASE g # h
    BY <1>1, <2>2 DEF Inv, Vivas, Conecto, D, Sacada
  <2> QED BY <2>1, <2>2
<1>3. buscador'.paso \in {"toma", "ocupa", "envia"} => Conecto(buscador.disp) /\ buscador' = buscador
  BY DEF Inv, Vivas
<1> QED BY <1>2, <1>3 DEF Inv, Vivas, Conecto

(* crear_msj_y_mandarselo_a_io.                                            *)
LEMMA MandaModulo ==
  ASSUME Inv, NEW e \in Disp, modulo[e].vida # "no", NEW p \in Procesos, Manda(e, p)
  PROVE  /\ modulo' \in [Disp -> TipoModulo]
         /\ \A d \in Disp : modulo'[d].vida = modulo[d].vida
         /\ \A d \in Disp \ {e} : modulo'[d] = modulo[d]
         /\ modulo[e].vida = "viva" => EnCamino(e)' = EnCamino(e) + 1
<1>1. modulo \in [Disp -> TipoModulo]
  BY TiposPartes DEF Inv
<1>2. /\ modulo[e] \in TipoModulo
      /\ modulo[e].envio \in Seq(Procesos) /\ modulo[e].rta \in Seq(Procesos)
  BY <1>1 DEF TipoModulo
<1>3. CASE modulo[e].vida = "viva"
  <2>1. modulo' = [modulo EXCEPT ![e] = [modulo[e] EXCEPT !.envio = Append(modulo[e].envio, p)]]
    BY <1>3 DEF Manda
  <2>2. /\ Append(modulo[e].envio, p) \in Seq(Procesos)
        /\ Len(Append(modulo[e].envio, p)) = Len(modulo[e].envio) + 1
    BY <1>2, AppendProperties
  <2>3. [modulo[e] EXCEPT !.envio = Append(modulo[e].envio, p)] \in TipoModulo
    BY <1>2, <2>2 DEF TipoModulo
  <2>4. /\ modulo'[e].envio = Append(modulo[e].envio, p)
        /\ modulo'[e].rta = modulo[e].rta /\ modulo'[e].vida = modulo[e].vida
    BY <1>1, <1>2, <2>1 DEF TipoModulo
  <2>5. EnCamino(e)' = EnCamino(e) + 1
    <3>1. Len(modulo[e].envio) \in Nat /\ Len(modulo[e].rta) \in Nat
      BY <1>2, LenProperties
    <3>2. EnCamino(e)' = Len(modulo'[e].envio) + Len(modulo'[e].rta)
      BY DEF EnCamino
    <3>3. EnCamino(e)' = (Len(modulo[e].envio) + 1) + Len(modulo[e].rta)
      BY <2>2, <2>4, <3>2
    <3>4. EnCamino(e) = Len(modulo[e].envio) + Len(modulo[e].rta)
      BY DEF EnCamino
    <3>5. (Len(modulo[e].envio) + 1) + Len(modulo[e].rta)
            = (Len(modulo[e].envio) + Len(modulo[e].rta)) + 1
      <4>1. \A a, b \in Nat : (a + 1) + b = (a + b) + 1
        OBVIOUS
      <4> QED BY <3>1, <4>1, Zenon
    <3> QED BY <3>3, <3>4, <3>5
  <2> QED BY <1>1, <2>1, <2>3, <2>4, <2>5
<1>4. CASE modulo[e].vida # "viva"
  <2>1. modulo' = [modulo EXCEPT ![e] = [modulo[e] EXCEPT !.envio = modulo[e].envio]]
    BY <1>4 DEF Manda
  <2>2. [modulo[e] EXCEPT !.envio = modulo[e].envio] = modulo[e]
    BY <1>2 DEF TipoModulo
  <2>3. modulo' = modulo
    BY <1>1, <2>1, <2>2
  <2> QED BY <1>1, <1>4, <2>3
<1> QED BY <1>3, <1>4

(* The three conjuncts from what the steps with a message write.           *)
LEMMA PasoConMensaje ==
  ASSUME Inv, NEW h \in Hilos, NEW e \in Disp, UNCHANGED <<ios, liberada>>, Resto',
         modulo[e].vida # "no", modulo' \in [Disp -> TipoModulo],
         \A d \in Disp : modulo'[d].vida = modulo[d].vida,
         \A d \in Disp \ {e} : modulo'[d] = modulo[d],
         \A d \in Disp \ {e} : Esperan(d)' = Esperan(d),
         modulo[e].vida = "viva" => Cardinality(Esperan(e))' = EnCamino(e)',
         hilo' = [hilo EXCEPT ![h] = hilo'[h]], hilo'[h] \in TipoHilo, hilo'[h].disp = e,
         hilo'[h].paso \in {"espera", "mueve", "pierde"},
         buscador' = buscador \/ buscador' = Duerme
  PROVE  Inv'
<1>1. Cuentas'
  BY CuentaDe
<1>2. Vivas'
  <2>1. Conecto(hilo'[h].disp) /\ ~Sacada(h)'
    BY DEF Conecto, Sacada
  <2>2. buscador' = buscador \/ buscador'.paso = "duerme"
    BY DEF Duerme
  <2> QED BY <2>1, <2>2, VivasDeHilo
<1>3. Tipos'
  <2>1. hilo \in [Hilos -> TipoHilo]
    BY TiposPartes DEF Inv
  <2>2. hilo' \in [Hilos -> TipoHilo] /\ \A g \in Hilos \ {h} : hilo'[g] = hilo[g]
    BY <2>1
  <2>3. \A g \in Hilos : hilo'[g].paso \in {"envia", "mira", "echa"} => hilo'[g].nueva \in Procesos
    BY <2>2, TiposPartes DEF Inv
  <2>4. buscador' \in TipoBuscador /\ buscador'.paso = "envia" => buscador'.nueva \in Procesos
    BY TiposPartes DEF Inv, Duerme, TipoBuscador
  <2>5. buscador' \in TipoBuscador
    BY TiposPartes DEF Inv, Duerme, TipoBuscador
  <2>6. ios' \in Seq(Disp) /\ liberada' \in [Disp -> BOOLEAN]
    BY TiposPartes DEF Inv
  <2>7. buscador'.paso = "envia" => buscador'.nueva \in Procesos
    BY TiposPartes DEF Inv, Duerme
  <2> QED BY <2>2, <2>3, <2>5, <2>6, <2>7, TiposPartesPrima
<1> QED BY <1>1, <1>2, <1>3 DEF Inv

LEMMA PasoBuscadorEnvia == ASSUME Inv, NEW h \in Hilos, BuscadorEnvia(h) PROVE Inv'
<1>0. /\ Resto /\ hilo \in [Hilos -> TipoHilo]
      /\ Conecto(buscador.disp) /\ buscador.nueva \in Procesos
  BY TiposPartes DEF Inv, Vivas, BuscadorEnvia, Busca
<1>9. PICK e \in Disp, p \in Procesos : e = buscador.disp /\ p = buscador.nueva
  BY <1>0 DEF Conecto
<1>1. Resto /\ Conecto(e) /\ hilo \in [Hilos -> TipoHilo]
  BY <1>0, <1>9
<1>2. /\ UNCHANGED <<ios, liberada, donde, pide, usos, ocupado, actual, pedidos, sem, caido,
                     choque>>
      /\ hilo[h].paso = "no" /\ buscador' = Duerme /\ Manda(e, p)
      /\ hilo' = [hilo EXCEPT ![h] = [SinHilo EXCEPT !.paso = "espera", !.disp = e]]
  BY <1>9 DEF BuscadorEnvia, varsProc, varsDisp
<1>3. Resto' /\ e \in Disp /\ modulo[e].vida # "no"
  BY <1>1, <1>2 DEF Resto, Conecto
<1>4. /\ [SinHilo EXCEPT !.paso = "espera", !.disp = e] \in TipoHilo
      /\ [SinHilo EXCEPT !.paso = "espera", !.disp = e].paso = "espera"
      /\ [SinHilo EXCEPT !.paso = "espera", !.disp = e].disp = e
  BY <1>3 DEF SinHilo, TipoHilo
<1>5. /\ hilo' = [hilo EXCEPT ![h] = hilo'[h]] /\ hilo'[h] \in TipoHilo
      /\ hilo'[h].paso = "espera" /\ hilo'[h].disp = e
  BY <1>2, <1>4, EscribeHilo
<1>6. /\ \A d \in Disp \ {e} : Esperan(d)' = Esperan(d)
      /\ Cardinality(Esperan(e))' = Cardinality(Esperan(e)) + 1
  BY <1>2, <1>3, <1>5, EntraAEsperar
<1>7. /\ modulo' \in [Disp -> TipoModulo]
      /\ \A d \in Disp : modulo'[d].vida = modulo[d].vida
      /\ \A d \in Disp \ {e} : modulo'[d] = modulo[d]
      /\ modulo[e].vida = "viva" => EnCamino(e)' = EnCamino(e) + 1
  BY <1>1, <1>2, <1>3, MandaModulo
<1>8. modulo[e].vida = "viva" => Cardinality(Esperan(e))' = EnCamino(e)'
  BY <1>3, <1>6, <1>7 DEF Inv, Cuentas
<1> QED BY <1>2, <1>3, <1>5, <1>6, <1>7, <1>8, PasoConMensaje

LEMMA PasoEnvia == ASSUME Inv, NEW h \in Hilos, Envia(h) PROVE Inv'
<1>0. /\ Resto /\ hilo \in [Hilos -> TipoHilo]
      /\ Conecto(D(h)) /\ hilo[h].nueva \in Procesos
  BY TiposPartes DEF Inv, Vivas, Envia, En
<1>9. PICK e \in Disp, p \in Procesos : e = D(h) /\ p = hilo[h].nueva
  BY <1>0 DEF Conecto
<1>1. Resto /\ Conecto(e) /\ hilo \in [Hilos -> TipoHilo]
  BY <1>0, <1>9
<1>2. /\ UNCHANGED <<ios, liberada, donde, pide, usos, ocupado, actual, pedidos, sem, buscador,
                     caido, choque>>
      /\ hilo[h].paso = "envia" /\ hilo[h].disp = e /\ Manda(e, p)
      /\ hilo' = [hilo EXCEPT ![h].paso = "espera", ![h].nueva = Nadie, ![h].bucle = TRUE]
  BY <1>9 DEF Envia, En, D, varsProc, varsDisp
<1>3. Resto' /\ e \in Disp /\ modulo[e].vida # "no"
  BY <1>1, <1>2 DEF Resto, Conecto
<1>5. /\ hilo' = [hilo EXCEPT ![h] = hilo'[h]] /\ hilo'[h] \in TipoHilo
      /\ hilo'[h].paso = "espera" /\ hilo'[h].disp = e
  BY <1>1, <1>2 DEF TipoHilo
<1>6. /\ \A d \in Disp \ {e} : Esperan(d)' = Esperan(d)
      /\ Cardinality(Esperan(e))' = Cardinality(Esperan(e)) + 1
  BY <1>2, <1>3, <1>5, EntraAEsperar
<1>7. /\ modulo' \in [Disp -> TipoModulo]
      /\ \A d \in Disp : modulo'[d].vida = modulo[d].vida
      /\ \A d \in Disp \ {e} : modulo'[d] = modulo[d]
      /\ modulo[e].vida = "viva" => EnCamino(e)' = EnCamino(e) + 1
  BY <1>1, <1>2, <1>3, MandaModulo
<1>8. modulo[e].vida = "viva" => Cardinality(Esperan(e))' = EnCamino(e)'
  BY <1>3, <1>6, <1>7 DEF Inv, Cuentas
<1> QED BY <1>2, <1>3, <1>5, <1>6, <1>7, <1>8, PasoConMensaje

(* An answer arrives, and the thread leaves recv with it.                  *)
LEMMA PasoRecibe == ASSUME Inv, NEW h \in Hilos, Recibe(h) PROVE Inv'
<1>0. /\ Resto /\ hilo \in [Hilos -> TipoHilo] /\ modulo \in [Disp -> TipoModulo]
      /\ Conecto(D(h))
  BY TiposPartes DEF Inv, Vivas, Recibe, En
<1>9. PICK e \in Disp : e = D(h)
  BY <1>0 DEF Conecto
<1>1. /\ UNCHANGED <<ios, liberada, donde, pide, usos, ocupado, actual, pedidos, sem, buscador,
                     caido, choque>>
      /\ hilo[h].paso = "espera" /\ hilo[h].disp = e /\ modulo[e].rta # <<>>
      /\ hilo' = [hilo EXCEPT ![h].paso = "mueve", ![h].de = Head(modulo[e].rta)]
      /\ modulo' = [modulo EXCEPT ![e].rta = Tail(@)]
  BY <1>9 DEF Recibe, En, D, varsProc, varsDisp
<1>2. Resto' /\ modulo[e].vida # "no"
  BY <1>0, <1>1, <1>9 DEF Resto, Conecto
<1>3. /\ modulo[e] \in TipoModulo
      /\ modulo[e].envio \in Seq(Procesos) /\ modulo[e].rta \in Seq(Procesos)
  BY <1>0 DEF TipoModulo
<1>4. /\ Head(modulo[e].rta) \in Procesos /\ Tail(modulo[e].rta) \in Seq(Procesos)
      /\ Len(Tail(modulo[e].rta)) = Len(modulo[e].rta) - 1
  BY <1>1, <1>3, HeadTailProperties
<1>5. /\ hilo' = [hilo EXCEPT ![h] = hilo'[h]] /\ hilo'[h] \in TipoHilo
      /\ hilo'[h].paso = "mueve" /\ hilo'[h].disp = e
  BY <1>0, <1>1, <1>4 DEF TipoHilo
<1>6. /\ \A d \in Disp \ {e} : Esperan(d)' = Esperan(d)
      /\ Cardinality(Esperan(e))' = Cardinality(Esperan(e)) - 1
  BY <1>1, <1>5, SaleDeEsperar
<1>7. /\ modulo' \in [Disp -> TipoModulo]
      /\ \A d \in Disp : modulo'[d].vida = modulo[d].vida
      /\ \A d \in Disp \ {e} : modulo'[d] = modulo[d]
      /\ modulo'[e].envio = modulo[e].envio /\ modulo'[e].rta = Tail(modulo[e].rta)
  BY <1>0, <1>1, <1>3, <1>4 DEF TipoModulo
<1>8. modulo[e].vida = "viva" => Cardinality(Esperan(e))' = EnCamino(e)'
  <2>1. Len(modulo[e].envio) \in Nat /\ Len(modulo[e].rta) \in Nat
    BY <1>3, LenProperties
  <2>2. EnCamino(e) = Len(modulo[e].envio) + Len(modulo[e].rta)
    BY DEF EnCamino
  <2>3. EnCamino(e)' = Len(modulo'[e].envio) + Len(modulo'[e].rta)
    BY DEF EnCamino
  <2>4. EnCamino(e)' = Len(modulo[e].envio) + (Len(modulo[e].rta) - 1)
    BY <1>4, <1>7, <2>3
  <2>5. Len(modulo[e].envio) + (Len(modulo[e].rta) - 1)
          = (Len(modulo[e].envio) + Len(modulo[e].rta)) - 1
    BY <2>1
  <2>6. EnCamino(e)' = EnCamino(e) - 1
    BY <2>2, <2>4, <2>5
  <2> QED BY <1>6, <2>6 DEF Inv, Cuentas
<1> QED BY <1>1, <1>2, <1>5, <1>6, <1>7, <1>8, PasoConMensaje

LEMMA PasoRecibePerdida == ASSUME Inv, NEW h \in Hilos, RecibePerdida(h) PROVE Inv'
<1>0. /\ Resto /\ hilo \in [Hilos -> TipoHilo] /\ modulo \in [Disp -> TipoModulo]
      /\ Conecto(D(h))
  BY TiposPartes DEF Inv, Vivas, RecibePerdida, En
<1>9. PICK e \in Disp : e = D(h)
  BY <1>0 DEF Conecto
<1>1. /\ UNCHANGED <<ios, liberada, donde, pide, usos, ocupado, actual, pedidos, sem, buscador,
                     modulo, caido, choque>>
      /\ hilo[h].paso = "espera" /\ hilo[h].disp = e /\ modulo[e].vida = "muerta"
      /\ hilo' = [hilo EXCEPT ![h].paso = "pierde"]
  BY <1>9 DEF RecibePerdida, Sigue, En, D, varsProc, varsDisp
<1>2. Resto'
  BY <1>0, <1>1 DEF Resto
<1>5. /\ hilo' = [hilo EXCEPT ![h] = hilo'[h]] /\ hilo'[h] \in TipoHilo
      /\ hilo'[h].paso = "pierde" /\ hilo'[h].disp = e
  BY <1>0, <1>1 DEF TipoHilo
<1>6. \A d \in Disp \ {e} : Esperan(d)' = Esperan(d)
  BY <1>1, <1>5, SaleDeEsperar
<1> QED BY <1>0, <1>1, <1>2, <1>5, <1>6, PasoConMensaje

------------------------------------------------------------------------------
(* The IO programs.                                                        *)

(* One program changes, no thread moves.                                   *)
LEMMA PasoDeModulo ==
  ASSUME Inv, NEW e \in Disp, UNCHANGED <<liberada, buscador, hilo>>, Resto',
         modulo' \in [Disp -> TipoModulo], \A d \in Disp \ {e} : modulo'[d] = modulo[d],
         modulo'[e].vida # "no",
         modulo'[e].vida = "viva" => Cardinality(Esperan(e)) = EnCamino(e)',
         ios' \in Seq(Disp), SinRepetidos(ios'),
         \A d \in Disp : Contains(ios', d) => Contains(ios, d) \/ (d = e /\ ~liberada[e]),
         \A h \in Hilos : Sacada(h) => ~Contains(ios', D(h))
  PROVE  Inv'
<1>1. Tipos'
  BY TiposPartes, TiposPartesPrima DEF Inv
<1>2. Vivas'
  <2>1. \A d : Conecto(d) => Conecto(d)'
    BY DEF Conecto
  <2>2. Conecto(e)'
    BY DEF Conecto
  <2> QED BY <2>1, <2>2 DEF Inv, Vivas, Sacada, D
<1>3. Cuentas'
  <2>1. \A d \in Disp : Esperan(d)' = Esperan(d)
    BY DEF Esperan, D
  <2>2. \A d \in Disp \ {e} : EnCamino(d)' = EnCamino(d)
    BY DEF EnCamino
  <2>3. ASSUME NEW d \in Disp \ {e}
        PROVE  /\ modulo'[d].vida = "no" => modulo'[d].envio = <<>> /\ modulo'[d].rta = <<>>
               /\ modulo'[d].vida = "viva" => Cardinality(Esperan(d))' = EnCamino(d)'
    BY <2>1, <2>2 DEF Inv, Cuentas
  <2>4. modulo'[e].vida = "viva" => Cardinality(Esperan(e))' = EnCamino(e)'
    BY <2>1
  <2> QED BY <2>3, <2>4 DEF Cuentas
<1> QED BY <1>1, <1>2, <1>3 DEF Inv

LEMMA PasoConecta == ASSUME Inv, NEW e \in Disp, Conecta(e) PROVE Inv'
<1>1. /\ Resto /\ hilo \in [Hilos -> TipoHilo] /\ modulo \in [Disp -> TipoModulo]
      /\ ios \in Seq(Disp)
  BY TiposPartes DEF Inv
<1>2. /\ UNCHANGED <<liberada, buscador, hilo, donde, pide, usos, ocupado, actual, pedidos,
                     caido, choque>>
      /\ modulo[e].vida = "no" /\ sem' = sem + 1 /\ ios' = Append(ios, e)
      /\ modulo' = [modulo EXCEPT ![e].vida = "viva"]
  BY DEF Conecta, varsProc
<1>3. Resto'
  BY <1>1, <1>2 DEF Resto
<1>4. /\ modulo[e] \in TipoModulo
      /\ modulo' \in [Disp -> TipoModulo] /\ \A d \in Disp \ {e} : modulo'[d] = modulo[d]
      /\ modulo'[e].vida = "viva"
      /\ modulo'[e].envio = modulo[e].envio /\ modulo'[e].rta = modulo[e].rta
  BY <1>1, <1>2 DEF TipoModulo
<1>5. ~Contains(ios, e) /\ ~liberada[e] /\ \A h \in Hilos : hilo[h].paso # "no" => D(h) # e
  BY <1>2 DEF Inv, Vivas, Conecto
<1>6. Cardinality(Esperan(e)) = EnCamino(e)'
  <2>1. Esperan(e) = {}
    BY <1>5 DEF Esperan
  <2>2. modulo'[e].envio = <<>> /\ modulo'[e].rta = <<>>
    BY <1>2, <1>4 DEF Inv, Cuentas
  <2>3. EnCamino(e)' = 0
    BY <2>2 DEF EnCamino
  <2> QED BY <2>1, <2>3, FS_EmptySet
<1>7. /\ ios' \in Seq(Disp) /\ SinRepetidos(ios')
      /\ \A x : Contains(ios', x) <=> x = e \/ Contains(ios, x)
  <2>1. SinRepetidos(ios)
    BY DEF Inv, Vivas
  <2>2. /\ ios' \in Seq(Disp) /\ Len(ios') = Len(ios) + 1 /\ Len(ios) \in Nat
        /\ \A i \in 1 .. Len(ios) : ios'[i] = ios[i]
        /\ ios'[Len(ios) + 1] = e
    BY <1>1, <1>2, AppendProperties, LenProperties
  <2>3. \A x : Contains(ios', x) <=> x = e \/ Contains(ios, x)
    BY <2>2 DEF Contains
  <2>4. SinRepetidos(ios')
    <3>1. \A i \in 1 .. Len(ios) : ios[i] # e
      BY <1>5 DEF Contains
    <3>2. ASSUME NEW i \in 1 .. Len(ios'), NEW j \in 1 .. Len(ios'), ios'[i] = ios'[j]
          PROVE  i = j
      <4>1. CASE i \in 1 .. Len(ios) /\ j \in 1 .. Len(ios)
        BY <2>1, <2>2, <3>2, <4>1 DEF SinRepetidos
      <4>2. i \in 1 .. Len(ios) \/ i = Len(ios) + 1
        BY <2>2
      <4>3. j \in 1 .. Len(ios) \/ j = Len(ios) + 1
        BY <2>2
      <4> QED BY <2>2, <3>1, <3>2, <4>1, <4>2, <4>3
    <3> QED BY <3>2 DEF SinRepetidos
  <2> QED BY <2>2, <2>3, <2>4
<1>8. \A h \in Hilos : Sacada(h) => ~Contains(ios', D(h))
  BY <1>5, <1>7 DEF Sacada, Inv, Vivas
<1> QED BY <1>2, <1>3, <1>4, <1>5, <1>6, <1>7, <1>8, PasoDeModulo

(* A program that stays in the list.                                       *)
LEMMA ListaIgual ==
  ASSUME Inv, UNCHANGED ios
  PROVE  /\ ios' \in Seq(Disp) /\ SinRepetidos(ios')
         /\ \A d \in Disp : Contains(ios', d) => Contains(ios, d)
         /\ \A h \in Hilos : Sacada(h) => ~Contains(ios', D(h))
BY TiposPartes DEF Inv, Vivas

LEMMA PasoSirve == ASSUME Inv, NEW e \in Disp, Sirve(e) PROVE Inv'
<1>1. Resto /\ modulo \in [Disp -> TipoModulo]
  BY TiposPartes DEF Inv
<1>2. /\ UNCHANGED <<ios, liberada, buscador, hilo, donde, pide, usos, ocupado, actual, pedidos,
                     sem, caido, choque>>
      /\ modulo[e].vida = "viva" /\ modulo[e].envio # <<>>
      /\ modulo' = [modulo EXCEPT ![e].envio = Tail(@),
                                  ![e].rta = Append(@, Head(modulo[e].envio))]
  BY DEF Sirve, varsProc, varsDisp
<1>3. Resto'
  BY <1>1, <1>2 DEF Resto
<1>4. /\ modulo[e] \in TipoModulo
      /\ modulo[e].envio \in Seq(Procesos) /\ modulo[e].rta \in Seq(Procesos)
  BY <1>1 DEF TipoModulo
<1>5. /\ Head(modulo[e].envio) \in Procesos /\ Tail(modulo[e].envio) \in Seq(Procesos)
      /\ Len(Tail(modulo[e].envio)) = Len(modulo[e].envio) - 1
  BY <1>2, <1>4, HeadTailProperties
<1>6. /\ Append(modulo[e].rta, Head(modulo[e].envio)) \in Seq(Procesos)
      /\ Len(Append(modulo[e].rta, Head(modulo[e].envio))) = Len(modulo[e].rta) + 1
  BY <1>4, <1>5, AppendProperties
<1>7. /\ modulo' \in [Disp -> TipoModulo] /\ \A d \in Disp \ {e} : modulo'[d] = modulo[d]
      /\ modulo'[e].vida = "viva" /\ modulo'[e].envio = Tail(modulo[e].envio)
      /\ modulo'[e].rta = Append(modulo[e].rta, Head(modulo[e].envio))
  BY <1>1, <1>2, <1>4, <1>5, <1>6 DEF TipoModulo
<1>8. Cardinality(Esperan(e)) = EnCamino(e)'
  <2>1. Len(modulo[e].envio) \in Nat /\ Len(modulo[e].rta) \in Nat
    BY <1>4, LenProperties
  <2>2. EnCamino(e)' = Len(modulo'[e].envio) + Len(modulo'[e].rta)
    BY DEF EnCamino
  <2>3. EnCamino(e)' = (Len(modulo[e].envio) - 1) + (Len(modulo[e].rta) + 1)
    BY <1>5, <1>6, <1>7, <2>2
  <2>4. \A a, b \in Nat : (a - 1) + (b + 1) = a + b
    OBVIOUS
  <2>5. (Len(modulo[e].envio) - 1) + (Len(modulo[e].rta) + 1)
          = Len(modulo[e].envio) + Len(modulo[e].rta)
    BY <2>1, <2>4, Zenon
  <2>6. Cardinality(Esperan(e)) = Len(modulo[e].envio) + Len(modulo[e].rta)
    BY <1>2 DEF Inv, Cuentas, EnCamino
  <2> QED BY <2>3, <2>5, <2>6
<1> QED BY <1>2, <1>3, <1>7, <1>8, ListaIgual, PasoDeModulo

LEMMA PasoMuere == ASSUME Inv, NEW e \in Disp, Muere(e) PROVE Inv'
<1>1. Resto /\ modulo \in [Disp -> TipoModulo]
  BY TiposPartes DEF Inv
<1>2. /\ UNCHANGED <<ios, liberada, buscador, hilo, donde, pide, usos, ocupado, actual, pedidos,
                     sem, caido, choque>>
      /\ modulo' = [modulo EXCEPT ![e].vida = "muerta", ![e].envio = <<>>]
  BY DEF Muere, varsProc, varsDisp
<1>3. Resto'
  BY <1>1, <1>2 DEF Resto
<1>4. <<>> \in Seq(Procesos)
  BY EmptySeq
<1>5. /\ modulo' \in [Disp -> TipoModulo] /\ \A d \in Disp \ {e} : modulo'[d] = modulo[d]
      /\ modulo'[e].vida = "muerta"
  BY <1>1, <1>2, <1>4 DEF TipoModulo
<1> QED BY <1>2, <1>3, <1>5, ListaIgual, PasoDeModulo

------------------------------------------------------------------------------
(* liberar_io takes the device out of the list and frees it.               *)

LEMMA PasoPierde == ASSUME Inv, NEW h \in Hilos, Pierde(h) PROVE Inv'
<1>1. /\ Resto /\ hilo \in [Hilos -> TipoHilo] /\ ios \in Seq(Disp)
      /\ Conecto(D(h)) /\ SinRepetidos(ios)
  BY TiposPartes DEF Inv, Vivas, Pierde, En
<1>2. /\ UNCHANGED <<liberada, buscador, modulo, pide, usos, ocupado, actual, pedidos, sem,
                     caido, choque>>
      /\ hilo[h].paso = "pierde" /\ actual[D(h)] # Nadie
      /\ ios' = RemoveFirst(ios, D(h))
      /\ hilo' = [hilo EXCEPT ![h].paso = "cuenta"]
  BY DEF Pierde, En, Sigue
<1>3. Resto'
  <2>1. actual[D(h)] \in Procesos
    BY <1>1, <1>2 DEF Resto, Conecto
  <2>2. donde' \in [Procesos -> (SUBSET Estados) \ {{}}]
    BY <1>1, <2>1, PasaTipos DEF Pierde, Estados
  <2> QED BY <1>1, <1>2, <2>2 DEF Resto
<1>4. /\ hilo' \in [Hilos -> TipoHilo] /\ \A g \in Hilos \ {h} : hilo'[g] = hilo[g]
      /\ hilo'[h].paso = "cuenta" /\ hilo'[h].disp = D(h)
  BY <1>1, <1>2 DEF TipoHilo, D
<1>5. /\ ios' \in Seq(Disp) /\ SinRepetidos(ios') /\ ~Contains(ios', D(h))
      /\ \A x : Contains(ios', x) => Contains(ios, x)
  BY <1>1, <1>2, SacarProps DEF Conecto
<1>6. Tipos'
  <2>1. \A g \in Hilos : hilo'[g].paso \in {"envia", "mira", "echa"} => hilo'[g].nueva \in Procesos
    BY <1>4, TiposPartes DEF Inv
  <2> QED BY <1>2, <1>3, <1>4, <1>5, <2>1, TiposPartes, TiposPartesPrima DEF Inv
<1>7. Vivas'
  <2>1. ASSUME NEW g \in Hilos
        PROVE  /\ hilo'[g].paso # "no" => Conecto(D(g))'
               /\ Sacada(g)' => ~Contains(ios', D(g)')
    <3>1. CASE g = h
      BY <1>1, <1>2, <1>4, <1>5, <3>1 DEF Conecto, D
    <3>2. CASE g # h
      BY <1>2, <1>4, <1>5, <3>2 DEF Inv, Vivas, Conecto, D, Sacada
    <3> QED BY <3>1, <3>2
  <2>2. \A d \in Disp : Contains(ios', d) => Conecto(d) /\ ~liberada[d]
    BY <1>5 DEF Inv, Vivas
  <2> QED BY <1>2, <1>5, <2>1, <2>2 DEF Inv, Vivas, Conecto
<1>8. Cuentas'
  <2>1. \A d \in Disp : Esperan(d)' = Esperan(d)
    BY <1>2, <1>4 DEF Esperan, D
  <2>2. \A d \in Disp : EnCamino(d)' = EnCamino(d)
    BY <1>2 DEF EnCamino
  <2> QED BY <1>2, <2>1, <2>2 DEF Inv, Cuentas
<1> QED BY <1>6, <1>7, <1>8 DEF Inv

LEMMA PasoLibera == ASSUME Inv, NEW h \in Hilos, Libera(h) PROVE Inv'
<1>1. /\ Resto /\ hilo \in [Hilos -> TipoHilo] /\ liberada \in [Disp -> BOOLEAN]
      /\ Conecto(D(h)) /\ ~Contains(ios, D(h))
  BY TiposPartes DEF Inv, Vivas, Libera, En, Sacada
<1>2. /\ UNCHANGED <<ios, buscador, modulo, donde, pide, usos, ocupado, actual, pedidos, sem,
                     choque>>
      /\ hilo[h].paso = "libera" /\ caido' \in BOOLEAN
      /\ liberada' = [liberada EXCEPT ![D(h)] = TRUE]
  BY DEF Libera, En, varsProc
<1>3. Resto'
  BY <1>1, <1>2 DEF Resto
<1>4. /\ hilo' = [hilo EXCEPT ![h] = hilo'[h]] /\ hilo'[h] \in TipoHilo
      /\ hilo'[h].paso \in {"no", "suelta otra vez"}
      /\ hilo'[h].paso # "no" => hilo'[h].disp = D(h)
  BY VuelveHilo DEF Libera
<1>5. hilo' \in [Hilos -> TipoHilo] /\ \A g \in Hilos \ {h} : hilo'[g] = hilo[g]
  BY <1>1, <1>4
<1>6. Tipos'
  <2>1. \A g \in Hilos : hilo'[g].paso \in {"envia", "mira", "echa"} => hilo'[g].nueva \in Procesos
    BY <1>4, <1>5, TiposPartes DEF Inv
  <2>2. liberada' \in [Disp -> BOOLEAN]
    BY <1>1, <1>2
  <2> QED BY <1>2, <1>3, <1>5, <2>1, <2>2, TiposPartes, TiposPartesPrima DEF Inv
<1>7. Vivas'
  <2>1. ASSUME NEW g \in Hilos
        PROVE  /\ hilo'[g].paso # "no" => Conecto(D(g))'
               /\ Sacada(g)' => ~Contains(ios', D(g)')
    <3>1. CASE g = h
      BY <1>1, <1>2, <1>4, <3>1 DEF Conecto, D, Sacada
    <3>2. CASE g # h
      BY <1>2, <1>5, <3>2 DEF Inv, Vivas, Conecto, D, Sacada
    <3> QED BY <3>1, <3>2
  <2>2. \A d \in Disp : Contains(ios, d) => Conecto(d) /\ ~liberada'[d]
    BY <1>1, <1>2 DEF Inv, Vivas
  <2>3. \A d \in Disp : liberada'[d] => Conecto(d)
    BY <1>1, <1>2 DEF Inv, Vivas
  <2> QED BY <1>2, <2>1, <2>2, <2>3 DEF Inv, Vivas, Conecto
<1>8. Cuentas'
  <2>1. \A d \in Disp : Esperan(d)' = Esperan(d)
    BY <1>2, <1>4, <1>5 DEF Esperan, D
  <2>2. \A d \in Disp : EnCamino(d)' = EnCamino(d)
    BY <1>2 DEF EnCamino
  <2> QED BY <1>2, <2>1, <2>2 DEF Inv, Cuentas
<1> QED BY <1>6, <1>7, <1>8 DEF Inv

------------------------------------------------------------------------------
(* Every step.                                                             *)

LEMMA InvPaso == Inv /\ [Next]_vars => Inv'
<1> SUFFICES ASSUME Inv, [Next]_vars PROVE Inv'
  OBVIOUS
<1>1. CASE UNCHANGED vars
  <2>1. /\ UNCHANGED <<ios, liberada, hilo, modulo, buscador>>
        /\ UNCHANGED <<donde, pide, usos, ocupado, actual, pedidos, sem, caido, choque>>
    BY <1>1 DEF vars, varsProc, varsDisp
  <2>2. Resto' /\ buscador \in TipoBuscador
    BY <2>1, TiposPartes DEF Inv, Resto
  <2> QED BY <2>1, <2>2, TiposPartes, PasoAjeno DEF Inv, Vivas
<1>2. ASSUME NEW p \in Procesos, Proceso(p) PROVE Inv'
  BY <1>2, PasoProceso
<1>3. ASSUME NEW d \in Disp, Modulo(d) PROVE Inv'
  BY <1>3, PasoConecta, PasoSirve, PasoMuere DEF Modulo
<1>4. ASSUME Buscador PROVE Inv'
  <2>1. ASSUME BuscadorCae PROVE Inv'
    BY <2>1, PasoCae DEF BuscadorCae
  <2> QED BY <1>4, <2>1, PasoBuscadorDespierta, PasoBuscadorBusca, PasoBuscadorToma,
             PasoBuscadorOcupa, PasoBuscadorEnvia DEF Buscador
<1>5. ASSUME NEW h \in Hilos, Hilo(h) PROVE Inv'
  <2>1. ASSUME Recibe(h) \/ RecibePerdida(h) PROVE Inv'
    BY <2>1, PasoRecibe, PasoRecibePerdida
  <2>2. ASSUME LeenMezclado(h) \/ HiloCae(h) PROVE Inv'
    BY <2>2, PasoCae DEF LeenMezclado, HiloCae
  <2>3. ASSUME Mueve(h) \/ Toma(h) \/ Anota(h) \/ Envia(h) PROVE Inv'
    BY <2>3, PasoMueve, PasoToma, PasoAnota, PasoEnvia
  <2>4. ASSUME Suelta(h) \/ SueltaOtraVez(h) PROVE Inv'
    BY <2>4, PasoSuelta, PasoSueltaOtraVez
  <2>5. ASSUME PierdeOtra(h) \/ Pierde(h) \/ Cuenta(h) \/ Mira(h) PROVE Inv'
    BY <2>5, PasoPierdeOtra, PasoPierde, PasoCuenta
  <2>6. ASSUME Fuerza(h) \/ Echa(h) \/ Libera(h) PROVE Inv'
    BY <2>6, PasoFuerza, PasoEcha, PasoLibera
  <2> QED BY <1>5, <2>1, <2>2, <2>3, <2>4, <2>5, <2>6 DEF Hilo
<1> QED BY <1>1, <1>2, <1>3, <1>4, <1>5 DEF Next

(* The variables of the devices keep their types, whatever the timer, the  *)
(* IO programs and the threads of their answers do and in which order.     *)
THEOREM TiposSiempre == Spec => []TypeOK
<1>1. Inv => TypeOK
  BY DEF Inv, Tipos
<1> QED BY InvInit, InvPaso, <1>1, PTL DEF Spec

(* ios_conectadas, which conexion_con_io and es_valida_io walk, never      *)
(* holds a device that liberar_io has freed.                               *)
THEOREM ListaSinLiberadasSiempre == Spec => []ListaSinLiberadas
<1>1. Inv => ListaSinLiberadas
  <2> SUFFICES ASSUME Inv, NEW d \in ToSet(ios) PROVE ~liberada[d]
    BY DEF ListaSinLiberadas
  <2>1. ios \in Seq(Disp)
    BY TiposPartes DEF Inv
  <2>2. d \in Disp /\ Contains(ios, d)
    BY <2>1 DEF ToSet, Contains
  <2> QED BY <2>2 DEF Inv, Vivas
<1> QED BY InvInit, InvPaso, <1>1, PTL DEF Spec

(* While the program of a device runs, the threads of esperar_rta_io in    *)
(* recv for it are as many as its requests and answers under way.          *)
THEOREM EsperaRespondidaSiempre == Spec => []EsperaRespondida
<1>1. Inv => EsperaRespondida
  BY DEF Inv, Cuentas, EnCamino, EsperaRespondida
<1> QED BY InvInit, InvPaso, <1>1, PTL DEF Spec

------------------------------------------------------------------------------
(* What each step of esperar_rta_io and liberar_io leaves in its thread.   *)
LEMMA SoloUnHilo ==
  ASSUME Inv, NEW h \in Hilos, Hilo(h)
  PROVE  \A g \in Hilos \ {h} : hilo'[g] = hilo[g]
<1>1. hilo \in [Hilos -> TipoHilo]
  BY TiposPartes DEF Inv
<1> QED BY <1>1
        DEF Hilo, Recibe, RecibePerdida, LeenMezclado, Cae, Mueve, Toma, Anota, Envia, Suelta,
            SueltaOtraVez, PierdeOtra, Pierde, Cuenta, Fuerza, Mira, Echa, Libera, HiloCae,
            Sigue, Vuelve

LEMMA CamposAtiende ==
  ASSUME Inv, NEW h \in Hilos
  PROVE  /\ Recibe(h) => /\ hilo[h].paso = "espera" /\ hilo'[h].paso = "mueve"
                         /\ hilo'[h].disp = D(h) /\ hilo'[h].nueva = hilo[h].nueva
                         /\ hilo'[h].de = Head(modulo[D(h)].rta)
         /\ RecibePerdida(h) => /\ hilo[h].paso = "espera" /\ hilo'[h].paso = "pierde"
                                /\ hilo'[h].disp = D(h) /\ hilo'[h].nueva = hilo[h].nueva
         /\ Mueve(h) => /\ hilo[h].paso = "mueve" /\ hilo'[h].paso = "toma"
                        /\ hilo'[h].disp = D(h) /\ hilo'[h].nueva = hilo[h].nueva
         /\ Toma(h) => /\ hilo[h].paso = "toma" /\ hilo'[h].paso = "anota"
                       /\ hilo'[h].disp = D(h) /\ hilo'[h].nueva = Proximo(Nombre[D(h)])
         /\ Anota(h) => /\ hilo[h].paso = "anota" /\ hilo'[h].disp = D(h)
                        /\ hilo'[h].paso = IF hilo[h].nueva = Nadie THEN "suelta" ELSE "envia"
                        /\ hilo'[h].nueva = hilo[h].nueva
         /\ Envia(h) => /\ hilo[h].paso = "envia" /\ hilo'[h].paso = "espera"
                        /\ hilo'[h].disp = D(h) /\ hilo'[h].nueva = Nadie
         /\ Suelta(h) => /\ hilo[h].paso = "suelta" /\ hilo'[h].paso = "suelta otra vez"
                         /\ hilo'[h].disp = D(h) /\ hilo'[h].nueva = hilo[h].nueva
<1>1. hilo \in [Hilos -> TipoHilo] /\ hilo[h] \in TipoHilo
  BY TiposPartes DEF Inv
<1>3. ASSUME Recibe(h)
      PROVE  /\ hilo[h].paso = "espera" /\ hilo'[h].paso = "mueve"
             /\ hilo'[h].disp = D(h) /\ hilo'[h].nueva = hilo[h].nueva
             /\ hilo'[h].de = Head(modulo[D(h)].rta)
  <2>1. hilo[h].paso = "espera"
    BY <1>3 DEF Recibe, En
  <2>2. hilo' = [hilo EXCEPT ![h].paso = "mueve", ![h].de = Head(modulo[D(h)].rta)]
    BY <1>3 DEF Recibe
  <2> QED BY <1>1, <2>1, <2>2 DEF TipoHilo, D
<1>4. RecibePerdida(h) => /\ hilo[h].paso = "espera" /\ hilo'[h].paso = "pierde"
                          /\ hilo'[h].disp = D(h) /\ hilo'[h].nueva = hilo[h].nueva
  BY <1>1 DEF RecibePerdida, Sigue, En, D, TipoHilo
<1>5. ASSUME Mueve(h)
      PROVE  /\ hilo[h].paso = "mueve" /\ hilo'[h].paso = "toma"
             /\ hilo'[h].disp = D(h) /\ hilo'[h].nueva = hilo[h].nueva
  <2>1. hilo[h].paso = "mueve"
    BY <1>5 DEF Mueve, En
  <2>2. hilo' = [hilo EXCEPT ![h].paso = "toma", ![h].de = Nadie]
    BY <1>5 DEF Mueve
  <2> QED BY <1>1, <2>1, <2>2 DEF TipoHilo, D
<1>6. ASSUME Toma(h)
      PROVE  /\ hilo[h].paso = "toma" /\ hilo'[h].paso = "anota"
             /\ hilo'[h].disp = D(h) /\ hilo'[h].nueva = Proximo(Nombre[D(h)])
  <2>1. hilo[h].paso = "toma"
    BY <1>6 DEF Toma, En
  <2>2. hilo' = [hilo EXCEPT ![h].paso = "anota", ![h].nueva = Proximo(Nombre[D(h)])]
    BY <1>6 DEF Toma
  <2> QED BY <1>1, <2>1, <2>2 DEF TipoHilo, D
<1>7. ASSUME Anota(h)
      PROVE  /\ hilo[h].paso = "anota" /\ hilo'[h].disp = D(h)
             /\ hilo'[h].paso = IF hilo[h].nueva = Nadie THEN "suelta" ELSE "envia"
             /\ hilo'[h].nueva = hilo[h].nueva
  <2>1. hilo[h].paso = "anota"
    BY <1>7 DEF Anota, En
  <2>2. hilo' = [hilo EXCEPT ![h].paso = IF hilo[h].nueva = Nadie THEN "suelta" ELSE "envia"]
    BY <1>7 DEF Anota, Sigue
  <2> QED BY <1>1, <2>1, <2>2 DEF TipoHilo, D
<1>8. ASSUME Envia(h)
      PROVE  /\ hilo[h].paso = "envia" /\ hilo'[h].paso = "espera"
             /\ hilo'[h].disp = D(h) /\ hilo'[h].nueva = Nadie
  <2>1. hilo[h].paso = "envia"
    BY <1>8 DEF Envia, En
  <2>2. hilo' = [hilo EXCEPT ![h].paso = "espera", ![h].nueva = Nadie, ![h].bucle = TRUE]
    BY <1>8 DEF Envia
  <2> QED BY <1>1, <2>1, <2>2 DEF TipoHilo, D
<1>9. Suelta(h) => /\ hilo[h].paso = "suelta" /\ hilo'[h].paso = "suelta otra vez"
                   /\ hilo'[h].disp = D(h) /\ hilo'[h].nueva = hilo[h].nueva
  BY <1>1 DEF Suelta, Sigue, En, D, TipoHilo
<1> QED BY <1>3, <1>4, <1>5, <1>6, <1>7, <1>8, <1>9

LEMMA CamposPierde ==
  ASSUME Inv, NEW h \in Hilos
  PROVE  /\ SueltaOtraVez(h) => /\ hilo[h].paso = "suelta otra vez" /\ hilo'[h].paso = "no"
                                /\ hilo'[h].nueva = Nadie
         /\ PierdeOtra(h) \/ Libera(h) =>
              /\ hilo[h].paso \in {"pierde", "libera"}
              /\ hilo'[h].paso \in {"no", "suelta otra vez"}
              /\ hilo'[h].nueva \in {hilo[h].nueva, Nadie}
         /\ Pierde(h) => /\ hilo[h].paso = "pierde" /\ hilo'[h].paso = "cuenta"
                         /\ hilo'[h].disp = D(h) /\ hilo'[h].nueva = hilo[h].nueva
         /\ Cuenta(h) => /\ hilo[h].paso = "cuenta" /\ hilo'[h].paso \in {"libera", "fuerza"}
                         /\ hilo'[h].disp = D(h) /\ hilo'[h].nueva = hilo[h].nueva
         /\ Fuerza(h) => /\ hilo[h].paso = "fuerza" /\ hilo'[h].disp = D(h)
                         /\ hilo'[h].paso = IF Lugares(Nombre[D(h)]) = {} THEN "libera"
                                            ELSE "mira"
                         /\ hilo'[h].nueva = Proximo(Nombre[D(h)])
         /\ Mira(h) => /\ hilo[h].paso = "mira" /\ hilo'[h].paso = "echa"
                       /\ hilo'[h].disp = D(h) /\ hilo'[h].nueva = hilo[h].nueva
         /\ Echa(h) => /\ hilo[h].paso = "echa" /\ hilo'[h].paso = "fuerza"
                       /\ hilo'[h].disp = D(h) /\ hilo'[h].nueva = Nadie
<1>1. hilo \in [Hilos -> TipoHilo] /\ hilo[h] \in TipoHilo
  BY TiposPartes DEF Inv
<1>2. SinHilo \in TipoHilo /\ SinHilo.paso = "no" /\ SinHilo.nueva = Nadie
  BY DEF SinHilo, TipoHilo
<1>3. SueltaOtraVez(h) => /\ hilo[h].paso = "suelta otra vez" /\ hilo'[h].paso = "no"
                          /\ hilo'[h].nueva = Nadie
  BY <1>1, <1>2 DEF SueltaOtraVez, En
<1>4. ASSUME PierdeOtra(h) \/ Libera(h)
      PROVE  /\ hilo[h].paso \in {"pierde", "libera"}
             /\ hilo'[h].paso \in {"no", "suelta otra vez"}
             /\ hilo'[h].nueva \in {hilo[h].nueva, Nadie}
  <2>1. hilo[h].paso \in {"pierde", "libera"} /\ Vuelve(h)
    BY <1>4 DEF PierdeOtra, Libera, En
  <2>2. CASE hilo[h].bucle
    <3>1. hilo' = [hilo EXCEPT ![h] = SinHilo]
      BY <2>1, <2>2 DEF Vuelve
    <3> QED BY <1>1, <1>2, <2>1, <3>1
  <2>3. CASE ~hilo[h].bucle
    <3>1. hilo' = [hilo EXCEPT ![h] = [hilo[h] EXCEPT !.paso = "suelta otra vez"]]
      BY <2>1, <2>3 DEF Vuelve
    <3> QED BY <1>1, <2>1, <3>1 DEF TipoHilo
  <2> QED BY <2>2, <2>3
<1>5. Pierde(h) => /\ hilo[h].paso = "pierde" /\ hilo'[h].paso = "cuenta"
                   /\ hilo'[h].disp = D(h) /\ hilo'[h].nueva = hilo[h].nueva
  BY <1>1 DEF Pierde, Sigue, En, D, TipoHilo
<1>6. ASSUME Cuenta(h)
      PROVE  /\ hilo[h].paso = "cuenta" /\ hilo'[h].paso \in {"libera", "fuerza"}
             /\ hilo'[h].disp = D(h) /\ hilo'[h].nueva = hilo[h].nueva
  <2>1. hilo[h].paso = "cuenta"
    BY <1>6 DEF Cuenta, En
  <2>2. hilo' = [hilo EXCEPT ![h].paso = IF Conectada(Nombre[D(h)]) THEN "libera" ELSE "fuerza"]
    BY <1>6 DEF Cuenta, Sigue
  <2> QED BY <1>1, <2>1, <2>2 DEF TipoHilo, D
<1>7. ASSUME Fuerza(h)
      PROVE  /\ hilo[h].paso = "fuerza" /\ hilo'[h].disp = D(h)
             /\ hilo'[h].paso = IF Lugares(Nombre[D(h)]) = {} THEN "libera"
                                ELSE "mira"
             /\ hilo'[h].nueva = Proximo(Nombre[D(h)])
  <2>1. hilo[h].paso = "fuerza"
    BY <1>7 DEF Fuerza, En
  <2>2. hilo' = [hilo EXCEPT ![h].nueva = Proximo(Nombre[D(h)]),
                              ![h].paso = IF Lugares(Nombre[D(h)]) = {} THEN "libera"
                                          ELSE "mira"]
    BY <1>7 DEF Fuerza
  <2> QED BY <1>1, <2>1, <2>2 DEF TipoHilo, D
<1>8. ASSUME Mira(h)
      PROVE  /\ hilo[h].paso = "mira" /\ hilo'[h].paso = "echa"
             /\ hilo'[h].disp = D(h) /\ hilo'[h].nueva = hilo[h].nueva
  <2>1. hilo[h].paso = "mira"
    BY <1>8 DEF Mira, En
  <2>2. hilo' = [hilo EXCEPT ![h].paso = "echa",
                              ![h].susp = "SUSP_BLOCKED" \in donde[hilo[h].nueva]]
    BY <1>8 DEF Mira
  <2> QED BY <1>1, <2>1, <2>2 DEF TipoHilo, D
<1>9. ASSUME Echa(h)
      PROVE  /\ hilo[h].paso = "echa" /\ hilo'[h].paso = "fuerza"
             /\ hilo'[h].disp = D(h) /\ hilo'[h].nueva = Nadie
  <2>1. hilo[h].paso = "echa"
    BY <1>9 DEF Echa, En
  <2>2. hilo' = [hilo EXCEPT ![h].paso = "fuerza", ![h].nueva = Nadie, ![h].susp = FALSE]
    BY <1>9 DEF Echa
  <2> QED BY <1>1, <2>1, <2>2 DEF TipoHilo, D
<1> QED BY <1>3, <1>4, <1>5, <1>6, <1>7, <1>8, <1>9

LEMMA CamposBuscador ==
  ASSUME Inv
  PROVE  /\ BuscadorDespierta => /\ buscador.paso = "duerme" /\ buscador'.paso = "busca"
                                 /\ buscador'.nueva = buscador.nueva
         /\ BuscadorBusca => /\ buscador.paso = "busca"
                             /\ \/ buscador'.paso = "duerme" /\ buscador'.nueva = Nadie
                                \/ /\ buscador'.paso = "toma"
                                   /\ buscador'.nueva = buscador.nueva
                                   /\ buscador'.disp \in Disp /\ ~ocupado[buscador'.disp]
                                   /\ Contains(ios, buscador'.disp)
         /\ BuscadorToma => /\ buscador.paso = "toma" /\ buscador'.paso = "ocupa"
                            /\ buscador'.disp = buscador.disp
                            /\ buscador'.nueva = Proximo(Nombre[buscador.disp])
         /\ BuscadorOcupa => /\ buscador.paso = "ocupa" /\ buscador'.paso = "envia"
                             /\ buscador'.disp = buscador.disp
                             /\ buscador'.nueva = buscador.nueva
         /\ \A h \in Hilos : BuscadorEnvia(h) =>
              /\ buscador.paso = "envia" /\ buscador'.paso = "duerme"
              /\ buscador'.nueva = Nadie /\ hilo[h].paso = "no"
              /\ hilo'[h].paso = "espera" /\ hilo'[h].nueva = Nadie
              /\ hilo'[h].disp = buscador.disp
              /\ \A g \in Hilos \ {h} : hilo'[g] = hilo[g]
<1>1. buscador \in TipoBuscador /\ ios \in Seq(Disp) /\ hilo \in [Hilos -> TipoHilo]
  BY TiposPartes DEF Inv
<1>2. Duerme.paso = "duerme" /\ Duerme.nueva = Nadie
  BY DEF Duerme
<1>3. BuscadorDespierta => /\ buscador.paso = "duerme" /\ buscador'.paso = "busca"
                           /\ buscador'.nueva = buscador.nueva
  BY <1>1 DEF BuscadorDespierta, Busca, TipoBuscador
<1>4. ASSUME BuscadorBusca
      PROVE  /\ buscador.paso = "busca"
             /\ \/ buscador'.paso = "duerme" /\ buscador'.nueva = Nadie
                \/ /\ buscador'.paso = "toma" /\ buscador'.nueva = buscador.nueva
                   /\ buscador'.disp \in Disp /\ ~ocupado[buscador'.disp]
                   /\ Contains(ios, buscador'.disp)
  <2>0. buscador.paso = "busca"
    BY <1>4 DEF BuscadorBusca, Busca
  <2>1. CASE LibresConReq = {}
    BY <1>2, <1>4, <2>0, <2>1 DEF BuscadorBusca
  <2>2. CASE LibresConReq # {}
    <3> DEFINE i == CHOOSE k \in LibresConReq : \A j \in LibresConReq : k <= j
    <3>1. LibresConReq \in SUBSET Nat
          /\ \A k \in LibresConReq : k \in 1 .. Len(ios) /\ ~ocupado[ios[k]]
      BY <1>1 DEF LibresConReq
    <3>2. i \in LibresConReq
      BY <2>2, <3>1, Menor
    <3>3. buscador' = [buscador EXCEPT !.paso = "toma", !.disp = ios[i]]
      BY <1>4, <2>2 DEF BuscadorBusca
    <3> HIDE DEF i
    <3>4. ios[i] \in Disp /\ Contains(ios, ios[i])
      BY <1>1, <3>1, <3>2 DEF Contains
    <3>5. /\ buscador'.paso = "toma" /\ buscador'.disp = ios[i]
          /\ buscador'.nueva = buscador.nueva
      BY <1>1, <3>3 DEF TipoBuscador
    <3> QED BY <2>0, <3>1, <3>2, <3>4, <3>5
  <2> QED BY <2>1, <2>2
<1>5. BuscadorToma => /\ buscador.paso = "toma" /\ buscador'.paso = "ocupa"
                      /\ buscador'.disp = buscador.disp
                      /\ buscador'.nueva = Proximo(Nombre[buscador.disp])
  BY <1>1 DEF BuscadorToma, Busca, TipoBuscador
<1>6. BuscadorOcupa => /\ buscador.paso = "ocupa" /\ buscador'.paso = "envia"
                       /\ buscador'.disp = buscador.disp
                       /\ buscador'.nueva = buscador.nueva
  BY <1>1 DEF BuscadorOcupa, Busca, TipoBuscador
<1>7. ASSUME NEW h \in Hilos, BuscadorEnvia(h)
      PROVE  /\ buscador.paso = "envia" /\ buscador'.paso = "duerme"
             /\ buscador'.nueva = Nadie /\ hilo[h].paso = "no"
             /\ hilo'[h].paso = "espera" /\ hilo'[h].nueva = Nadie
             /\ hilo'[h].disp = buscador.disp
             /\ \A g \in Hilos \ {h} : hilo'[g] = hilo[g]
  <2> DEFINE r == [SinHilo EXCEPT !.paso = "espera", !.disp = buscador.disp]
  <2>1. r.paso = "espera" /\ r.nueva = Nadie /\ r.disp = buscador.disp
    BY DEF SinHilo
  <2>2. hilo' = [hilo EXCEPT ![h] = r]
    BY <1>7 DEF BuscadorEnvia
  <2> HIDE DEF r
  <2>3. hilo'[h] = r /\ \A g \in Hilos \ {h} : hilo'[g] = hilo[g]
    BY <1>1, <2>2
  <2> QED BY <1>2, <1>7, <2>1, <2>3 DEF BuscadorEnvia, Busca
<1> QED BY <1>3, <1>4, <1>5, <1>6, <1>7

------------------------------------------------------------------------------
(* What the threads, the lists and the programs look like in every state.  *)

(* A thread names the process of a request only until it has dealt with it.*)
Nuevas ==
  /\ buscador.paso \in {"duerme", "busca", "toma"} => buscador.nueva = Nadie
  /\ \A h \in Hilos :
       hilo[h].nueva # Nadie => hilo[h].paso \in {"anota", "envia", "mira", "echa"}

Mudas == \A d \in Disp : modulo[d].vida = "muerta" => modulo[d].envio = <<>>

(* The lists that a process leaves before it enters another.               *)
Listas ==
  \A p \in Procesos : \A e, f \in {"EXEC", "BLOCKED", "SUSP_BLOCKED"} :
    e \in donde[p] /\ f \in donde[p] => e = f

Formas == Nuevas /\ Mudas /\ Listas

LEMMA FormasInit == Init => Formas
<1> SUFFICES ASSUME Init PROVE Formas
  OBVIOUS
<1>1. buscador.nueva = Nadie /\ \A h \in Hilos : hilo[h].nueva = Nadie
  BY DEF Init, Duerme, SinHilo
<1>2. Nuevas /\ Mudas /\ Listas
  BY <1>1 DEF Init, Nuevas, Mudas, Listas
<1> QED BY <1>2 DEF Formas

LEMMA ProximoNinguno == ASSUME NEW n, Lugares(n) = {} PROVE Proximo(n) = Nadie
BY DEF Proximo

LEMMA NuevasPaso == Inv /\ Nuevas /\ [Next]_vars => Nuevas'
<1> SUFFICES ASSUME Inv, Nuevas, [Next]_vars PROVE Nuevas'
  OBVIOUS
<1>1. ASSUME UNCHANGED <<buscador, hilo>> PROVE Nuevas'
  BY <1>1 DEF Nuevas
<1>2. ASSUME NEW h \in Hilos, buscador' = buscador, \A g \in Hilos \ {h} : hilo'[g] = hilo[g],
             hilo'[h].nueva # Nadie => hilo'[h].paso \in {"anota", "envia", "mira", "echa"}
      PROVE  Nuevas'
  BY <1>2 DEF Nuevas
<1>3. ASSUME NEW p \in Procesos, Proceso(p) PROVE Nuevas'
  BY <1>1, <1>3 DEF Proceso, PideIO, PideIOInvalida, EncolaIO, Ejecuta, Suspende
<1>4. ASSUME NEW d \in Disp, Modulo(d) PROVE Nuevas'
  BY <1>1, <1>4 DEF Modulo, Conecta, Sirve, Muere
<1>5. CASE Buscador
  <2>1. CASE BuscadorDespierta \/ BuscadorBusca \/ BuscadorToma \/ BuscadorOcupa
    <3>1. hilo' = hilo
      BY <2>1 DEF BuscadorDespierta, BuscadorBusca, BuscadorToma, BuscadorOcupa
    <3>2. buscador'.paso \in {"duerme", "busca", "toma"} => buscador'.nueva = Nadie
      BY <2>1, CamposBuscador DEF Nuevas
    <3> QED BY <3>1, <3>2 DEF Nuevas
  <2>2. ASSUME NEW h \in Hilos, BuscadorEnvia(h) PROVE Nuevas'
    BY <2>2, CamposBuscador DEF Nuevas
  <2>3. CASE BuscadorCae
    BY <1>1, <2>3 DEF BuscadorCae, Cae
  <2> QED BY <1>5, <2>1, <2>2, <2>3 DEF Buscador
<1>6. ASSUME NEW h \in Hilos, Hilo(h) PROVE Nuevas'
  <2>1. \A g \in Hilos \ {h} : hilo'[g] = hilo[g]
    BY <1>6, SoloUnHilo
  <2>2. CASE LeenMezclado(h) \/ HiloCae(h)
    BY <1>1, <2>2 DEF LeenMezclado, HiloCae, Cae
  <2>3. CASE \/ Recibe(h) \/ RecibePerdida(h) \/ Mueve(h) \/ Toma(h) \/ Anota(h)
             \/ Envia(h) \/ Suelta(h)
    <3>1. buscador' = buscador
      BY <2>3 DEF Recibe, RecibePerdida, Mueve, Toma, Anota, Envia, Suelta
    <3>2. hilo'[h].nueva # Nadie => hilo'[h].paso \in {"anota", "envia", "mira", "echa"}
      BY <2>3, CamposAtiende DEF Nuevas
    <3> QED BY <1>2, <2>1, <3>1, <3>2
  <2>4. CASE \/ SueltaOtraVez(h) \/ PierdeOtra(h) \/ Pierde(h) \/ Cuenta(h) \/ Fuerza(h)
             \/ Mira(h) \/ Echa(h) \/ Libera(h)
    <3>1. buscador' = buscador
      BY <2>4 DEF SueltaOtraVez, PierdeOtra, Pierde, Cuenta, Fuerza, Mira, Echa, Libera
    <3>2. hilo'[h].nueva # Nadie => hilo'[h].paso \in {"anota", "envia", "mira", "echa"}
      BY <2>4, CamposPierde, ProximoNinguno DEF Nuevas
    <3> QED BY <1>2, <2>1, <3>1, <3>2
  <2> QED BY <1>6, <2>2, <2>3, <2>4 DEF Hilo
<1>7. CASE UNCHANGED vars
  BY <1>1, <1>7 DEF vars
<1> QED BY <1>3, <1>4, <1>5, <1>6, <1>7 DEF Next

(* crear_msj_y_mandarselo_a_io, for the sockets.                           *)
LEMMA MandaSocket ==
  ASSUME Inv, NEW e \in Disp, NEW p, Manda(e, p)
  PROVE  /\ \A d \in Disp \ {e} : modulo'[d] = modulo[d]
         /\ modulo'[e].vida = modulo[e].vida /\ modulo'[e].rta = modulo[e].rta
         /\ modulo[e].vida = "viva" => modulo'[e].envio = Append(modulo[e].envio, p)
         /\ modulo[e].vida # "viva" => modulo'[e].envio = modulo[e].envio
<1>1. modulo \in [Disp -> TipoModulo] /\ modulo[e] \in TipoModulo
  BY TiposPartes DEF Inv
<1>2. CASE modulo[e].vida = "viva"
  <2>1. modulo' = [modulo EXCEPT ![e].envio = Append(modulo[e].envio, p)]
    BY <1>2 DEF Manda
  <2> QED BY <1>1, <1>2, <2>1 DEF TipoModulo
<1>3. CASE modulo[e].vida # "viva"
  <2>1. modulo' = [modulo EXCEPT ![e].envio = modulo[e].envio]
    BY <1>3 DEF Manda
  <2> QED BY <1>1, <1>3, <2>1 DEF TipoModulo
<1> QED BY <1>2, <1>3

LEMMA MudasPaso == Inv /\ Mudas /\ [Next]_vars => Mudas'
<1> SUFFICES ASSUME Inv, Mudas, [Next]_vars PROVE Mudas'
  OBVIOUS
<1>0. modulo \in [Disp -> TipoModulo]
  BY TiposPartes DEF Inv
<1>1. ASSUME modulo' = modulo PROVE Mudas'
  BY <1>1 DEF Mudas
<1>2. ASSUME NEW p \in Procesos, Proceso(p) PROVE Mudas'
  BY <1>1, <1>2 DEF Proceso, PideIO, PideIOInvalida, EncolaIO, Ejecuta, Suspende
<1>3. ASSUME NEW d \in Disp, Modulo(d) PROVE Mudas'
  <2>1. CASE Conecta(d) \/ Muere(d)
    <3>1. /\ \A e \in Disp \ {d} : modulo'[e] = modulo[e]
          /\ modulo'[d].vida = "muerta" => modulo'[d].envio = <<>>
      BY <1>0, <2>1 DEF Conecta, Muere, TipoModulo
    <3> QED BY <3>1 DEF Mudas
  <2>2. CASE Sirve(d)
    <3>1. (\A e \in Disp \ {d} : modulo'[e] = modulo[e]) /\ modulo'[d].vida = "viva"
      BY <1>0, <2>2 DEF Sirve, TipoModulo
    <3> QED BY <3>1 DEF Mudas
  <2> QED BY <1>3, <2>1, <2>2 DEF Modulo
<1>4. CASE Buscador
  <2>1. ASSUME NEW h \in Hilos, BuscadorEnvia(h) PROVE Mudas'
    <3>1. Conecto(buscador.disp) /\ Manda(buscador.disp, buscador.nueva)
      BY <2>1 DEF BuscadorEnvia, Busca, Inv, Vivas
    <3> QED BY <3>1, MandaSocket DEF Mudas, Conecto
  <2> QED BY <1>1, <1>4, <2>1 DEF Buscador, BuscadorDespierta, BuscadorBusca, BuscadorToma,
                                  BuscadorOcupa, BuscadorCae, Cae
<1>5. ASSUME NEW h \in Hilos, Hilo(h) PROVE Mudas'
  <2>1. CASE Recibe(h)
    <3>1. Conecto(D(h)) /\ modulo' = [modulo EXCEPT ![D(h)].rta = Tail(@)]
      BY <2>1 DEF Recibe, En, Inv, Vivas
    <3>2. \A d \in Disp : modulo'[d].vida = modulo[d].vida /\ modulo'[d].envio = modulo[d].envio
      BY <1>0, <3>1 DEF Conecto, TipoModulo
    <3> QED BY <3>2 DEF Mudas
  <2>2. CASE Envia(h)
    <3>1. Conecto(D(h)) /\ Manda(D(h), hilo[h].nueva)
      BY <2>2 DEF Envia, En, Inv, Vivas
    <3> QED BY <3>1, MandaSocket DEF Mudas, Conecto
  <2> QED BY <1>1, <1>5, <2>1, <2>2
          DEF Hilo, RecibePerdida, LeenMezclado, Cae, Mueve, Toma, Anota, Suelta,
              SueltaOtraVez, PierdeOtra, Pierde, Cuenta, Fuerza, Mira, Echa, Libera, HiloCae
<1>6. CASE UNCHANGED vars
  BY <1>1, <1>6 DEF vars
<1> QED BY <1>2, <1>3, <1>4, <1>5, <1>6 DEF Next

(* No list but BLOCKED and SUSP_BLOCKED is entered by a process that is    *)
(* still in another of the three.                                          *)
LEMMA ListasPasa ==
  ASSUME Inv, Listas, NEW p \in Procesos, NEW de, NEW a, Pasa(p, de, a),
         \/ a \in {"READY", "SUSP_READY", "EXIT"}
         \/ de = "EXEC" /\ a = "BLOCKED" /\ "EXEC" \in donde[p]
         \/ de = "BLOCKED" /\ a = "SUSP_BLOCKED" /\ "BLOCKED" \in donde[p]
         \/ donde[p] = {de} /\ a = "EXEC"
  PROVE  Listas'
<1>1. donde \in [Procesos -> (SUBSET Estados) \ {{}}]
  BY TiposPartes DEF Inv, Resto
<1>2. /\ donde'[p] = (donde[p] \ {de}) \cup {a}
      /\ \A q \in Procesos \ {p} : donde'[q] = donde[q]
  BY <1>1 DEF Pasa
<1>3. \A e, f \in {"EXEC", "BLOCKED", "SUSP_BLOCKED"} :
        e \in donde'[p] /\ f \in donde'[p] => e = f
  BY <1>2 DEF Listas
<1> QED BY <1>2, <1>3 DEF Listas

LEMMA ListasPaso == Inv /\ Listas /\ [Next]_vars => Listas'
<1> SUFFICES ASSUME Inv, Listas, [Next]_vars PROVE Listas'
  OBVIOUS
<1>1. ASSUME donde' = donde PROVE Listas'
  BY <1>1 DEF Listas
<1>2. ASSUME NEW p \in Procesos, Proceso(p) PROVE Listas'
  <2>1. ASSUME NEW n \in Nombres, PideIO(p, n) PROVE Listas'
    BY <2>1, ListasPasa DEF PideIO, Corre
  <2>2. ASSUME NEW n \in Nombres, PideIOInvalida(p, n) PROVE Listas'
    BY <2>2, ListasPasa DEF PideIOInvalida
  <2>3. CASE EncolaIO(p)
    BY <1>1, <2>3 DEF EncolaIO
  <2>4. CASE Ejecuta(p)
    BY <2>4, ListasPasa DEF Ejecuta
  <2>5. CASE Suspende(p)
    BY <2>5, ListasPasa DEF Suspende
  <2> QED BY <1>2, <2>1, <2>2, <2>3, <2>4, <2>5 DEF Proceso
<1>3. ASSUME NEW d \in Disp, Modulo(d) PROVE Listas'
  BY <1>1, <1>3 DEF Modulo, Conecta, Sirve, Muere, varsProc
<1>4. CASE Buscador
  BY <1>1, <1>4 DEF Buscador, BuscadorDespierta, BuscadorBusca, BuscadorToma, BuscadorOcupa,
                    BuscadorEnvia, BuscadorCae, Cae, varsProc
<1>5. ASSUME NEW h \in Hilos, Hilo(h) PROVE Listas'
  <2>1. CASE Mueve(h) \/ Pierde(h)
    <3>1. Conecto(D(h)) /\ actual[D(h)] # Nadie
      BY <2>1 DEF Mueve, Pierde, En, Inv, Vivas
    <3>2. actual[D(h)] \in Procesos
      BY <3>1, TiposPartes DEF Inv, Resto, Conecto
    <3>3. PICK de \in {"SUSP_BLOCKED", "BLOCKED"}, a \in {"READY", "SUSP_READY", "EXIT"} :
            Pasa(actual[D(h)], de, a)
      BY <2>1 DEF Mueve, Pierde
    <3> QED BY <3>2, <3>3, ListasPasa
  <2>2. CASE Echa(h)
    <3>1. hilo[h].nueva \in Procesos
      BY <2>2 DEF Echa, En, Inv, Tipos
    <3> QED BY <2>2, <3>1, ListasPasa DEF Echa
  <2> QED BY <1>1, <1>5, <2>1, <2>2
          DEF Hilo, Recibe, RecibePerdida, LeenMezclado, Cae, Toma, Anota, Envia, Suelta,
              SueltaOtraVez, PierdeOtra, Cuenta, Fuerza, Mira, Libera, HiloCae, varsProc
<1>6. CASE UNCHANGED vars
  BY <1>1, <1>6 DEF vars, varsProc
<1> QED BY <1>2, <1>3, <1>4, <1>5, <1>6 DEF Next

LEMMA FormasPaso == Inv /\ Formas /\ [Next]_vars => Formas'
BY NuevasPaso, MudasPaso, ListasPaso DEF Formas

------------------------------------------------------------------------------
(* While no device in use was marked free.  A device has one user: the     *)
(* thread that serves it or, about to start one, conexion_con_io.          *)
Usa(h) == hilo[h].paso \notin {"no", "suelta otra vez"}

UnUso ==
  /\ \A g, h \in Hilos : Usa(g) /\ Usa(h) /\ D(g) = D(h) => g = h
  /\ \A h \in Hilos :
       Usa(h) => /\ ocupado[D(h)]
                 /\ ~(buscador.paso = "envia" /\ buscador.disp = D(h))
                 /\ Sacada(h) \/ Contains(ios, D(h))
  /\ buscador.paso = "envia" => ocupado[buscador.disp]
  /\ buscador.paso \in {"toma", "ocupa"} => ~ocupado[buscador.disp]
  /\ buscador.paso \in {"toma", "ocupa", "envia"} => Contains(ios, buscador.disp)

(* No device changes hands.                                                *)
LEMMA UsoQuieto ==
  ASSUME Inv, UnUso, ocupado' = ocupado,
         \A d \in Disp : Contains(ios, d) => Contains(ios', d),
         \A h \in Hilos : Usa(h)' => Usa(h) /\ hilo'[h].disp = D(h) /\ (Sacada(h) => Sacada(h)'),
         buscador'.paso = "envia" => buscador.paso = "envia" /\ buscador'.disp = buscador.disp,
         buscador'.paso \in {"toma", "ocupa"} =>
           ~ocupado[buscador'.disp] /\ buscador'.disp \in Disp /\ Contains(ios, buscador'.disp)
  PROVE  UnUso'
<1>1. \A h \in Hilos : Usa(h) => D(h) \in Disp
  BY DEF Inv, Vivas, Conecto, Usa
<1>2. buscador.paso = "envia" => buscador.disp \in Disp
  BY DEF Inv, Vivas, Conecto
<1>3. \A g, h \in Hilos : Usa(g)' /\ Usa(h)' /\ D(g)' = D(h)' => g = h
  BY DEF UnUso, D
<1>4. \A h \in Hilos :
        Usa(h)' => /\ ocupado'[D(h)']
                   /\ ~(buscador'.paso = "envia" /\ buscador'.disp = D(h)')
                   /\ Sacada(h)' \/ Contains(ios', D(h)')
  BY <1>1 DEF UnUso, D
<1>5. /\ buscador'.paso = "envia" => ocupado'[buscador'.disp]
      /\ buscador'.paso \in {"toma", "ocupa"} => ~ocupado'[buscador'.disp]
      /\ buscador'.paso \in {"toma", "ocupa", "envia"} => Contains(ios', buscador'.disp)
  BY <1>2 DEF UnUso
<1> QED BY <1>3, <1>4, <1>5 DEF UnUso

(* It is given back, by the one that used it.                              *)
LEMMA UsoSuelta ==
  ASSUME Inv, UnUso, NEW h \in Hilos, hilo[h].paso # "no", UNCHANGED <<ios, buscador>>,
         ocupado' = [ocupado EXCEPT ![D(h)] = FALSE], ~Usa(h)',
         \A g \in Hilos \ {h} : hilo'[g] = hilo[g] /\ (Usa(g) => D(g) # D(h)),
         ~(buscador.paso = "envia" /\ buscador.disp = D(h))
  PROVE  UnUso'
<1>1. D(h) \in Disp /\ ocupado \in [Disp -> BOOLEAN]
  BY TiposPartes DEF Inv, Resto, Vivas, Conecto
<1>2. ~ocupado'[D(h)] /\ \A d \in Disp \ {D(h)} : ocupado'[d] = ocupado[d]
  BY <1>1
<1>3. \A g \in Hilos : Usa(g)' => /\ g # h /\ Usa(g) /\ hilo'[g] = hilo[g]
                                 /\ D(g) \in Disp /\ D(g) # D(h)
  BY DEF Inv, Vivas, Conecto, Usa
<1>4. buscador.paso \in {"toma", "ocupa", "envia"} => buscador.disp \in Disp
  BY DEF Inv, Vivas, Conecto
<1>5. \A g, k \in Hilos : Usa(g)' /\ Usa(k)' /\ D(g)' = D(k)' => g = k
  BY <1>3 DEF UnUso, D
<1>6. \A g \in Hilos :
        Usa(g)' => /\ ocupado'[D(g)']
                   /\ ~(buscador'.paso = "envia" /\ buscador'.disp = D(g)')
                   /\ Sacada(g)' \/ Contains(ios', D(g)')
  BY <1>2, <1>3 DEF UnUso, D, Sacada
<1>7. /\ buscador'.paso = "envia" => ocupado'[buscador'.disp]
      /\ buscador'.paso \in {"toma", "ocupa"} => ~ocupado'[buscador'.disp]
      /\ buscador'.paso \in {"toma", "ocupa", "envia"} => Contains(ios', buscador'.disp)
  BY <1>2, <1>4 DEF UnUso
<1> QED BY <1>5, <1>6, <1>7 DEF UnUso

LEMMA UsoOcupa == ASSUME Inv, UnUso, BuscadorOcupa PROVE UnUso'
<1>1. /\ buscador.paso = "ocupa" /\ buscador'.paso = "envia"
      /\ buscador'.disp = buscador.disp /\ UNCHANGED <<ios, hilo>>
      /\ ocupado' = [ocupado EXCEPT ![buscador.disp] = TRUE]
  BY CamposBuscador DEF BuscadorOcupa
<1>2. buscador.disp \in Disp /\ ocupado \in [Disp -> BOOLEAN]
  BY <1>1, TiposPartes DEF Inv, Resto, Vivas, Conecto
<1>3. ocupado'[buscador.disp] /\ \A d \in Disp : ocupado[d] => ocupado'[d]
  BY <1>1, <1>2
<1>4. \A h \in Hilos : Usa(h) => D(h) \in Disp /\ D(h) # buscador.disp
  BY <1>1 DEF Inv, Vivas, Conecto, Usa, UnUso
<1> QED BY <1>1, <1>3, <1>4 DEF UnUso, Usa, D, Sacada

LEMMA UsoEnvia == ASSUME Inv, UnUso, NEW h \in Hilos, BuscadorEnvia(h) PROVE UnUso'
<1>1. /\ buscador.paso = "envia" /\ buscador'.paso = "duerme" /\ hilo'[h].paso = "espera"
      /\ hilo'[h].disp = buscador.disp /\ \A g \in Hilos \ {h} : hilo'[g] = hilo[g]
  BY CamposBuscador
<1>2. UNCHANGED <<ios, ocupado>>
  BY DEF BuscadorEnvia, varsDisp
<1>3. ocupado[buscador.disp] /\ Contains(ios, buscador.disp)
  BY <1>1 DEF UnUso
<1>4. \A g \in Hilos \ {h} : /\ Usa(g)' = Usa(g) /\ D(g)' = D(g) /\ Sacada(g)' = Sacada(g)
                             /\ Usa(g) => D(g) # buscador.disp
  BY <1>1 DEF Usa, D, Sacada, UnUso
<1>5. D(h)' = buscador.disp
  BY <1>1 DEF D
<1>6. \A g, k \in Hilos : Usa(g)' /\ Usa(k)' /\ D(g)' = D(k)' => g = k
  BY <1>4, <1>5 DEF UnUso
<1>7. \A g \in Hilos : Usa(g)' => ocupado'[D(g)'] /\ (Sacada(g)' \/ Contains(ios', D(g)'))
  BY <1>2, <1>3, <1>4, <1>5 DEF UnUso
<1> QED BY <1>1, <1>6, <1>7 DEF UnUso

LEMMA UsoPierde == ASSUME Inv, UnUso, NEW h \in Hilos, Pierde(h) PROVE UnUso'
<1>1. /\ hilo[h].paso = "pierde" /\ hilo'[h].paso = "cuenta" /\ hilo'[h].disp = D(h)
      /\ \A g \in Hilos \ {h} : hilo'[g] = hilo[g]
  BY CamposPierde, SoloUnHilo DEF Hilo
<1>2. UNCHANGED <<buscador, ocupado>> /\ ios' = RemoveFirst(ios, D(h))
  BY DEF Pierde
<1>3. D(h) \in Disp /\ ios \in Seq(Disp) /\ ocupado[D(h)]
  BY <1>1, TiposPartes DEF Inv, Vivas, Conecto, UnUso, Usa
<1>4. \A d \in Disp \ {D(h)} : Contains(ios, d) => Contains(ios', d)
  BY <1>2, <1>3, SacarProps
<1>5. \A g \in Hilos \ {h} : /\ Usa(g)' = Usa(g) /\ D(g)' = D(g) /\ Sacada(g)' = Sacada(g)
                             /\ Usa(g) => D(g) \in Disp \ {D(h)}
  BY <1>1 DEF Usa, D, Sacada, UnUso, Inv, Vivas, Conecto
<1>6. Usa(h) /\ D(h)' = D(h) /\ Sacada(h)'
  BY <1>1 DEF Usa, D, Sacada
<1>7. buscador.paso \in {"toma", "ocupa", "envia"} => buscador.disp \in Disp \ {D(h)}
  BY <1>3, <1>6 DEF UnUso, Inv, Vivas, Conecto
<1>8. \A g, k \in Hilos : Usa(g)' /\ Usa(k)' /\ D(g)' = D(k)' => g = k
  BY <1>5, <1>6 DEF UnUso
<1>9. \A g \in Hilos :
        Usa(g)' => /\ ocupado'[D(g)']
                   /\ ~(buscador'.paso = "envia" /\ buscador'.disp = D(g)')
                   /\ Sacada(g)' \/ Contains(ios', D(g)')
  BY <1>2, <1>4, <1>5, <1>6 DEF UnUso
<1> QED BY <1>2, <1>4, <1>7, <1>8, <1>9 DEF UnUso

LEMMA UsoPaso == ASSUME Inv, UnUso, [Next]_vars, ~choque' PROVE UnUso'
<1>0. \A d \in Disp : Contains(ios, d) => Contains(ios, d)
  OBVIOUS
<1>1. ASSUME UNCHANGED <<ocupado, ios, hilo, buscador>> PROVE UnUso'
  BY <1>1 DEF UnUso, Usa, D, Sacada
<1>2. ASSUME NEW p \in Procesos, Proceso(p) PROVE UnUso'
  BY <1>1, <1>2 DEF Proceso, PideIO, PideIOInvalida, EncolaIO, Ejecuta, Suspende, varsDisp
<1>3. ASSUME NEW d \in Disp, Modulo(d) PROVE UnUso'
  <2>1. CASE Conecta(d)
    <3>1. UNCHANGED <<ocupado, hilo, buscador>> /\ ios' = Append(ios, d)
      BY <2>1 DEF Conecta
    <3>2. ios \in Seq(Disp)
      BY TiposPartes DEF Inv
    <3>3. \A e \in Disp : Contains(ios, e) => Contains(ios', e)
      <4>1. /\ Len(ios') = Len(ios) + 1 /\ Len(ios) \in Nat
            /\ \A i \in 1 .. Len(ios) : ios'[i] = ios[i]
        BY <3>1, <3>2, AppendProperties, LenProperties
      <4> QED BY <4>1 DEF Contains
    <3>4. \A h \in Hilos : Usa(h)' = Usa(h) /\ Sacada(h)' = Sacada(h) /\ hilo'[h].disp = D(h)
      BY <3>1 DEF Usa, Sacada, D
    <3>5. buscador.paso \in {"toma", "ocupa"} =>
            ~ocupado[buscador.disp] /\ buscador.disp \in Disp /\ Contains(ios, buscador.disp)
      BY DEF UnUso, Inv, Vivas, Conecto
    <3> QED BY <3>1, <3>3, <3>4, <3>5, UsoQuieto
  <2>2. CASE Sirve(d) \/ Muere(d)
    BY <1>1, <2>2 DEF Sirve, Muere, varsDisp
  <2> QED BY <1>3, <2>1, <2>2 DEF Modulo
<1>4. CASE Buscador
  <2>1. CASE BuscadorDespierta \/ BuscadorBusca \/ BuscadorToma
    <3>1. UNCHANGED <<ocupado, ios, hilo>>
      BY <2>1 DEF BuscadorDespierta, BuscadorBusca, BuscadorToma, varsDisp
    <3>2. /\ buscador'.paso # "envia"
          /\ buscador'.paso \in {"toma", "ocupa"} =>
               ~ocupado[buscador'.disp] /\ buscador'.disp \in Disp /\ Contains(ios, buscador'.disp)
      BY <2>1, CamposBuscador DEF UnUso, Inv, Vivas, Conecto
    <3>3. \A h \in Hilos : Usa(h)' = Usa(h) /\ Sacada(h)' = Sacada(h) /\ hilo'[h].disp = D(h)
      BY <3>1 DEF Usa, Sacada, D
    <3> QED BY <1>0, <3>1, <3>2, <3>3, UsoQuieto
  <2>2. CASE BuscadorCae
    BY <1>1, <2>2 DEF BuscadorCae, Cae, varsDisp
  <2> QED BY <1>4, <2>1, <2>2, UsoOcupa, UsoEnvia DEF Buscador
<1>5. ASSUME NEW h \in Hilos, Hilo(h) PROVE UnUso'
  <2>1. \A g \in Hilos \ {h} : hilo'[g] = hilo[g]
    BY <1>5, SoloUnHilo
  <2>2. ASSUME UNCHANGED <<ocupado, ios, buscador>>,
               Usa(h)' => Usa(h) /\ hilo'[h].disp = D(h) /\ (Sacada(h) => Sacada(h)')
        PROVE  UnUso'
    <3>1. \A g \in Hilos :
            Usa(g)' => Usa(g) /\ hilo'[g].disp = D(g) /\ (Sacada(g) => Sacada(g)')
      BY <2>1, <2>2 DEF Usa, Sacada, D
    <3>2. buscador.paso \in {"toma", "ocupa"} =>
            ~ocupado[buscador.disp] /\ buscador.disp \in Disp /\ Contains(ios, buscador.disp)
      BY DEF UnUso, Inv, Vivas, Conecto
    <3> QED BY <1>0, <2>2, <3>1, <3>2, UsoQuieto
  <2>3. CASE Recibe(h) \/ RecibePerdida(h) \/ Mueve(h) \/ Toma(h) \/ Anota(h) \/ Envia(h)
    <3>1. UNCHANGED <<ocupado, ios, buscador>>
      BY <2>3 DEF Recibe, RecibePerdida, Mueve, Toma, Anota, Envia, varsDisp
    <3>2. Usa(h) /\ ~Sacada(h) /\ hilo'[h].disp = D(h)
      BY <2>3, CamposAtiende DEF Usa, Sacada
    <3> QED BY <2>2, <3>1, <3>2
  <2>4. CASE PierdeOtra(h) \/ Libera(h)
    <3>1. UNCHANGED <<ocupado, ios, buscador>>
      BY <2>4 DEF PierdeOtra, Libera, varsDisp
    <3>2. ~Usa(h)'
      BY <2>4, CamposPierde DEF Usa
    <3> QED BY <2>2, <3>1, <3>2
  <2>5. CASE Cuenta(h) \/ Fuerza(h) \/ Mira(h) \/ Echa(h)
    <3>1. UNCHANGED <<ocupado, ios, buscador>>
      BY <2>5 DEF Cuenta, Fuerza, Mira, Echa, varsDisp
    <3>2. Usa(h) /\ Sacada(h)' /\ hilo'[h].disp = D(h)
      BY <2>5, CamposPierde DEF Usa, Sacada
    <3> QED BY <2>2, <3>1, <3>2
  <2>6. CASE Suelta(h)
    <3>1. /\ UNCHANGED <<ios, buscador>> /\ ocupado' = [ocupado EXCEPT ![D(h)] = FALSE]
          /\ hilo[h].paso = "suelta" /\ ~Usa(h)'
      BY <2>6, CamposAtiende DEF Suelta, Usa
    <3>2. Usa(h)
      BY <3>1 DEF Usa
    <3>3. /\ \A g \in Hilos \ {h} : Usa(g) => D(g) # D(h)
          /\ ~(buscador.paso = "envia" /\ buscador.disp = D(h))
      BY <3>2 DEF UnUso
    <3> QED BY <2>1, <3>1, <3>3, UsoSuelta
  <2>7. CASE SueltaOtraVez(h)
    <3>1. UNCHANGED <<ios, buscador>> /\ hilo[h].paso = "suelta otra vez" /\ ~Usa(h)'
      BY <2>7, CamposPierde DEF SueltaOtraVez, Usa
    <3>2. CASE liberada[D(h)]
      <4>1. ocupado' = ocupado
        BY <2>7, <3>2 DEF SueltaOtraVez
      <4> QED BY <2>2, <3>1, <4>1
    <3>3. CASE ~liberada[D(h)]
      <4>1. ocupado' = [ocupado EXCEPT ![D(h)] = FALSE] /\ ~Tomada(h)
        BY <2>7, <3>3 DEF SueltaOtraVez
      <4>2. /\ \A g \in Hilos \ {h} : Usa(g) => D(g) # D(h)
            /\ ~(buscador.paso = "envia" /\ buscador.disp = D(h))
        BY <4>1 DEF Tomada, Usa
      <4> QED BY <2>1, <3>1, <4>1, <4>2, UsoSuelta
    <3> QED BY <3>2, <3>3
  <2>8. CASE LeenMezclado(h) \/ HiloCae(h)
    BY <1>1, <2>8 DEF LeenMezclado, HiloCae, Cae, varsDisp
  <2> QED BY <1>5, <2>3, <2>4, <2>5, <2>6, <2>7, <2>8, UsoPierde DEF Hilo
<1>6. CASE UNCHANGED vars
  BY <1>1, <1>6 DEF vars, varsDisp
<1> QED BY <1>2, <1>3, <1>4, <1>5, <1>6 DEF Next

(* There is one message of a device at most, of its process, and then its  *)
(* thread is in recv.                                                      *)
Vacio(d) == modulo[d].envio = <<>> /\ modulo[d].rta = <<>>
Lleva(d, p) == \/ modulo[d].envio = <<p>> /\ modulo[d].rta = <<>>
               \/ modulo[d].envio = <<>> /\ modulo[d].rta = <<p>>

UnMensaje == \A d \in Disp : Vacio(d) \/ (Lleva(d, actual[d]) /\ Esperan(d) # {})

Actuales ==
  /\ buscador.paso = "envia" => actual[buscador.disp] = buscador.nueva
  /\ \A h \in Hilos : /\ hilo[h].paso = "envia" => actual[D(h)] = hilo[h].nueva
                      /\ hilo[h].paso = "mueve" => actual[D(h)] = hilo[h].de

LEMMA UnaSecuencia ==
  ASSUME NEW p
  PROVE  /\ Append(<<>>, p) = <<p>> /\ Head(<<p>>) = p /\ Tail(<<p>>) = <<>> /\ <<p>> # <<>>
         /\ \A q : <<p>> = <<q>> => p = q
OBVIOUS

(* No thread leaves recv, and no device in use changes process.            *)
LEMMA MensajeQuieto ==
  ASSUME Inv, UnMensaje, NEW d \in Disp,
         modulo'[d].envio = modulo[d].envio, modulo'[d].rta = modulo[d].rta,
         \A h \in Hilos : hilo[h].paso = "espera" /\ D(h) = d =>
           hilo'[h].paso = "espera" /\ hilo'[h].disp = d /\ actual'[d] = actual[d]
  PROVE  Vacio(d)' \/ (Lleva(d, actual[d])' /\ Esperan(d)' # {})
<1>1. CASE Vacio(d)
  BY <1>1 DEF Vacio
<1>2. CASE Lleva(d, actual[d]) /\ Esperan(d) # {}
  <2>1. PICK h \in Hilos : hilo[h].paso = "espera" /\ D(h) = d
    BY <1>2 DEF Esperan
  <2>2. hilo'[h].paso = "espera" /\ D(h)' = d /\ actual'[d] = actual[d]
    BY <2>1 DEF D
  <2>3. h \in Esperan(d)'
    BY <2>2 DEF Esperan
  <2>4. Lleva(d, actual[d])'
    BY <1>2, <2>2 DEF Lleva
  <2> QED BY <2>3, <2>4
<1> QED BY <1>1, <1>2 DEF UnMensaje

(* A thread of e sends a request, and goes to recv.                        *)
LEMMA MensajeManda ==
  ASSUME Inv, UnMensaje, NEW e \in Disp, NEW p, Manda(e, p), Esperan(e) = {},
         actual' = actual, actual[e] = p, NEW h \in Hilos,
         hilo'[h].paso = "espera", hilo'[h].disp = e,
         \A g \in Hilos \ {h} : hilo'[g] = hilo[g], hilo[h].paso # "espera"
  PROVE  UnMensaje'
<1>1. Vacio(e)
  BY DEF UnMensaje
<1>2. /\ \A d \in Disp \ {e} : modulo'[d] = modulo[d]
      /\ modulo'[e].rta = <<>> /\ modulo'[e].envio \in {<<>>, <<p>>}
  <2>1. Append(<<>>, p) = <<p>>
    OBVIOUS
  <2> QED BY <1>1, <2>1, MandaSocket DEF Vacio
<1>3. h \in Esperan(e)'
  BY DEF Esperan, D
<1>4. Vacio(e)' \/ (Lleva(e, actual[e])' /\ Esperan(e)' # {})
  BY <1>2, <1>3 DEF Vacio, Lleva
<1>5. \A d \in Disp \ {e} : Vacio(d)' \/ (Lleva(d, actual[d])' /\ Esperan(d)' # {})
  <2>1. \A g \in Hilos : hilo[g].paso = "espera" => hilo'[g] = hilo[g] /\ actual' = actual
    OBVIOUS
  <2> QED BY <1>2, <2>1, MensajeQuieto DEF D
<1> QED BY <1>4, <1>5 DEF UnMensaje

(* The thread of e leaves recv, with the answer or without one.            *)
LEMMA MensajeRecibe ==
  ASSUME Inv, UnMensaje, NEW h \in Hilos, actual' = actual,
         \A g \in Hilos \ {h} : hilo'[g] = hilo[g], NEW e \in Disp, D(h) = e,
         \A d \in Disp \ {e} : modulo'[d] = modulo[d], Vacio(e)'
  PROVE  UnMensaje'
<1>1. ASSUME NEW d \in Disp \ {e} PROVE Vacio(d)' \/ (Lleva(d, actual[d])' /\ Esperan(d)' # {})
  <2>1. \A g \in Hilos : hilo[g].paso = "espera" /\ D(g) = d =>
          hilo'[g].paso = "espera" /\ hilo'[g].disp = d /\ actual'[d] = actual[d]
    BY DEF D
  <2> QED BY <2>1, MensajeQuieto
<1> QED BY <1>1 DEF UnMensaje

LEMMA MensajePaso ==
  ASSUME Inv, Mudas, UnUso, UnMensaje, Actuales, [Next]_vars PROVE UnMensaje'
<1>0. modulo \in [Disp -> TipoModulo] /\ actual \in [Disp -> Procesos \cup {Nadie}]
  BY TiposPartes DEF Inv, Resto
<1>1. ASSUME modulo' = modulo,
             \A h \in Hilos : hilo[h].paso = "espera" =>
               /\ hilo'[h].paso = "espera" /\ hilo'[h].disp = D(h)
               /\ actual'[D(h)] = actual[D(h)]
      PROVE  UnMensaje'
  BY <1>1, MensajeQuieto DEF UnMensaje
<1>2. ASSUME UNCHANGED <<modulo, actual, hilo>> PROVE UnMensaje'
  BY <1>1, <1>2 DEF D
<1>3. ASSUME NEW p \in Procesos, Proceso(p) PROVE UnMensaje'
  BY <1>2, <1>3 DEF Proceso, PideIO, PideIOInvalida, EncolaIO, Ejecuta, Suspende, varsDisp
<1>4. ASSUME NEW e \in Disp, Modulo(e) PROVE UnMensaje'
  <2>1. UNCHANGED <<actual, hilo>> /\ \A d \in Disp \ {e} : modulo'[d] = modulo[d]
    BY <1>0, <1>4 DEF Modulo, Conecta, Sirve, Muere, varsDisp
  <2>2. \A d \in Disp : Esperan(d)' = Esperan(d)
    BY <2>1 DEF Esperan, D
  <2>3. ASSUME Vacio(e)' \/ \E p : p = actual[e] /\ Lleva(e, p)' /\ Esperan(e) # {}
        PROVE  UnMensaje'
    <3>1. \A d \in Disp \ {e} : Vacio(d)' \/ (Lleva(d, actual[d])' /\ Esperan(d)' # {})
      BY <2>1, <2>2 DEF UnMensaje, Vacio, Lleva
    <3>2. Vacio(e)' \/ (Lleva(e, actual[e])' /\ Esperan(e)' # {})
      BY <2>1, <2>2, <2>3 DEF Lleva
    <3> QED BY <3>1, <3>2 DEF UnMensaje
  <2>4. Vacio(e) \/ (Lleva(e, actual[e]) /\ Esperan(e) # {})
    BY DEF UnMensaje
  <2>5. CASE Conecta(e)
    <3>1. modulo'[e].envio = modulo[e].envio /\ modulo'[e].rta = modulo[e].rta
      BY <1>0, <2>5 DEF Conecta, TipoModulo
    <3> QED BY <2>3, <2>4, <3>1 DEF Vacio, Lleva
  <2>6. CASE Sirve(e)
    <3>1. /\ modulo[e].envio # <<>> /\ modulo'[e].envio = Tail(modulo[e].envio)
          /\ modulo'[e].rta = Append(modulo[e].rta, Head(modulo[e].envio))
      BY <1>0, <2>6 DEF Sirve, TipoModulo
    <3>2. modulo[e].envio = <<actual[e]>> /\ modulo[e].rta = <<>> /\ Esperan(e) # {}
      BY <2>4, <3>1 DEF Vacio, Lleva
    <3>3. modulo'[e].envio = <<>> /\ modulo'[e].rta = <<actual[e]>>
      BY <3>1, <3>2, UnaSecuencia
    <3> QED BY <2>3, <3>2, <3>3 DEF Lleva
  <2>7. CASE Muere(e)
    <3>1. modulo'[e].envio = <<>> /\ modulo'[e].rta = modulo[e].rta
      BY <1>0, <2>7 DEF Muere, TipoModulo
    <3> QED BY <2>3, <2>4, <3>1 DEF Vacio, Lleva
  <2> QED BY <1>4, <2>5, <2>6, <2>7 DEF Modulo
<1>5. CASE Buscador
  <2>1. CASE BuscadorOcupa
    <3>1. /\ UNCHANGED <<modulo, hilo>> /\ buscador.paso = "ocupa" /\ buscador.disp \in Disp
          /\ actual' = [actual EXCEPT ![buscador.disp] = buscador.nueva]
      BY <2>1 DEF BuscadorOcupa, Busca, Inv, Vivas, Conecto
    <3>2. \A h \in Hilos : hilo[h].paso = "espera" => D(h) \in Disp /\ D(h) # buscador.disp
      BY <3>1 DEF UnUso, Usa, Inv, Vivas, Conecto
    <3>3. \A h \in Hilos : hilo[h].paso = "espera" => actual'[D(h)] = actual[D(h)]
      BY <1>0, <3>1, <3>2
    <3> QED BY <1>1, <3>1, <3>3 DEF D
  <2>2. ASSUME NEW h \in Hilos, BuscadorEnvia(h) PROVE UnMensaje'
    <3>1. /\ buscador.paso = "envia" /\ hilo[h].paso = "no" /\ hilo'[h].paso = "espera"
          /\ hilo'[h].disp = buscador.disp /\ \A g \in Hilos \ {h} : hilo'[g] = hilo[g]
      BY <2>2, CamposBuscador
    <3>2. PICK e \in Disp : e = buscador.disp
      BY <3>1 DEF Inv, Vivas, Conecto
    <3>3. PICK p : p = buscador.nueva
      OBVIOUS
    <3>4. Manda(e, p) /\ actual' = actual
      BY <2>2, <3>2, <3>3 DEF BuscadorEnvia, varsDisp
    <3>5. Esperan(e) = {}
      BY <3>1, <3>2 DEF UnUso, Usa, Esperan
    <3>6. actual[e] = p
      BY <3>1, <3>2, <3>3 DEF Actuales
    <3> QED BY <3>1, <3>2, <3>4, <3>5, <3>6, MensajeManda
  <2>3. CASE BuscadorDespierta \/ BuscadorBusca \/ BuscadorToma \/ BuscadorCae
    BY <1>2, <2>3 DEF BuscadorDespierta, BuscadorBusca, BuscadorToma, BuscadorCae, Cae,
                      varsDisp
  <2> QED BY <1>5, <2>1, <2>2, <2>3 DEF Buscador
<1>6. ASSUME NEW h \in Hilos, Hilo(h) PROVE UnMensaje'
  <2>1. \A g \in Hilos \ {h} : hilo'[g] = hilo[g]
    BY <1>6, SoloUnHilo
  <2>2. ASSUME modulo' = modulo, actual' = actual, hilo[h].paso # "espera" PROVE UnMensaje'
    BY <1>1, <2>1, <2>2 DEF D
  <2>3. CASE Recibe(h)
    <3>1. /\ hilo[h].paso = "espera" /\ modulo[D(h)].rta # <<>> /\ actual' = actual
          /\ modulo' = [modulo EXCEPT ![D(h)].rta = Tail(@)] /\ D(h) \in Disp
      BY <2>3 DEF Recibe, En, varsDisp, Inv, Vivas, Conecto
    <3>2. /\ modulo[D(h)].envio = <<>> /\ modulo[D(h)].rta = <<actual[D(h)]>>
      BY <3>1 DEF UnMensaje, Vacio, Lleva
    <3>3. /\ modulo'[D(h)].envio = modulo[D(h)].envio
          /\ modulo'[D(h)].rta = Tail(modulo[D(h)].rta)
          /\ \A d \in Disp \ {D(h)} : modulo'[d] = modulo[d]
      BY <1>0, <3>1 DEF TipoModulo
    <3>4. PICK e \in Disp : e = D(h)
      BY <3>1
    <3>5. Vacio(e)'
      BY <3>2, <3>3, <3>4, UnaSecuencia DEF Vacio
    <3> QED BY <2>1, <3>1, <3>3, <3>4, <3>5, MensajeRecibe
  <2>4. CASE RecibePerdida(h)
    <3>1. /\ hilo[h].paso = "espera" /\ modulo[D(h)].rta = <<>> /\ actual' = actual
          /\ modulo[D(h)].vida = "muerta" /\ modulo' = modulo /\ D(h) \in Disp
      BY <2>4 DEF RecibePerdida, En, varsDisp, Inv, Vivas, Conecto
    <3>2. modulo[D(h)].envio = <<>>
      BY <3>1 DEF Mudas
    <3>3. PICK e \in Disp : e = D(h)
      BY <3>1
    <3>4. Vacio(e)'
      BY <3>1, <3>2, <3>3 DEF Vacio
    <3> QED BY <2>1, <3>1, <3>3, <3>4, MensajeRecibe
  <2>5. CASE Anota(h)
    <3>1. /\ hilo[h].paso = "anota" /\ modulo' = modulo /\ D(h) \in Disp
          /\ actual' = [actual EXCEPT ![D(h)] = hilo[h].nueva]
      BY <2>5 DEF Anota, En, Inv, Vivas, Conecto
    <3>2. \A g \in Hilos : hilo[g].paso = "espera" => /\ g # h /\ D(g) \in Disp
                                                     /\ D(g) # D(h)
      BY <3>1 DEF UnUso, Usa, Inv, Vivas, Conecto
    <3>3. \A g \in Hilos : hilo[g].paso = "espera" => /\ hilo'[g] = hilo[g]
                                                     /\ actual'[D(g)] = actual[D(g)]
      BY <1>0, <2>1, <3>1, <3>2
    <3> QED BY <1>1, <3>1, <3>3 DEF D
  <2>6. CASE Envia(h)
    <3>1. /\ hilo[h].paso = "envia" /\ hilo'[h].paso = "espera" /\ hilo'[h].disp = D(h)
      BY <2>6, CamposAtiende
    <3>2. PICK e \in Disp : e = D(h)
      BY <3>1 DEF Inv, Vivas, Conecto
    <3>3. PICK p : p = hilo[h].nueva
      OBVIOUS
    <3>4. Manda(e, p) /\ actual' = actual
      BY <2>6, <3>2, <3>3 DEF Envia, varsDisp
    <3>5. Esperan(e) = {}
      BY <3>1, <3>2 DEF UnUso, Usa, Esperan
    <3>6. actual[e] = p
      BY <3>1, <3>2, <3>3 DEF Actuales
    <3> QED BY <2>1, <3>1, <3>2, <3>4, <3>5, <3>6, MensajeManda
  <2>7. CASE Mueve(h) \/ Toma(h) \/ Suelta(h) \/ SueltaOtraVez(h)
    BY <2>2, <2>7, CamposAtiende, CamposPierde
       DEF Mueve, Toma, Suelta, SueltaOtraVez, varsDisp
  <2>8. CASE PierdeOtra(h) \/ Pierde(h) \/ Cuenta(h) \/ Fuerza(h) \/ Mira(h) \/ Echa(h)
             \/ Libera(h)
    BY <2>2, <2>8, CamposPierde DEF PierdeOtra, Pierde, Cuenta, Fuerza, Mira, Echa, Libera,
                                    varsDisp
  <2>9. CASE LeenMezclado(h) \/ HiloCae(h)
    BY <1>2, <2>9 DEF LeenMezclado, HiloCae, Cae, varsDisp
  <2> QED BY <1>6, <2>3, <2>4, <2>5, <2>6, <2>7, <2>8, <2>9 DEF Hilo
<1>7. CASE UNCHANGED vars
  BY <1>2, <1>7 DEF vars, varsDisp
<1> QED BY <1>3, <1>4, <1>5, <1>6, <1>7 DEF Next

LEMMA ActualesPaso ==
  ASSUME Inv, UnUso, UnMensaje, Actuales, [Next]_vars PROVE Actuales'
<1>0. actual \in [Disp -> Procesos \cup {Nadie}]
  BY TiposPartes DEF Inv, Resto
<1>1. ASSUME UNCHANGED <<actual, hilo, buscador>> PROVE Actuales'
  BY <1>1 DEF Actuales, D
<1>2. ASSUME NEW p \in Procesos, Proceso(p) PROVE Actuales'
  BY <1>1, <1>2 DEF Proceso, PideIO, PideIOInvalida, EncolaIO, Ejecuta, Suspende, varsDisp
<1>3. ASSUME NEW d \in Disp, Modulo(d) PROVE Actuales'
  BY <1>1, <1>3 DEF Modulo, Conecta, Sirve, Muere, varsDisp
<1>4. CASE Buscador
  <2>1. CASE BuscadorDespierta \/ BuscadorBusca \/ BuscadorToma
    <3>1. UNCHANGED <<actual, hilo>> /\ buscador'.paso # "envia"
      BY <2>1, CamposBuscador DEF BuscadorDespierta, BuscadorBusca, BuscadorToma, varsDisp
    <3> QED BY <3>1 DEF Actuales, D
  <2>2. CASE BuscadorOcupa
    <3>1. /\ buscador.paso = "ocupa" /\ buscador'.paso = "envia"
          /\ buscador'.disp = buscador.disp /\ buscador'.nueva = buscador.nueva
          /\ hilo' = hilo /\ buscador.disp \in Disp
          /\ actual' = [actual EXCEPT ![buscador.disp] = buscador.nueva]
      BY <2>2, CamposBuscador DEF BuscadorOcupa, Inv, Vivas, Conecto
    <3>2. /\ actual'[buscador.disp] = buscador.nueva
          /\ \A d \in Disp \ {buscador.disp} : actual'[d] = actual[d]
      BY <1>0, <3>1
    <3>3. \A h \in Hilos : Usa(h) => D(h) \in Disp \ {buscador.disp}
      BY <3>1 DEF UnUso, Usa, Inv, Vivas, Conecto
    <3> QED BY <3>1, <3>2, <3>3 DEF Actuales, Usa, D
  <2>3. ASSUME NEW h \in Hilos, BuscadorEnvia(h) PROVE Actuales'
    <3>1. /\ actual' = actual /\ buscador'.paso = "duerme" /\ hilo'[h].paso = "espera"
          /\ \A g \in Hilos \ {h} : hilo'[g] = hilo[g]
      BY <2>3, CamposBuscador DEF BuscadorEnvia, varsDisp
    <3> QED BY <3>1 DEF Actuales, D
  <2>4. CASE BuscadorCae
    BY <1>1, <2>4 DEF BuscadorCae, Cae, varsDisp
  <2> QED BY <1>4, <2>1, <2>2, <2>3, <2>4 DEF Buscador
<1>5. ASSUME NEW h \in Hilos, Hilo(h) PROVE Actuales'
  <2>1. \A g \in Hilos \ {h} : hilo'[g] = hilo[g]
    BY <1>5, SoloUnHilo
  <2>2. ASSUME UNCHANGED <<actual, buscador>>, hilo'[h].paso \notin {"envia", "mueve"}
        PROVE  Actuales'
    BY <2>1, <2>2 DEF Actuales, D
  <2>3. CASE Recibe(h)
    <3>1. /\ UNCHANGED <<actual, buscador>> /\ hilo[h].paso = "espera"
          /\ hilo'[h].paso = "mueve" /\ hilo'[h].disp = D(h)
          /\ hilo'[h].de = Head(modulo[D(h)].rta) /\ modulo[D(h)].rta # <<>>
          /\ D(h) \in Disp
      BY <2>3, CamposAtiende DEF Recibe, varsDisp, Inv, Vivas, Conecto
    <3>2. modulo[D(h)].rta = <<actual[D(h)]>>
      BY <3>1 DEF UnMensaje, Vacio, Lleva
    <3>3. hilo'[h].de = actual[D(h)]
      BY <3>1, <3>2, UnaSecuencia
    <3> QED BY <2>1, <3>1, <3>3 DEF Actuales, D
  <2>4. CASE Anota(h)
    <3>1. /\ hilo[h].paso = "anota" /\ hilo'[h].disp = D(h) /\ hilo'[h].nueva = hilo[h].nueva
          /\ hilo'[h].paso # "mueve" /\ buscador' = buscador /\ D(h) \in Disp
          /\ actual' = [actual EXCEPT ![D(h)] = hilo[h].nueva]
      BY <2>4, CamposAtiende DEF Anota, Inv, Vivas, Conecto
    <3>2. /\ actual'[D(h)] = hilo[h].nueva
          /\ \A d \in Disp \ {D(h)} : actual'[d] = actual[d]
      BY <1>0, <3>1
    <3>3. Usa(h)
      BY <3>1 DEF Usa
    <3>4. /\ \A g \in Hilos \ {h} : Usa(g) => D(g) \in Disp \ {D(h)}
          /\ buscador.paso = "envia" => buscador.disp \in Disp \ {D(h)}
      BY <3>3 DEF UnUso, Usa, Inv, Vivas, Conecto
    <3>5. buscador'.paso = "envia" => actual'[buscador'.disp] = buscador'.nueva
      BY <3>1, <3>2, <3>4 DEF Actuales
    <3>6. ASSUME NEW g \in Hilos
          PROVE  /\ hilo'[g].paso = "envia" => actual'[hilo'[g].disp] = hilo'[g].nueva
                 /\ hilo'[g].paso = "mueve" => actual'[hilo'[g].disp] = hilo'[g].de
      <4>1. CASE g = h
        BY <3>1, <3>2, <4>1
      <4>2. CASE g # h
        <5>1. hilo'[g] = hilo[g]
          BY <2>1, <4>2
        <5>2. hilo[g].paso \in {"envia", "mueve"} => actual'[D(g)] = actual[D(g)]
          BY <3>2, <3>4, <4>2 DEF Usa
        <5> QED BY <5>1, <5>2 DEF Actuales, D
      <4> QED BY <4>1, <4>2
    <3> QED BY <3>5, <3>6 DEF Actuales, D
  <2>5. CASE RecibePerdida(h) \/ Mueve(h) \/ Toma(h) \/ Envia(h) \/ Suelta(h)
    BY <2>2, <2>5, CamposAtiende DEF RecibePerdida, Mueve, Toma, Envia, Suelta, varsDisp
  <2>6. CASE \/ SueltaOtraVez(h) \/ PierdeOtra(h) \/ Pierde(h) \/ Cuenta(h) \/ Fuerza(h)
             \/ Mira(h) \/ Echa(h) \/ Libera(h)
    BY <2>2, <2>6, CamposPierde
       DEF SueltaOtraVez, PierdeOtra, Pierde, Cuenta, Fuerza, Mira, Echa, Libera, varsDisp
  <2>7. CASE LeenMezclado(h) \/ HiloCae(h)
    BY <1>1, <2>7 DEF LeenMezclado, HiloCae, Cae, varsDisp
  <2> QED BY <1>5, <2>3, <2>4, <2>5, <2>6, <2>7 DEF Hilo
<1>6. CASE UNCHANGED vars
  BY <1>1, <1>6 DEF vars, varsDisp
<1> QED BY <1>2, <1>3, <1>4, <1>5, <1>6 DEF Next

------------------------------------------------------------------------------
(* While no device in use was marked free, no process that waits is        *)
(* forgotten.                                                              *)
Solo(p) == donde[p] = {"BLOCKED"} \/ donde[p] = {"SUSP_BLOCKED"}

Recordados == \A p \in Procesos : Solo(p) => EnManos(p)

EnPedidos(p) == \E i \in DOMAIN pedidos : pedidos[i].proceso = p
EnHilo(h, p) == \/ hilo[h].nueva = p
                \/ hilo[h].paso \in {"espera", "mueve", "pierde"} /\ actual[D(h)] = p

LEMMA Manos ==
  ASSUME NEW p
  PROVE  EnManos(p) <=> \/ pide[p] # Nadie \/ EnPedidos(p) \/ buscador.nueva = p
                        \/ \E h \in Hilos : EnHilo(h, p)
BY DEF EnManos, EnPedidos, EnHilo

LEMMA ManosPrima ==
  ASSUME NEW p
  PROVE  EnManos(p)' <=> \/ pide'[p] # Nadie \/ EnPedidos(p)' \/ buscador'.nueva = p
                         \/ \E h \in Hilos : EnHilo(h, p)'
BY DEF EnManos, EnPedidos, EnHilo

(* tomar_proximo_req_de_io leaves every other request in the queue.        *)
LEMMA TomaUno ==
  ASSUME TypeOK, NEW n, TomaProximo(n), NEW p, EnPedidos(p)
  PROVE  EnPedidos(p)' \/ Proximo(n) = p
<1> DEFINE S == [proceso : Procesos, nombre : Nombres]
<1>0. pedidos \in Seq(S)
  BY DEF TypeOK
<1>1. pedidos \in Seq(S) /\ DOMAIN pedidos = 1 .. Len(pedidos) /\ Len(pedidos) \in Nat
  <2> HIDE DEF S
  <2> QED BY <1>0, LenProperties
<1>2. CASE Lugares(n) = {}
  BY <1>2 DEF TomaProximo, EnPedidos
<1>3. CASE Lugares(n) # {}
  <2>1. Lugares(n) \in SUBSET Nat
    BY <1>1 DEF Lugares
  <2>2. Primero(n) \in Lugares(n)
    BY <1>3, <2>1, Menor DEF Primero
  <2>3. PICK k \in 1 .. Len(pedidos) : k = Primero(n)
    BY <1>1, <2>2 DEF Lugares
  <2>4. /\ pedidos' \in Seq(S) /\ Len(pedidos') = Len(pedidos) - 1
        /\ \A j \in 1 .. Len(pedidos) - 1 :
             pedidos'[j] = IF j < k THEN pedidos[j] ELSE pedidos[j + 1]
    BY <1>1, <1>3, <2>3, RemoveAtProps DEF TomaProximo
  <2>5. DOMAIN pedidos' = 1 .. Len(pedidos) - 1
    <3> HIDE DEF S
    <3> QED BY <2>4, LenProperties
  <2>6. PICK i \in 1 .. Len(pedidos) : pedidos[i].proceso = p
    BY <1>1 DEF EnPedidos
  <2>7. CASE i < k
    <3>1. i \in 1 .. Len(pedidos) - 1 /\ pedidos'[i] = pedidos[i]
      BY <1>1, <2>4, <2>7
    <3> QED BY <2>5, <2>6, <3>1 DEF EnPedidos
  <2>8. CASE i = k
    BY <1>3, <2>3, <2>6, <2>8 DEF Proximo
  <2>9. CASE i > k
    <3>1. i - 1 \in 1 .. Len(pedidos) - 1 /\ pedidos'[i - 1] = pedidos[i]
      BY <1>1, <2>4, <2>9
    <3> QED BY <2>5, <2>6, <3>1 DEF EnPedidos
  <2> QED BY <1>1, <2>7, <2>8, <2>9
<1> QED BY <1>2, <1>3

(* A process that goes to a list where nobody waits.                       *)
LEMMA PasaFuera ==
  ASSUME Inv, NEW q \in Procesos, NEW de, NEW a, Pasa(q, de, a),
         a \notin {"BLOCKED", "SUSP_BLOCKED"}
  PROVE  ~Solo(q)' /\ \A p \in Procesos : Solo(p)' => Solo(p)
<1>1. donde \in [Procesos -> (SUBSET Estados) \ {{}}]
  BY TiposPartes DEF Inv, Resto
<1>2. a \in donde'[q] /\ \A p \in Procesos \ {q} : donde'[p] = donde[p]
  BY <1>1 DEF Pasa
<1> QED BY <1>2 DEF Solo

(* Nobody lets go of a process.                                            *)
LEMMA RecordadosQuieto ==
  ASSUME Recordados, \A p \in Procesos : Solo(p)' => Solo(p) \/ EnManos(p)',
         \A p \in Procesos : EnManos(p) => EnManos(p)'
  PROVE  Recordados'
BY DEF Recordados

LEMMA RecordadosHilo ==
  ASSUME Recordados, NEW h \in Hilos, UNCHANGED <<pide, buscador>>,
         \A g \in Hilos \ {h} : hilo'[g] = hilo[g],
         \A g \in Hilos \ {h} : hilo[g].paso \in {"espera", "mueve", "pierde"} =>
                                  actual'[D(g)] = actual[D(g)],
         \A p \in Procesos : Solo(p)' => Solo(p),
         \A p \in Procesos : EnPedidos(p) => EnPedidos(p)' \/ EnHilo(h, p)',
         \A p \in Procesos : EnHilo(h, p) => EnHilo(h, p)' \/ ~Solo(p)'
  PROVE  Recordados'
<1> SUFFICES ASSUME NEW p \in Procesos, Solo(p)' PROVE EnManos(p)'
  BY DEF Recordados
<1>1. EnManos(p)
  BY DEF Recordados
<1>2. \A g \in Hilos \ {h} : EnHilo(g, p) => EnHilo(g, p)'
  BY DEF EnHilo, D
<1> QED BY <1>1, <1>2, Manos, ManosPrima

LEMMA Hallada ==
  ASSUME NEW d PROVE d \in ToSet(ios) <=> Contains(ios, d)
BY DEF ToSet, Contains

(* The processes: what a step that only moves them or queues requests does.*)
LEMMA RecordadosPide ==
  ASSUME Inv, Listas, Recordados, NEW p \in Procesos, Proceso(p) PROVE Recordados'
<1>1. /\ donde \in [Procesos -> (SUBSET Estados) \ {{}}]
      /\ pide \in [Procesos -> Nombres \cup {Nadie}]
      /\ pedidos \in Seq([proceso : Procesos, nombre : Nombres])
  BY DEF Inv, Tipos, TypeOK
<1>2. UNCHANGED <<buscador, hilo, actual>>
  BY DEF Proceso, PideIO, PideIOInvalida, EncolaIO, Ejecuta, Suspende, varsDisp
<1>3. \A q : \A h \in Hilos : EnHilo(h, q) => EnHilo(h, q)'
  BY <1>2 DEF EnHilo, D
<1>4. ASSUME UNCHANGED <<pide, pedidos>>, \A q \in Procesos : Solo(q)' => Solo(q)
      PROVE  Recordados'
  <2>1. \A q \in Procesos : EnManos(q) => EnManos(q)'
    BY <1>2, <1>4 DEF EnManos, D
  <2> QED BY <1>4, <2>1, RecordadosQuieto
<1>5. ASSUME NEW n \in Nombres, PideIO(p, n) PROVE Recordados'
  <2>1. /\ pide'[p] = n /\ n # Nadie /\ pedidos' = pedidos
        /\ \A q \in Procesos \ {p} : pide'[q] = pide[q] /\ donde'[q] = donde[q]
    BY <1>1, <1>5, IOsOk DEF PideIO, Pasa, Nombres
  <2>2. ASSUME NEW q \in Procesos, Solo(q)' PROVE EnManos(q)'
    <3>1. CASE q = p
      BY <2>1, <3>1 DEF EnManos
    <3>2. CASE q # p
      <4>1. EnManos(q)
        BY <2>1, <2>2, <3>2 DEF Recordados, Solo
      <4> QED BY <1>2, <2>1, <3>2, <4>1 DEF EnManos, D
    <3> QED BY <3>1, <3>2
  <2> QED BY <2>2 DEF Recordados
<1>6. ASSUME NEW n \in Nombres, PideIOInvalida(p, n) PROVE Recordados'
  BY <1>4, <1>6, PasaFuera DEF PideIOInvalida
<1>7. CASE EncolaIO(p)
  <2>1. /\ donde' = donde /\ \A q \in Procesos \ {p} : pide'[q] = pide[q]
        /\ pedidos' = Append(pedidos, [proceso |-> p, nombre |-> pide[p]])
    BY <1>1, <1>7 DEF EncolaIO
  <2>2. /\ Len(pedidos) \in Nat /\ Len(pedidos') = Len(pedidos) + 1
        /\ DOMAIN pedidos = 1 .. Len(pedidos) /\ DOMAIN pedidos' = 1 .. Len(pedidos) + 1
        /\ \A i \in 1 .. Len(pedidos) : pedidos'[i] = pedidos[i]
        /\ pedidos'[Len(pedidos) + 1].proceso = p
    BY <1>1, <2>1
  <2>3. EnPedidos(p)' /\ \A q : EnPedidos(q) => EnPedidos(q)'
    BY <2>2 DEF EnPedidos
  <2>4. ASSUME NEW q \in Procesos, EnManos(q) PROVE EnManos(q)'
    BY <1>2, <1>3, <2>1, <2>3, <2>4, Manos, ManosPrima
  <2>5. \A q \in Procesos : Solo(q)' => Solo(q)
    BY <2>1 DEF Solo
  <2> QED BY <2>4, <2>5, RecordadosQuieto
<1>8. CASE Ejecuta(p)
  BY <1>4, <1>8, PasaFuera DEF Ejecuta
<1>9. CASE Suspende(p)
  <2>1. /\ "BLOCKED" \in donde[p]
        /\ donde'[p] = (donde[p] \ {"BLOCKED"}) \cup {"SUSP_BLOCKED"}
        /\ \A q \in Procesos \ {p} : donde'[q] = donde[q]
    BY <1>1, <1>9 DEF Suspende, Pasa
  <2>2. Solo(p)' => Solo(p)
    BY <2>1 DEF Solo, Listas
  <2>3. \A q \in Procesos : Solo(q)' => Solo(q)
    BY <2>1, <2>2 DEF Solo
  <2> QED BY <1>4, <1>9, <2>3 DEF Suspende
<1> QED BY <1>5, <1>6, <1>7, <1>8, <1>9 DEF Proceso

LEMMA RecordadosBusca ==
  ASSUME Inv, Nuevas, UnUso, Actuales, Recordados, Buscador PROVE Recordados'
<1>0. actual \in [Disp -> Procesos \cup {Nadie}] /\ TypeOK
  BY TiposPartes DEF Inv, Resto, Tipos
<1>1. UNCHANGED <<donde, pide>>
  BY DEF Buscador, BuscadorDespierta, BuscadorBusca, BuscadorToma, BuscadorOcupa,
         BuscadorEnvia, BuscadorCae, Cae, varsProc
<1>2. \A p \in Procesos : Solo(p)' => Solo(p)
  BY <1>1 DEF Solo
<1>3. \A p \in Procesos : p # Nadie
  BY IOsOk
<1>4. SUFFICES ASSUME NEW p \in Procesos, EnManos(p) PROVE EnManos(p)'
  BY <1>2, RecordadosQuieto
<1>5. CASE BuscadorDespierta \/ BuscadorBusca
  <2>1. UNCHANGED <<pedidos, hilo, actual>> /\ buscador.nueva = Nadie
    BY <1>5, CamposBuscador DEF BuscadorDespierta, BuscadorBusca, varsDisp, Nuevas
  <2> QED BY <1>1, <1>3, <1>4, <2>1 DEF EnManos, D
<1>6. CASE BuscadorToma
  <2>1. /\ UNCHANGED <<hilo, actual>> /\ TomaProximo(Nombre[buscador.disp])
        /\ buscador.nueva = Nadie /\ buscador'.nueva = Proximo(Nombre[buscador.disp])
    BY <1>6, CamposBuscador DEF BuscadorToma, varsDisp, Nuevas
  <2>2. EnPedidos(p) => EnPedidos(p)' \/ buscador'.nueva = p
    BY <1>0, <2>1, TomaUno
  <2>3. \A h \in Hilos : EnHilo(h, p) => EnHilo(h, p)'
    BY <2>1 DEF EnHilo, D
  <2> QED BY <1>1, <1>3, <1>4, <2>1, <2>2, <2>3, Manos, ManosPrima
<1>7. CASE BuscadorOcupa
  <2>1. /\ UNCHANGED <<pedidos, hilo>> /\ buscador'.nueva = buscador.nueva
        /\ buscador.paso = "ocupa" /\ buscador.disp \in Disp
        /\ actual' = [actual EXCEPT ![buscador.disp] = buscador.nueva]
    BY <1>7, CamposBuscador DEF BuscadorOcupa, Inv, Vivas, Conecto
  <2>2. \A h \in Hilos : Usa(h) => actual'[D(h)] = actual[D(h)]
    <3>1. \A d \in Disp \ {buscador.disp} : actual'[d] = actual[d]
      BY <1>0, <2>1
    <3>2. \A h \in Hilos : Usa(h) => D(h) \in Disp \ {buscador.disp}
      BY <2>1 DEF UnUso, Usa, Inv, Vivas, Conecto
    <3> QED BY <3>1, <3>2
  <2>3. \A h \in Hilos : EnHilo(h, p) => EnHilo(h, p)'
    BY <2>1, <2>2 DEF EnHilo, D, Usa
  <2>4. EnPedidos(p) => EnPedidos(p)'
    BY <2>1 DEF EnPedidos
  <2> QED BY <1>1, <1>4, <2>1, <2>3, <2>4, Manos, ManosPrima
<1>8. ASSUME NEW h \in Hilos, BuscadorEnvia(h) PROVE EnManos(p)'
  <2>1. /\ UNCHANGED <<pedidos, actual>> /\ buscador.paso = "envia"
        /\ hilo[h].paso = "no" /\ hilo'[h].paso = "espera" /\ hilo'[h].disp = buscador.disp
        /\ \A g \in Hilos \ {h} : hilo'[g] = hilo[g]
    BY <1>8, CamposBuscador DEF BuscadorEnvia, varsDisp
  <2>2. buscador.nueva = p => EnHilo(h, p)'
    BY <2>1 DEF Actuales, EnHilo, D
  <2>3. ~EnHilo(h, p) /\ \A g \in Hilos \ {h} : EnHilo(g, p) => EnHilo(g, p)'
    BY <1>3, <2>1 DEF EnHilo, D, Nuevas
  <2>4. EnPedidos(p) => EnPedidos(p)'
    BY <2>1 DEF EnPedidos
  <2> QED BY <1>1, <1>4, <2>2, <2>3, <2>4, Manos, ManosPrima
<1>9. CASE BuscadorCae
  BY <1>4, <1>9 DEF BuscadorCae, Cae, varsProc, varsDisp, EnManos, D
<1> QED BY <1>5, <1>6, <1>7, <1>8, <1>9 DEF Buscador

LEMMA RecordadosSirve ==
  ASSUME Inv, Nuevas, UnUso, Actuales, Recordados, NEW h \in Hilos, Hilo(h)
  PROVE  Recordados'
<1>0. /\ actual \in [Disp -> Procesos \cup {Nadie}] /\ TypeOK
      /\ \A p \in Procesos : p # Nadie
  BY TiposPartes, IOsOk DEF Inv, Resto, Tipos
<1>1. \A g \in Hilos \ {h} : hilo'[g] = hilo[g]
  BY SoloUnHilo
<1>2. UNCHANGED <<pide, buscador>>
  BY DEF Hilo, Recibe, RecibePerdida, LeenMezclado, Cae, Mueve, Toma, Anota, Envia, Suelta,
         SueltaOtraVez, PierdeOtra, Pierde, Cuenta, Fuerza, Mira, Echa, Libera, HiloCae,
         varsProc
<1>3. ASSUME UNCHANGED <<pedidos, actual>>, \A p \in Procesos : Solo(p)' => Solo(p),
             \A p \in Procesos : EnHilo(h, p) => EnHilo(h, p)' \/ ~Solo(p)'
      PROVE  Recordados'
  <2>1. \A p \in Procesos : EnPedidos(p) => EnPedidos(p)'
    BY <1>3 DEF EnPedidos
  <2> QED BY <1>1, <1>2, <1>3, <2>1, RecordadosHilo
<1>4. ASSUME donde' = donde PROVE \A p \in Procesos : Solo(p)' => Solo(p)
  BY <1>4 DEF Solo
<1>5. CASE Recibe(h) \/ RecibePerdida(h) \/ Envia(h)
  <2>1. UNCHANGED <<donde, pedidos, actual>>
    BY <1>5 DEF Recibe, RecibePerdida, Envia, varsProc, varsDisp
  <2>2. \A p \in Procesos : EnHilo(h, p) => EnHilo(h, p)'
    BY <1>0, <1>5, <2>1, CamposAtiende DEF EnHilo, D, Actuales, Nuevas
  <2> QED BY <1>3, <1>4, <2>1, <2>2
<1>6. CASE Mueve(h) \/ Pierde(h)
  <2>1. /\ UNCHANGED <<pedidos, actual>> /\ hilo[h].paso \in {"mueve", "pierde"}
        /\ actual[D(h)] # Nadie
    BY <1>6 DEF Mueve, Pierde, En, varsDisp
  <2>2. actual[D(h)] \in Procesos
    BY <1>0, <2>1 DEF Inv, Vivas, Conecto
  <2>3. PICK de \in {"SUSP_BLOCKED", "BLOCKED"}, a \in {"READY", "SUSP_READY", "EXIT"} :
          Pasa(actual[D(h)], de, a)
    BY <1>6 DEF Mueve, Pierde
  <2>4. \A q \in Procesos : q = actual[D(h)] => ~Solo(q)' /\ \A p \in Procesos : Solo(p)' => Solo(p)
    BY <2>3, PasaFuera
  <2>5. \A p \in Procesos : EnHilo(h, p) => p = actual[D(h)]
    BY <1>0, <2>1 DEF EnHilo, Nuevas
  <2> QED BY <1>3, <2>1, <2>2, <2>4, <2>5
<1>7. CASE Toma(h) \/ Fuerza(h)
  <2>1. /\ UNCHANGED <<donde, actual>> /\ TomaProximo(Nombre[D(h)])
        /\ hilo[h].paso \in {"toma", "fuerza"} /\ hilo'[h].nueva = Proximo(Nombre[D(h)])
    BY <1>7, CamposAtiende, CamposPierde DEF Toma, Fuerza, varsProc, varsDisp
  <2>2. \A p \in Procesos : EnPedidos(p) => EnPedidos(p)' \/ hilo'[h].nueva = p
    BY <1>0, <2>1, TomaUno
  <2>3. \A p \in Procesos : ~EnHilo(h, p)
    BY <1>0, <2>1 DEF EnHilo, Nuevas
  <2>4. \A p \in Procesos : hilo'[h].nueva = p => EnHilo(h, p)'
    BY DEF EnHilo
  <2>5. \A p \in Procesos : Solo(p)' => Solo(p)
    BY <1>4, <2>1
  <2>6. \A p \in Procesos : EnPedidos(p) => EnPedidos(p)' \/ EnHilo(h, p)'
    BY <2>2, <2>4
  <2> QED BY <1>1, <1>2, <2>1, <2>3, <2>5, <2>6, RecordadosHilo
<1>8. CASE Anota(h)
  <2>1. /\ UNCHANGED <<donde, pedidos>> /\ hilo[h].paso = "anota"
        /\ hilo'[h].nueva = hilo[h].nueva /\ D(h) \in Disp
        /\ actual' = [actual EXCEPT ![D(h)] = hilo[h].nueva]
    BY <1>8, CamposAtiende DEF Anota, varsProc, Inv, Vivas, Conecto
  <2>2. \A d \in Disp \ {D(h)} : actual'[d] = actual[d]
    BY <1>0, <2>1
  <2>3. ASSUME NEW g \in Hilos \ {h}, hilo[g].paso \in {"espera", "mueve", "pierde"}
        PROVE  actual'[D(g)] = actual[D(g)]
    <3>1. Usa(g) /\ Usa(h) /\ D(g) \in Disp
      BY <2>1, <2>3 DEF Usa, Inv, Vivas, Conecto
    <3>2. D(g) # D(h)
      BY <3>1 DEF UnUso
    <3> QED BY <2>2, <3>1, <3>2
  <2>4. \A p \in Procesos : /\ Solo(p)' => Solo(p)
                            /\ EnPedidos(p) => EnPedidos(p)'
                            /\ EnHilo(h, p) => EnHilo(h, p)'
    BY <2>1 DEF Solo, EnPedidos, EnHilo
  <2> QED BY <1>1, <1>2, <2>3, <2>4, RecordadosHilo
<1>9. CASE PierdeOtra(h)
  <2>1. hilo[h].paso = "pierde" /\ ~Contains(ios, D(h))
    BY <1>9, Hallada DEF PierdeOtra, En
  <2> QED BY <2>1 DEF UnUso, Usa, Sacada
<1>10. CASE Suelta(h) \/ SueltaOtraVez(h) \/ Cuenta(h) \/ Mira(h) \/ Libera(h)
  <2>1. UNCHANGED <<donde, pedidos, actual>>
    BY <1>10 DEF Suelta, SueltaOtraVez, Cuenta, Mira, Libera, varsProc, varsDisp
  <2>2. CASE Suelta(h) \/ SueltaOtraVez(h) \/ Cuenta(h) \/ Libera(h)
    <3>1. hilo[h].paso \in {"suelta", "suelta otra vez", "cuenta", "libera"}
      BY <2>2 DEF Suelta, SueltaOtraVez, Cuenta, Libera, En
    <3>2. \A p \in Procesos : ~EnHilo(h, p)
      BY <1>0, <3>1 DEF EnHilo, Nuevas
    <3> QED BY <1>3, <1>4, <2>1, <3>2
  <2>3. CASE Mira(h)
    <3>1. \A p \in Procesos : EnHilo(h, p) => EnHilo(h, p)'
      BY <2>3, CamposPierde DEF EnHilo
    <3> QED BY <1>3, <1>4, <2>1, <3>1
  <2> QED BY <1>10, <2>2, <2>3
<1>11. CASE Echa(h)
  <2>1. /\ UNCHANGED <<pedidos, actual>> /\ hilo[h].paso = "echa" /\ hilo[h].nueva \in Procesos
    BY <1>11 DEF Echa, En, varsDisp, Inv, Tipos
  <2>2. PICK de \in {"SUSP_BLOCKED", "BLOCKED"} : Pasa(hilo[h].nueva, de, "EXIT")
    BY <1>11 DEF Echa
  <2>3. \A q \in Procesos : q = hilo[h].nueva => ~Solo(q)' /\ \A p \in Procesos : Solo(p)' => Solo(p)
    BY <2>2, PasaFuera
  <2>4. \A p \in Procesos : EnHilo(h, p) => p = hilo[h].nueva
    BY <2>1 DEF EnHilo
  <2> QED BY <1>3, <2>1, <2>3, <2>4
<1>12. CASE LeenMezclado(h) \/ HiloCae(h)
  <2>1. UNCHANGED <<donde, pedidos, actual, hilo>>
    BY <1>12 DEF LeenMezclado, HiloCae, Cae, varsProc, varsDisp
  <2> QED BY <1>3, <1>4, <2>1 DEF EnHilo, D
<1> QED BY <1>5, <1>6, <1>7, <1>8, <1>9, <1>10, <1>11, <1>12 DEF Hilo

LEMMA RecordadosPaso ==
  ASSUME Inv, Formas, UnUso, Actuales, Recordados, [Next]_vars PROVE Recordados'
<1>1. ASSUME UNCHANGED <<donde, pide, pedidos, buscador, hilo, actual>> PROVE Recordados'
  BY <1>1 DEF Recordados, Solo, EnManos, D
<1>2. ASSUME NEW d \in Disp, Modulo(d) PROVE Recordados'
  BY <1>1, <1>2 DEF Modulo, Conecta, Sirve, Muere, varsProc, varsDisp
<1>3. CASE UNCHANGED vars
  BY <1>1, <1>3 DEF vars, varsProc, varsDisp
<1> QED BY <1>2, <1>3, RecordadosPide, RecordadosBusca, RecordadosSirve DEF Next, Formas

(* A device in use that was marked free stays on record.                   *)
LEMMA ChoqueQueda == ASSUME [Next]_vars, ~choque' PROVE ~choque
<1>1. ASSUME NEW p \in Procesos, Proceso(p) PROVE ~choque
  BY <1>1 DEF Proceso, PideIO, PideIOInvalida, EncolaIO, Ejecuta, Suspende
<1>2. ASSUME NEW d \in Disp, Modulo(d) PROVE ~choque
  BY <1>2 DEF Modulo, Conecta, Sirve, Muere
<1>3. CASE Buscador
  BY <1>3 DEF Buscador, BuscadorDespierta, BuscadorBusca, BuscadorToma, BuscadorOcupa,
              BuscadorEnvia, BuscadorCae, Cae
<1>4. ASSUME NEW h \in Hilos, Hilo(h) PROVE ~choque
  BY <1>4 DEF Hilo, Recibe, RecibePerdida, LeenMezclado, Cae, Mueve, Toma, Anota, Envia,
              Suelta, SueltaOtraVez, PierdeOtra, Pierde, Cuenta, Fuerza, Mira, Echa,
              Libera, HiloCae
<1> QED BY <1>1, <1>2, <1>3, <1>4 DEF Next, vars

Uso == ~choque => UnUso /\ UnMensaje /\ Actuales /\ Recordados

LEMMA UsoInit == Init => Uso
<1> SUFFICES ASSUME Init PROVE Uso
  OBVIOUS
<1>1. /\ \A h \in Hilos : hilo[h].paso = "no"
      /\ buscador.paso = "duerme"
      /\ \A d \in Disp : Vacio(d)
      /\ \A p \in Procesos : ~Solo(p)
  BY DEF Init, SinHilo, Duerme, Vacio, Solo
<1> QED BY <1>1 DEF Uso, UnUso, Usa, UnMensaje, Actuales, Recordados

LEMMA UsoSiempre == Spec => [](Inv /\ Formas /\ Uso)
<1>1. Inv /\ Formas /\ Uso /\ [Next]_vars => (Inv /\ Formas /\ Uso)'
  <2> SUFFICES ASSUME Inv, Formas, Uso, [Next]_vars, ~choque'
               PROVE  UnUso' /\ UnMensaje' /\ Actuales' /\ Recordados'
    BY InvPaso, FormasPaso DEF Uso
  <2>1. UnUso /\ UnMensaje /\ Actuales /\ Recordados
    BY ChoqueQueda DEF Uso
  <2> QED BY <2>1, UsoPaso, MensajePaso, ActualesPaso, RecordadosPaso DEF Formas
<1> QED BY <1>1, InvInit, FormasInit, UsoInit, PTL DEF Spec

(* While no device in use was marked free, the process that a thread moves *)
(* when an answer arrives is the one whose IO has ended: the device has    *)
(* one user and carries one message, that of proceso_actual.               *)
THEOREM RespuestaPropiaSiempre == Spec => []RespuestaPropia
<1>1. Inv /\ Formas /\ Uso => RespuestaPropia
  BY DEF Uso, Actuales, RespuestaPropia
<1> QED BY <1>1, UsoSiempre, PTL

(* While no device in use was marked free, for every process that is only  *)
(* in BLOCKED or SUSP_BLOCKED the kernel holds a request or a thread will  *)
(* move it, however devices are handed over, lost and freed.               *)
THEOREM NingunoOlvidadoSiempre == Spec => []NingunoOlvidado
<1>1. Inv /\ Formas /\ Uso => NingunoOlvidado
  <2> SUFFICES ASSUME Inv, Uso, ~choque, NEW p \in Procesos, EnEspera(p),
                      Cardinality(donde[p]) = 1
               PROVE  EnManos(p)
    BY DEF NingunoOlvidado
  <2>1. donde[p] \subseteq Estados
    BY DEF Inv, Tipos, TypeOK
  <2>2. IsFiniteSet(donde[p])
    <3>1. IsFiniteSet(Estados)
      <4> DEFINE A == {"EXEC"} \cup {"BLOCKED"}
                 B == A \cup {"SUSP_BLOCKED"}
                 C == B \cup {"READY"}
                 E == C \cup {"SUSP_READY"}
      <4>1. IsFiniteSet(A)
        BY FS_Singleton, FS_AddElement
      <4>2. IsFiniteSet(B)
        BY <4>1, FS_AddElement
      <4>3. IsFiniteSet(C)
        BY <4>2, FS_AddElement
      <4>4. IsFiniteSet(E)
        BY <4>3, FS_AddElement
      <4>5. IsFiniteSet(E \cup {"EXIT"})
        BY <4>4, FS_AddElement
      <4>6. Estados = E \cup {"EXIT"}
        BY DEF Estados
      <4> HIDE DEF E
      <4> QED BY <4>5, <4>6
    <3> QED BY <2>1, <3>1, FS_Subset
  <2>3. PICK e : donde[p] = {e}
    BY <2>2, FS_Singleton
  <2>4. Solo(p)
    BY <2>3 DEF EnEspera, Solo
  <2> QED BY <2>4 DEF Uso, Recordados
<1> QED BY <1>1, UsoSiempre, PTL
==============================================================================
