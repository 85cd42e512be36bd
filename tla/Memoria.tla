------------------------------- MODULE Memoria -------------------------------
(***************************************************************************)
(* The memory program: page tables, the bitmap of frames, the swap and the *)
(* count of the bytes in use.  Every request has a thread of its own.  The *)
(* kernel waits for the answer of each request (one at a time, under       *)
(* mutex_conexion_memoria_nuevo) except SUSPENDER_PROCESO, whose thread    *)
(* sleeps RETARDO_SWAP first and then runs against whatever came later.    *)
(*                                                                         *)
(* Only mutex_entradas_swap keeps two of these threads apart, and only     *)
(* SUSPENDER from DESSUSPENDER.  Nothing protects the bitmap, whose bits   *)
(* are set and cleared by reading and writing a whole byte (the frames     *)
(* here are of one byte), nor the fields of a page.                        *)
(***************************************************************************)
EXTENDS Naturals, Integers, Sequences, FiniteSets, FiniteSetsExt

CONSTANTS Procesos,
          Tamanio,           \* bytes of each process
          TamPagina,         \* TAM_PAGINA
          CantFrames,        \* TAM_MEMORIA / TAM_PAGINA
          CantEntradas,      \* entries of the last-level page tables
          CantSwap,          \* TAM_SWAP / TAM_PAGINA
          UsaSwap,           \* the condition on size and tables before the
                             \* swap is used at all
          Suspensiones,      \* bound: the threads of SUSPENDER_PROCESO
          Escriben,          \* bound: the processes that write to their pages
          Datos, Cero,       \* what a page may hold
          Nadie              \* no process

ASSUME MemoriaOk ==
  /\ Tamanio \in [Procesos -> Nat \ {0}] /\ TamPagina \in Nat \ {0}
  /\ CantFrames \in 1 .. 8 /\ CantEntradas \in Nat /\ CantSwap \in Nat
  /\ UsaSwap \in [Procesos -> BOOLEAN] /\ Escriben \subseteq Procesos
  /\ Cero \in Datos /\ Nadie \notin Procesos

Marcos   == 1 .. CantFrames
Bits     == 1 .. 8   \* of the bitmap: (CantFrames + 7) / 8 bytes
Entradas == 1 .. CantEntradas
SinMarco == 0    \* -1 in the code

CantPaginas(p) == (Tamanio[p] + TamPagina - 1) \div TamPagina

(* Mutant: the size is counted, not the pages it takes.                    *)
BytesSinRedondear(p) == Tamanio[p]

Bytes(p) == CantPaginas(p) * TamPagina

VARIABLES
  nucleo,    \* the kernel's view of each process; "muerto" is one that was
             \* finished while it was suspended
  admitido,  \* the process that was told there is room for it
  pedido,    \* the request in service: what, for whom, how far
  lista,     \* lista_procesos
  pagina,    \* the last-level entries
  propias,   \* lista_pag_del_proceso
  marcos,    \* bitarray_frames: the bits that are set
  memoria,   \* memoria_usuario
  ocupado,   \* TAM_OCUPADO
  swap,      \* entradasSwap
  mutexSwap, \* who holds mutex_entradas_swap
  susp,      \* the SUSPENDER threads
  caida,     \* a freed process or a null pointer was used
  ultimo     \* history: the last datum written to each page of a process,
             \* as a set, empty before the first

varsPag  == <<pagina, propias, marcos>>
varsPed  == <<nucleo, admitido, pedido>>
vars == <<varsPag, varsPed, lista, memoria, ocupado, swap, mutexSwap, susp,
          caida, ultimo>>

Libre     == "libre"
ElPedido  == "pedido"   \* the thread of the request in service
ASSUME MutexOk == Libre \notin Suspensiones /\ ElPedido \notin Suspensiones

SinPedido == [que |-> "nada", de |-> Nadie, paso |-> "", pag |-> 0,
              marco |-> SinMarco, foto |-> {}]

PaginaLibre == [ocupada |-> FALSE, marco |-> SinMarco, local |-> -1,
                modificada |-> FALSE]
SwapLibre == [pid |-> Nadie, valor |-> Cero]

Init ==
  /\ nucleo = [p \in Procesos |-> "nuevo"]
  /\ admitido = Nadie /\ pedido = SinPedido
  /\ lista = {}
  /\ pagina = [g \in Entradas |-> PaginaLibre]
  /\ propias = [p \in Procesos |-> <<>>]
  /\ marcos = {}
  /\ memoria = [f \in Marcos |-> Cero]
  /\ ocupado = 0
  /\ swap = [e \in 1 .. CantSwap |-> SwapLibre]
  /\ mutexSwap = Libre
  /\ susp = [s \in Suspensiones |-> [paso |-> "no", de |-> Nadie, foto |-> {}]]
  /\ caida = FALSE
  /\ ultimo = [p \in Procesos |-> [k \in 0 .. CantPaginas(p) - 1 |-> {}]]

PrimeroLibre(S, todos) == IF S = todos THEN 0 ELSE Min(todos \ S)

(* asignarNumDePrimerFrameLIbre looks from the first bit to the end of the *)
(* bitmap, whose last byte may have more bits than there are frames.       *)
PrimerMarcoLibre == PrimeroLibre(marcos, Bits)
PrimeraPagLibre == PrimeroLibre({g \in Entradas : pagina[g].ocupada}, Entradas)
PrimeraSwapLibre == PrimeroLibre({e \in DOMAIN swap : swap[e].pid # Nadie},
                                 DOMAIN swap)
SwapDe(p) == {e \in DOMAIN swap : swap[e].pid = p}

ConBit(foto, f) == foto \cup ({f} \ {SinMarco})

------------------------------------------------------------------------------
(* ESPACIO_DISPONIBLE_PARA_PROCESO: the bytes, not the pages, are compared.*)

Entra(p) == CantFrames * TamPagina - (ocupado + Tamanio[p]) >= 0

EspacioDisponible(p) ==
  /\ ~caida /\ pedido = SinPedido /\ admitido = Nadie /\ nucleo[p] \in {"nuevo", "susp"}
  /\ Entra(p)
  /\ admitido' = p
  /\ UNCHANGED <<varsPag, nucleo, pedido, lista, memoria, ocupado, swap,
                 mutexSwap, susp, caida, ultimo>>

------------------------------------------------------------------------------
(* CREATE_PROCESS.                                                         *)

Atiende(que, p, paso) ==
  /\ ~caida /\ pedido = SinPedido
  /\ pedido' = [SinPedido EXCEPT !.que = que, !.de = p, !.paso = paso]

En(que, paso) == ~caida /\ pedido.que = que /\ pedido.paso = paso

CreaProceso(p) ==
  /\ admitido = p /\ nucleo[p] = "nuevo"
  /\ Atiende("CREATE", p, "toma")
  /\ lista' = lista \cup {p}
  /\ ocupado' = ocupado + Bytes(p)
  /\ UNCHANGED <<varsPag, nucleo, admitido, memoria, swap, mutexSwap, susp,
                 caida, ultimo>>

FaltanPaginas == /\ Len(propias[pedido.de]) < CantPaginas(pedido.de)
                 /\ PrimeraPagLibre # 0

(* asignar_paginas_recursivo, on the first page that is free; the byte of  *)
(* the first free frame is read.                                           *)
TomaPagina ==
  /\ En("CREATE", "toma") /\ FaltanPaginas
  /\ pedido' = [pedido EXCEPT !.paso = "marca", !.pag = PrimeraPagLibre,
                              !.marco = PrimerMarcoLibre, !.foto = marcos]
  /\ pagina' = [pagina EXCEPT ![PrimeraPagLibre].ocupada = TRUE,
                              ![PrimeraPagLibre].local = Len(propias[pedido.de])]
  /\ UNCHANGED <<propias, marcos, nucleo, admitido, lista, memoria, ocupado,
                 swap, mutexSwap, susp, caida, ultimo>>

(* The byte is written back with the bit.                                  *)
MarcaMarco ==
  /\ En("CREATE", "marca")
  /\ marcos' = ConBit(pedido.foto, pedido.marco)
  /\ pagina' = [pagina EXCEPT ![pedido.pag].marco = pedido.marco]
  /\ propias' = [propias EXCEPT ![pedido.de] = Append(@, pedido.pag)]
  /\ pedido' = [SinPedido EXCEPT !.que = "CREATE", !.de = pedido.de, !.paso = "toma"]
  /\ UNCHANGED <<nucleo, admitido, lista, memoria, ocupado, swap, mutexSwap,
                 susp, caida, ultimo>>

(* The process that was told there is room runs.                           *)
Responde(p) == /\ pedido' = SinPedido /\ admitido' = Nadie
               /\ nucleo' = [nucleo EXCEPT ![p] = "mem"]

Creado ==
  /\ En("CREATE", "toma") /\ ~FaltanPaginas
  /\ Responde(pedido.de)
  /\ UNCHANGED <<varsPag, lista, memoria, ocupado, swap, mutexSwap, susp, caida,
                 ultimo>>

------------------------------------------------------------------------------
(* SUSPENDER_PROCESO, thread s.                                            *)

EnPaso(s, paso) == ~caida /\ susp[s].paso = paso
Avanza(s, paso) == susp' = [susp EXCEPT ![s].paso = paso, ![s].foto = {}]

(* The kernel's timer sends it and does not wait.                          *)
PideSuspender(s, p) ==
  /\ ~caida /\ nucleo[p] = "mem" /\ pedido.de # p /\ susp[s].paso = "no"
  /\ nucleo' = [nucleo EXCEPT ![p] = "susp"]
  /\ susp' = [susp EXCEPT ![s].paso = "duerme", ![s].de = p]
  /\ UNCHANGED <<varsPag, admitido, pedido, lista, memoria, ocupado, swap,
                 mutexSwap, caida, ultimo>>

SuspBusca(s) ==
  /\ EnPaso(s, "duerme")
  /\ Avanza(s, IF susp[s].de \in lista THEN "espera" ELSE "fin")
  /\ UNCHANGED <<varsPag, varsPed, lista, memoria, ocupado, swap, mutexSwap,
                 caida, ultimo>>

(* The process has not been freed under the thread.                        *)
Vivo(s) == \/ susp[s].de \in lista
           \/ pedido.que = "ELIMINAR" /\ pedido.de = susp[s].de

SuspEntra(s) ==
  /\ EnPaso(s, "espera") /\ mutexSwap = Libre /\ Vivo(s)
  /\ mutexSwap' = s
  /\ Avanza(s, "pagina")
  /\ UNCHANGED <<varsPag, varsPed, lista, memoria, ocupado, swap, caida, ultimo>>

Quedan(s) == EnPaso(s, "pagina") /\ Vivo(s) /\ propias[susp[s].de] # <<>>
Primera(s) == propias[susp[s].de][1]

(* What it holds if it was ever written; beyond memoria_usuario, anything. *)
Contenido(pag) == IF ~pag.modificada THEN {Cero}
                  ELSE IF pag.marco \in Marcos THEN {memoria[pag.marco]} ELSE Datos

(* A page is copied to the swap.                                           *)
CopiaASwap(s) ==
  /\ Quedan(s)
  /\ LET p == susp[s].de
         pag == pagina[Primera(s)]
     IN IF UsaSwap[p]
        THEN /\ PrimeraSwapLibre # 0
             /\ pag.modificada => pag.marco # SinMarco
             /\ \E v \in Contenido(pag) :
                  swap' = [swap EXCEPT ![PrimeraSwapLibre] = [pid |-> p, valor |-> v]]
        ELSE swap' = swap
  /\ susp' = [susp EXCEPT ![s].paso = "borra", ![s].foto = marcos]
  /\ UNCHANGED <<varsPag, varsPed, lista, memoria, ocupado, mutexSwap, caida,
                 ultimo>>

(* No entry is free: the function returns without unlocking.               *)
SwapLleno(s) ==
  /\ Quedan(s) /\ UsaSwap[susp[s].de] /\ PrimeraSwapLibre = 0
  /\ Avanza(s, "fin")
  /\ UNCHANGED <<varsPag, varsPed, lista, memoria, ocupado, swap, mutexSwap,
                 caida, ultimo>>

SuspBorra(s) ==
  /\ EnPaso(s, "borra") /\ Vivo(s) /\ propias[susp[s].de] # <<>>
  /\ marcos' = susp[s].foto \ {pagina[Primera(s)].marco}
  /\ pagina' = [pagina EXCEPT ![Primera(s)].ocupada = FALSE]
  /\ Avanza(s, "olvida")
  /\ UNCHANGED <<propias, varsPed, lista, memoria, ocupado, swap, mutexSwap,
                 caida, ultimo>>

SuspOlvida(s) ==
  /\ EnPaso(s, "olvida") /\ Vivo(s) /\ propias[susp[s].de] # <<>>
  /\ pagina' = [pagina EXCEPT ![Primera(s)].marco = SinMarco,
                              ![Primera(s)].local = -1]
  /\ propias' = [propias EXCEPT ![susp[s].de] = Tail(@)]
  /\ Avanza(s, "pagina")
  /\ UNCHANGED <<marcos, varsPed, lista, memoria, ocupado, swap, mutexSwap,
                 caida, ultimo>>

SuspSale(s) ==
  /\ EnPaso(s, "pagina") /\ Vivo(s) /\ propias[susp[s].de] = <<>>
  /\ mutexSwap' = Libre
  /\ ocupado' = ocupado - Bytes(susp[s].de)
  /\ Avanza(s, "fin")
  /\ UNCHANGED <<varsPag, varsPed, lista, memoria, swap, caida, ultimo>>

------------------------------------------------------------------------------
(* DESSUSPENDER_PROCESO.                                                   *)

PideDessuspender(p) ==
  /\ admitido = p /\ nucleo[p] = "susp"
  /\ Atiende("DESSUSPENDER", p, "espera")
  /\ UNCHANGED <<varsPag, nucleo, admitido, lista, memoria, ocupado, swap,
                 mutexSwap, susp, caida, ultimo>>

(* Mutant: the swap is read without mutex_entradas_swap.                   *)
DesEntraSinMutex ==
  /\ En("DESSUSPENDER", "espera")
  /\ mutexSwap' = mutexSwap
  /\ pedido' = [pedido EXCEPT !.paso = "toma"]
  /\ UNCHANGED <<varsPag, nucleo, admitido, lista, memoria, ocupado, swap, susp,
                 caida, ultimo>>

DesEntra ==
  /\ En("DESSUSPENDER", "espera") /\ mutexSwap = Libre
  /\ mutexSwap' = ElPedido
  /\ pedido' = [pedido EXCEPT !.paso = "toma"]
  /\ UNCHANGED <<varsPag, nucleo, admitido, lista, memoria, ocupado, swap, susp,
                 caida, ultimo>>

(* asignarFrameALaPagina: a frame, then a page for it; the content that was *)
(* read from the swap is not copied anywhere.  Only CREATE and ELIMINAR,    *)
(* which do not run now, and SUSPENDER, kept out by the mutex, touch bits.  *)
VuelveUnaPagina ==
  /\ En("DESSUSPENDER", "toma") /\ SwapDe(pedido.de) # {}
  /\ swap' = [swap EXCEPT ![Min(SwapDe(pedido.de))] = SwapLibre]
  /\ marcos' = ConBit(marcos, PrimerMarcoLibre)
  /\ IF PrimerMarcoLibre # SinMarco /\ PrimeraPagLibre # 0
     THEN /\ pagina' = [pagina EXCEPT ![PrimeraPagLibre] =
               [@ EXCEPT !.ocupada = TRUE, !.marco = PrimerMarcoLibre,
                         !.local = Len(propias[pedido.de])]]
          /\ propias' = [propias EXCEPT ![pedido.de] = Append(@, PrimeraPagLibre)]
     ELSE UNCHANGED <<pagina, propias>>
  /\ UNCHANGED <<varsPed, lista, memoria, ocupado, mutexSwap, susp, caida, ultimo>>

(* Mutant: the bytes are not counted again.                                *)
DessuspendidoSinContar ==
  /\ En("DESSUSPENDER", "toma") /\ SwapDe(pedido.de) = {}
  /\ mutexSwap' = Libre
  /\ Responde(pedido.de)
  /\ UNCHANGED <<varsPag, lista, memoria, ocupado, swap, susp, caida, ultimo>>

(* Mutant: mutex_entradas_swap is not unlocked.                            *)
DessuspendidoSinSoltar ==
  /\ En("DESSUSPENDER", "toma") /\ SwapDe(pedido.de) = {}
  /\ ocupado' = ocupado + Bytes(pedido.de)
  /\ Responde(pedido.de)
  /\ UNCHANGED <<varsPag, lista, memoria, swap, mutexSwap, susp, caida, ultimo>>

Dessuspendido ==
  /\ En("DESSUSPENDER", "toma") /\ SwapDe(pedido.de) = {}
  /\ mutexSwap' = Libre
  /\ ocupado' = ocupado + Bytes(pedido.de)
  /\ Responde(pedido.de)
  /\ UNCHANGED <<varsPag, lista, memoria, swap, susp, caida, ultimo>>

------------------------------------------------------------------------------
(* ELIMINAR_PROCESO_DE_MEMORIA.  A suspended process is finished too, when *)
(* its device is lost, and its bytes are subtracted again.  What it had in *)
(* the swap stays.                                                         *)

EliminaProceso(p) ==
  /\ nucleo[p] \in {"mem", "susp"} /\ admitido # p
  /\ Atiende("ELIMINAR", p, "lee")
  /\ lista' = lista \ {p}
  /\ ocupado' = ocupado - Bytes(p)
  /\ UNCHANGED <<varsPag, nucleo, admitido, memoria, swap, mutexSwap, susp,
                 caida, ultimo>>

(* liberarPaginasAsignadasAlProceso; pedido.pag counts the pages done.     *)
QuedanPorLiberar == pedido.pag < Len(propias[pedido.de])
EnTurno == propias[pedido.de][pedido.pag + 1]

LeeBit ==
  /\ En("ELIMINAR", "lee") /\ QuedanPorLiberar
  /\ pedido' = [pedido EXCEPT !.paso = "borra", !.marco = EnTurno, !.foto = marcos]
  /\ UNCHANGED <<varsPag, nucleo, admitido, lista, memoria, ocupado, swap,
                 mutexSwap, susp, caida, ultimo>>

BorraBit ==
  /\ En("ELIMINAR", "borra")
  /\ marcos' = pedido.foto \ {pagina[pedido.marco].marco}
  /\ pagina' = [pagina EXCEPT ![pedido.marco].ocupada = FALSE,
                              ![pedido.marco].marco = SinMarco]
  /\ pedido' = [pedido EXCEPT !.paso = "lee", !.pag = @ + 1,
                              !.marco = SinMarco, !.foto = {}]
  /\ UNCHANGED <<propias, nucleo, admitido, lista, memoria, ocupado, swap,
                 mutexSwap, susp, caida, ultimo>>

Eliminado ==
  /\ En("ELIMINAR", "lee") /\ ~QuedanPorLiberar
  /\ propias' = [propias EXCEPT ![pedido.de] = <<>>]
  /\ nucleo' = [nucleo EXCEPT ![pedido.de] = IF @ = "susp" THEN "muerto" ELSE "fin"]
  /\ pedido' = SinPedido
  /\ UNCHANGED <<pagina, marcos, admitido, lista, memoria, ocupado, swap,
                 mutexSwap, susp, caida, ultimo>>

(* escribirPaginasEnSwap goes on with a process that was freed, with the   *)
(* first page of an empty list, or copies from where there is no memory:   *)
(* the null address of a page that lost its frame, or one past the end.    *)
SuspCae(s) ==
  /\ \/ susp[s].paso \in {"espera", "pagina", "borra", "olvida"} /\ ~Vivo(s)
     \/ susp[s].paso \in {"borra", "olvida"} /\ propias[susp[s].de] = <<>>
     \/ /\ Quedan(s) /\ UsaSwap[susp[s].de] /\ PrimeraSwapLibre # 0
        /\ pagina[Primera(s)].modificada /\ pagina[Primera(s)].marco \notin Marcos
  /\ ~caida /\ caida' = TRUE
  /\ UNCHANGED <<varsPag, varsPed, lista, memoria, ocupado, swap, mutexSwap,
                 susp, ultimo>>

------------------------------------------------------------------------------
(* DUMP_MEMORY reads; ESCRIBIR_VALOR and ACTUALIZAR_PAGINA_COMPLETA, for a *)
(* process that runs, write the frame of the page and mark it.             *)

EscribirPagina(p, k, d) ==
  /\ ~caida /\ p \in Escriben /\ nucleo[p] = "mem" /\ pedido.de # p
  /\ \E j \in DOMAIN propias[p] :
       LET g == propias[p][j] IN
       /\ pagina[g].local = k /\ pagina[g].marco \in Marcos
       /\ memoria' = [memoria EXCEPT ![pagina[g].marco] = d]
       /\ pagina' = [pagina EXCEPT ![g].modificada = TRUE]
  /\ ultimo' = [ultimo EXCEPT ![p][k] = {d}]
  /\ UNCHANGED <<propias, marcos, varsPed, lista, ocupado, swap, mutexSwap, susp,
                 caida>>

(* A frame past the end of memoria_usuario: escribirPaginaCompleta writes  *)
(* it all the same.                                                        *)
EscribeFuera(p) ==
  /\ ~caida /\ p \in Escriben /\ nucleo[p] = "mem" /\ pedido.de # p
  /\ \E j \in DOMAIN propias[p] : pagina[propias[p][j]].marco \in Bits \ Marcos
  /\ caida' = TRUE
  /\ UNCHANGED <<varsPag, varsPed, lista, memoria, ocupado, swap, mutexSwap, susp,
                 ultimo>>

------------------------------------------------------------------------------

Pedido ==
  \/ TomaPagina \/ MarcaMarco \/ Creado
  \/ DesEntra \/ VuelveUnaPagina \/ Dessuspendido
  \/ LeeBit \/ BorraBit \/ Eliminado

Suspender(s) == \/ SuspBusca(s) \/ SuspEntra(s) \/ CopiaASwap(s) \/ SwapLleno(s)
                \/ SuspBorra(s) \/ SuspOlvida(s) \/ SuspSale(s) \/ SuspCae(s)

Nucleo(p) == \/ EspacioDisponible(p) \/ CreaProceso(p) \/ PideDessuspender(p)
             \/ EliminaProceso(p) \/ EscribeFuera(p)
             \/ \E s \in Suspensiones : PideSuspender(s, p)
             \/ \E k \in DOMAIN ultimo[p], d \in Datos : EscribirPagina(p, k, d)

Next == \/ Pedido
        \/ \E s \in Suspensiones : Suspender(s)
        \/ \E p \in Procesos : Nucleo(p)

Spec == Init /\ [][Next]_vars

(* Memory's threads run: RETARDO_SWAP and RETARDO_MEMORIA are finite.      *)
Equidad == /\ WF_vars(Pedido)
           /\ \A s \in Suspensiones : WF_vars(Suspender(s))

SpecJusta == Spec /\ Equidad

------------------------------------------------------------------------------
(* The pages of the processes that were finished while suspended, which    *)
(* may have been subtracted twice.                                         *)
Muere(p) == \/ nucleo[p] = "muerto"
            \/ nucleo[p] = "susp" /\ pedido.que = "ELIMINAR" /\ pedido.de = p
Restadas == UNION {{p} \X (1 .. CantPaginas(p)) : p \in {q \in Procesos : Muere(q)}}

(* Types of the variables; TAM_OCUPADO falls below zero by no more than    *)
(* those pages, although each suspension is subtracted at a time of its    *)
(* own.                                                                    *)
TypeOK ==
  /\ nucleo \in [Procesos -> {"nuevo", "mem", "susp", "fin", "muerto"}]
  /\ admitido \in Procesos \cup {Nadie}
  /\ pedido \in [que : {"nada", "CREATE", "DESSUSPENDER", "ELIMINAR"},
                 de : Procesos \cup {Nadie},
                 paso : {"", "toma", "marca", "espera", "lee", "borra"},
                 pag : Nat, marco : Nat, foto : SUBSET Bits]
  /\ lista \subseteq Procesos
  /\ pagina \in [Entradas -> [ocupada : BOOLEAN, marco : Bits \cup {SinMarco},
                              local : Int, modificada : BOOLEAN]]
  /\ \A p \in Procesos : propias[p] \in Seq(Entradas)
  /\ marcos \subseteq Bits
  /\ memoria \in [Marcos -> Datos]
  /\ ocupado \in Int /\ ocupado + Cardinality(Restadas) * TamPagina >= 0
  /\ swap \in [1 .. CantSwap -> [pid : Procesos \cup {Nadie}, valor : Datos]]
  /\ mutexSwap \in {Libre, ElPedido} \cup Suspensiones
  /\ susp \in [Suspensiones -> [paso : {"no", "duerme", "espera", "pagina", "borra",
                                       "olvida", "fin"},
                               de : Procesos \cup {Nadie}, foto : SUBSET Bits]]
  /\ caida \in BOOLEAN

(* The pages in the lists of the processes.                                *)
Tenidas == UNION {{<<p, propias[p][j]>> : j \in DOMAIN propias[p]} : p \in Procesos}

(* chequear_y_actualizar_suspensiones counts a process's bytes once per    *)
(* request, while its pages leave much later, in the SUSPENDER thread.     *)
(* However late that is, a process that is told there is room finds the    *)
(* pages for it, but for those of the processes that were finished while   *)
(* suspended.                                                              *)
EspacioVeraz ==
  admitido # Nadie /\ pedido = SinPedido =>
    Cardinality(Tenidas) + CantPaginas(admitido) <= CantFrames + Cardinality(Restadas)

(* The page that SUSPENDER has moved to the swap and not yet taken out of  *)
(* the list.                                                               *)
DePaso(p) == IF \E s \in Suspensiones : susp[s].de = p /\ susp[s].paso \in {"borra", "olvida"}
             THEN 1 ELSE 0

(* A page of a process is in main memory or in the swap, never in both and *)
(* never twice in the swap, whatever the order in which its suspensions    *)
(* and returns are served.                                                 *)
PaginaEnUnLugar ==
  \A p \in Procesos :
    Cardinality(SwapDe(p)) + Len(propias[p]) - (IF UsaSwap[p] THEN DePaso(p) ELSE 0)
      <= CantPaginas(p)

SinSuspensiones == \A s \in Suspensiones : susp[s].paso \in {"no", "fin"}

(* After DESSUSPENDER_PROCESO, and once no SUSPENDER thread is at work, the *)
(* frames of a process hold what it last wrote to its pages.               *)
ContenidoVuelve ==
  \A p \in Procesos :
    nucleo[p] = "mem" /\ pedido.de # p /\ SinSuspensiones =>
    \A j \in DOMAIN propias[p] :
      LET pag == pagina[propias[p][j]] IN
      pag.marco \in Marcos /\ pag.local \in DOMAIN ultimo[p]
        => ultimo[p][pag.local] \subseteq {memoria[pag.marco]}

(* The kernel, which waits with mutex_conexion_memoria_nuevo held, gets an *)
(* answer, unless the swap ran out (its mutex is never released then).     *)
PedidoRespondido ==
  pedido # SinPedido ~>
    \/ pedido = SinPedido \/ caida
    \/ \E s \in Suspensiones : mutexSwap = s /\ susp[s].paso = "fin"

==============================================================================
