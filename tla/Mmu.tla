--------------------------------- MODULE Mmu ---------------------------------
(***************************************************************************)
(* The MMU of every CPU: its TLB, its page cache and the memory they stand *)
(* for.  A CPU executes one instruction per step; the messages of that     *)
(* instruction touch only the frames of the process it runs, so nothing is *)
(* lost by taking them together.  A page holds one datum.                  *)
(*                                                                         *)
(* Memory looks for the page of a physical address among the pages of the  *)
(* process and, when it finds none, sends no answer: the CPU then waits    *)
(* for ever.  The process is taken to use only pages it has.               *)
(*                                                                         *)
(* The last byte of a page that passes through a cache becomes a NUL: the  *)
(* constant SinFinal says what is left of each datum then.                 *)
(***************************************************************************)
EXTENDS Integers, Sequences

CONSTANTS CPUs,           \* the CPU programs that are connected
          Procesos,
          CantPaginas,    \* how many pages each process has
          CantMarcos,     \* frames of the memory
          TablaInicial,   \* the frame each page is given at first
          TablaUnica,     \* whether ENTRADAS_POR_TABLA is not 8
          Datos, Cero,    \* what a page may hold; what it holds at first
          SinFinal,       \* a datum with its last byte overwritten
          EntradasTlb,    \* ENTRADAS_TLB of each CPU
          EntradasCache,  \* ENTRADAS_CACHE
          ReemplazoTlb,   \* REEMPLAZO_TLB: "FIFO" or "LRU"
          ReemplazoCache, \* REEMPLAZO_CACHE: "CLOCK" or "CLOCK-M"
          SeSuspenden,    \* bound: the processes that may be swapped out
          Nadie           \* no process (the pid -20 of the code)

Paginas == UNION {{<<p, k - 1>> : k \in 1 .. CantPaginas[p]} : p \in Procesos}

Marcos == 0 .. CantMarcos - 1

(* The frame of a page that has none.                                      *)
SinMarco == -1

(* With a path of its own to the frames, a process of more than 8 pages    *)
(* would be given the frames of its first 8 again.                         *)
ASSUME ConfigOk ==
  /\ CantPaginas \in [Procesos -> Nat]
  /\ TablaUnica \in BOOLEAN
  /\ ~TablaUnica => \A p \in Procesos : CantPaginas[p] <= 8
  /\ CantMarcos \in Nat
  /\ TablaInicial \in [Paginas -> Marcos]
  /\ \A x, y \in Paginas : TablaInicial[x] = TablaInicial[y] => x = y
  /\ Cero \in Datos
  /\ SinFinal \in [Datos -> Datos]
  /\ \A d \in Datos : SinFinal[SinFinal[d]] = SinFinal[d]
  /\ EntradasTlb \in [CPUs -> Nat] /\ EntradasCache \in [CPUs -> Nat]
  /\ ReemplazoTlb \in [CPUs -> {"FIFO", "LRU"}]
  /\ ReemplazoCache \in [CPUs -> {"CLOCK", "CLOCK-M"}]
  /\ SeSuspenden \subseteq Procesos
  /\ Nadie \notin Procesos

VARIABLES
  corre,     \* proceso, in each CPU
  anterior,  \* proceso_anterior->pid
  colgada,   \* the CPU waits for an answer that memory will not send
  tlb,       \* oldest timestamp first
  cache,     \* in the order of the list
  puntero,   \* puntero_clock or puntero_clock_m, from 1
  memoria,   \* what each frame holds
  tabla,     \* the frame of each page
  vivos,      \* processes that have not asked for EXIT
  bloqueados, \* those of SeSuspenden that wait for an IO or a dump
  enMemoria,  \* those that have frames
  ultimo,     \* history: the last datum written to each page
  guardado,   \* history: it left its last CPU with no modified page behind
  ultima,     \* history: the CPU it ran on last
  fiel,       \* history: the kernel never gave it a CPU that could not know
              \* its last writes
  vieja,      \* history: the CPUs that kept what they had in the TLB or the
              \* cache when it was no longer about the process they keep
  sano,       \* history: what the CPUs fetched or sent was at the page's own frame
  devuelta    \* history: the pages not written since they came back from swap

varsCpu == <<corre, anterior, colgada>>
varsMem == <<tabla, vivos, bloqueados, enMemoria>>
varsGuarda == <<guardado, ultima, fiel>>
varsHist == <<ultimo, varsGuarda, vieja, sano, devuelta>>
vars == <<varsCpu, tlb, cache, puntero, memoria, varsMem, varsHist>>

Init ==
  /\ corre = [c \in CPUs |-> Nadie] /\ anterior = [c \in CPUs |-> Nadie]
  /\ colgada = [c \in CPUs |-> FALSE]
  /\ tlb = [c \in CPUs |-> <<>>] /\ cache = [c \in CPUs |-> <<>>]
  /\ puntero = [c \in CPUs |-> 1]
  /\ memoria = [f \in Marcos |-> Cero]
  /\ tabla = TablaInicial
  /\ vivos = Procesos /\ bloqueados = {} /\ enMemoria = Procesos
  /\ ultimo = [x \in Paginas |-> Cero]
  /\ guardado = [p \in Procesos |-> TRUE]
  /\ ultima = [p \in Procesos |-> Nadie]
  /\ fiel = [p \in Procesos |-> TRUE]
  /\ vieja = {} /\ sano = TRUE /\ devuelta = {}

Ejecuta(c, n) == /\ corre[c] # Nadie /\ ~colgada[c]
                 /\ <<corre[c], n>> \in Paginas

(* buscarNroPaginaAtravesDeDirFisicaGlobal finds a page of the process     *)
(* there.                                                                  *)
EsDe(p, f) == \E x \in Paginas : x[1] = p /\ tabla[x] = f

SuMarco(p, n, f) == <<p, n>> \in Paginas /\ f = tabla[<<p, n>>]

(* Whose pages a CPU keeps: the running process's or the last one's.       *)
Duenio(c) == IF corre[c] # Nadie THEN corre[c] ELSE anterior[c]

(* PEDIR_MARCO.  With 8 entries per table memory looks for the page among  *)
(* those of the process.  With any other number obtenerMarco walks the     *)
(* tables of all the processes, whatever the pid, to their page n: pages   *)
(* and frames are taken and freed together, the first free one of each, so *)
(* that page has frame n or none.                                          *)
MarcoDe(p, n) ==
  IF TablaUnica
  THEN IF \E x \in Paginas : x[1] \in enMemoria /\ tabla[x] = n THEN n ELSE SinMarco
  ELSE IF <<p, n>> \in Paginas THEN tabla[<<p, n>>] ELSE SinMarco

------------------------------------------------------------------------------
(* The TLB.                                                                *)

EnTlb(t, n) == {i \in DOMAIN t : t[i].pagina = n}

(* obtener_marco_mmu walks the tables when the TLB does not have the page. *)
Marco(t, p, n) == IF EnTlb(t, n) # {}
                  THEN t[CHOOSE i \in EnTlb(t, n) : TRUE].marco
                  ELSE MarcoDe(p, n)

AlFinal(t, i) == [k \in DOMAIN t |-> IF k < i THEN t[k]
                                     ELSE IF k < Len(t) THEN t[k + 1] ELSE t[i]]

(* Mutant: the entry that is replaced keeps its frame.                     *)
AgregaSinMarco(c, e) ==
  IF Len(tlb[c]) < EntradasTlb[c] THEN Append(tlb[c], e)
  ELSE Append(Tail(tlb[c]), [e EXCEPT !.marco = Head(tlb[c]).marco])

(* actualizar_tlb: both policies replace the smallest timestamp.           *)
Agrega(c, e) ==
  IF Len(tlb[c]) < EntradasTlb[c] THEN Append(tlb[c], e)
                                  ELSE Append(Tail(tlb[c]), e)

(* Mutant: the TLB grows past its size.                                    *)
TlbTrasTraducirSinTope(c, n) ==
  IF EnTlb(tlb[c], n) # {} THEN tlb[c]
  ELSE Append(tlb[c], [pagina |-> n, marco |-> MarcoDe(corre[c], n)])

(* What a translation leaves in the TLB: a hit is an access only for LRU.  *)
TlbTrasTraducir(c, n) ==
  IF EnTlb(tlb[c], n) # {}
  THEN IF ReemplazoTlb[c] = "LRU"
       THEN AlFinal(tlb[c], CHOOSE i \in EnTlb(tlb[c], n) : TRUE)
       ELSE tlb[c]
  ELSE IF EntradasTlb[c] > 0
       THEN Agrega(c, [pagina |-> n, marco |-> MarcoDe(corre[c], n)])
       ELSE tlb[c]

------------------------------------------------------------------------------
(* Replacement in the cache: the victim, the entries as the hand leaves    *)
(* them, and whether the victim goes to memory.                            *)

Distancia(n, desde, i) == (i + n - desde) % n

PrimeraDesde(S, n, desde) ==
  CHOOSE i \in S : \A j \in S : Distancia(n, desde, i) <= Distancia(n, desde, j)

SinUso(ch, S) == [i \in DOMAIN ch |-> IF i \in S THEN [ch[i] EXCEPT !.uso = FALSE]
                                      ELSE ch[i]]

(* Mutant: the victim is dropped without being sent.                       *)
ClockSinGuardar(ch, mano) ==
  LET libres == {i \in DOMAIN ch : ~ch[i].uso} IN
  IF libres # {}
  THEN [victima |-> PrimeraDesde(libres, Len(ch), mano), queda |-> ch,
        guarda |-> FALSE]
  ELSE [victima |-> mano, queda |-> SinUso(ch, DOMAIN ch), guarda |-> FALSE]

(* Mutant: the hand has moved on when the victim is read.                  *)
ClockUnaDeMas(ch, mano) ==
  LET libres == {i \in DOMAIN ch : ~ch[i].uso} IN
  IF libres # {}
  THEN [victima |-> (PrimeraDesde(libres, Len(ch), mano) % Len(ch)) + 1,
        queda |-> ch, guarda |-> TRUE]
  ELSE [victima |-> mano, queda |-> SinUso(ch, DOMAIN ch), guarda |-> TRUE]

(* reemplazo_cache_clock: a first lap that only looks, a second that       *)
(* clears, a third that finds the entry where it began.  The victim is     *)
(* sent whether modified or not.                                           *)
Clock(ch, mano) ==
  LET libres == {i \in DOMAIN ch : ~ch[i].uso} IN
  IF libres # {}
  THEN [victima |-> PrimeraDesde(libres, Len(ch), mano), queda |-> ch,
        guarda |-> TRUE]
  ELSE [victima |-> mano, queda |-> SinUso(ch, DOMAIN ch), guarda |-> TRUE]

(* Mutant: the lap for modified pages comes before the one for clean ones. *)
ClockMSuciasPrimero(ch, mano) ==
  LET sucias == {i \in DOMAIN ch : ~ch[i].uso /\ ch[i].modificado} IN
  IF sucias # {}
  THEN [victima |-> PrimeraDesde(sucias, Len(ch), mano), queda |-> ch,
        guarda |-> TRUE]
  ELSE [victima |-> mano, queda |-> SinUso(ch, DOMAIN ch), guarda |-> TRUE]

(* reemplazo_cache_clock_m: not used and clean; not used and modified,     *)
(* clearing on the way; and the same two laps again, all clear.            *)
ClockM(ch, mano) ==
  LET n == Len(ch)
      limpias == {i \in DOMAIN ch : ~ch[i].modificado}
      sinUso  == {i \in DOMAIN ch : ~ch[i].uso}
      sucia   == PrimeraDesde(sinUso, n, mano)
      pasadas == {i \in DOMAIN ch : Distancia(n, mano, i) < Distancia(n, mano, sucia)}
  IN CASE sinUso \cap limpias # {} ->
            [victima |-> PrimeraDesde(sinUso \cap limpias, n, mano),
             queda |-> ch, guarda |-> FALSE]
       [] sinUso \cap limpias = {} /\ sinUso # {} ->
            [victima |-> sucia, queda |-> SinUso(ch, pasadas), guarda |-> TRUE]
       [] sinUso = {} /\ limpias # {} ->
            [victima |-> PrimeraDesde(limpias, n, mano),
             queda |-> SinUso(ch, DOMAIN ch), guarda |-> FALSE]
       [] OTHER ->
            [victima |-> mano, queda |-> SinUso(ch, DOMAIN ch), guarda |-> TRUE]

Elige(c) == IF ReemplazoCache[c] = "CLOCK" THEN Clock(cache[c], puntero[c])
                                           ELSE ClockM(cache[c], puntero[c])

EnCache(c, n) == {i \in DOMAIN cache[c] : cache[c][i].pagina = n}

(* The page after a miss: translated, read whole, put in the cache.  When  *)
(* something must leave, its frame is looked up in the TLB again.          *)
Trae(c, n) ==
  LET p == corre[c]
      f == Marco(tlb[c], p, n)
      nueva == [pagina |-> n, pid |-> p, marco |-> f, valor |-> SinFinal[memoria[f]],
                uso |-> TRUE, modificado |-> FALSE]
  IN IF Len(cache[c]) < EntradasCache[c]
     THEN [cache |-> Append(cache[c], nueva), puntero |-> puntero[c],
           memoria |-> memoria, propia |-> SuMarco(p, n, f)]
     ELSE LET r == Elige(c)
              v == cache[c][r.victima]
              g == Marco(TlbTrasTraducir(c, n), p, v.pagina)
          IN [cache |-> [r.queda EXCEPT ![r.victima] = nueva],
              puntero |-> (r.victima % Len(cache[c])) + 1,
              memoria |-> IF r.guarda THEN [memoria EXCEPT ![g] = SinFinal[v.valor]]
                                      ELSE memoria,
              propia |-> /\ SuMarco(p, n, f)
                         /\ r.guarda => SuMarco(v.pid, v.pagina, g)]

(* Memory answers what a miss asks it: the page, and first the victim.     *)
Responde(c, n) ==
  /\ EsDe(corre[c], Marco(tlb[c], corre[c], n))
  /\ Len(cache[c]) = EntradasCache[c] =>
       LET r == Elige(c)
           v == cache[c][r.victima]
       IN r.guarda => EsDe(v.pid, Marco(TlbTrasTraducir(c, n), corre[c], v.pagina))

Escrita(e, d) == [e EXCEPT !.valor = SinFinal[d], !.uso = TRUE, !.modificado = TRUE]

(* A page is written: what it held when it came from the swap is gone.     *)
Anota(c, n, d) == /\ ultimo' = [ultimo EXCEPT ![<<corre[c], n>>] = d]
                  /\ devuelta' = devuelta \ {<<corre[c], n>>}

------------------------------------------------------------------------------
(* READ and WRITE.                                                         *)

LeeDeCache(c, n) ==
  /\ Ejecuta(c, n)
  /\ \E i \in EnCache(c, n) : cache' = [cache EXCEPT ![c][i].uso = TRUE]
  /\ UNCHANGED <<varsCpu, tlb, puntero, memoria, varsMem, varsHist>>

(* Mutant: a hit does not mark the page as modified.                       *)
EscribeEnCacheSinMarcar(c, n, d) ==
  /\ Ejecuta(c, n)
  /\ \E i \in EnCache(c, n) : cache' = [cache EXCEPT ![c][i].valor = SinFinal[d]]
  /\ Anota(c, n, d)
  /\ UNCHANGED <<varsCpu, tlb, puntero, memoria, varsMem, varsGuarda, vieja, sano>>

EscribeEnCache(c, n, d) ==
  /\ Ejecuta(c, n)
  /\ \E i \in EnCache(c, n) : cache' = [cache EXCEPT ![c][i] = Escrita(@, d)]
  /\ Anota(c, n, d)
  /\ UNCHANGED <<varsCpu, tlb, puntero, memoria, varsMem, varsGuarda, vieja, sano>>

FalloDeCache(c, n) ==
  /\ Ejecuta(c, n) /\ EntradasCache[c] > 0 /\ EnCache(c, n) = {}
  /\ tlb' = [tlb EXCEPT ![c] = TlbTrasTraducir(c, n)]

LeeTrayendo(c, n) ==
  /\ FalloDeCache(c, n) /\ Responde(c, n)
  /\ LET t == Trae(c, n) IN
       /\ cache' = [cache EXCEPT ![c] = t.cache]
       /\ puntero' = [puntero EXCEPT ![c] = t.puntero]
       /\ memoria' = t.memoria
       /\ sano' = (sano /\ t.propia)
  /\ UNCHANGED <<varsCpu, varsMem, ultimo, varsGuarda, vieja, devuelta>>

EscribeTrayendo(c, n, d) ==
  /\ FalloDeCache(c, n) /\ Responde(c, n)
  /\ LET t == Trae(c, n) IN
       /\ cache' = [cache EXCEPT ![c] =
            [i \in DOMAIN t.cache |-> IF t.cache[i].pagina = n
                                      THEN Escrita(t.cache[i], d)
                                      ELSE t.cache[i]]]
       /\ puntero' = [puntero EXCEPT ![c] = t.puntero]
       /\ memoria' = t.memoria
       /\ sano' = (sano /\ t.propia)
  /\ Anota(c, n, d)
  /\ UNCHANGED <<varsCpu, varsMem, varsGuarda, vieja>>

(* Memory does not answer: the address is of no page of the process, or it *)
(* is the last byte of one (the bound is compared with a strict "<"), or   *)
(* the page asked for from there would end beyond the memory.              *)
SinRespuesta(c, n, ultimoByte) ==
  /\ FalloDeCache(c, n)
  /\ ultimoByte \/ ~Responde(c, n)
  /\ colgada' = [colgada EXCEPT ![c] = TRUE]
  /\ UNCHANGED <<corre, anterior, cache, puntero, memoria, varsMem, varsHist>>

(* Without a cache every access goes to memory, at the address the TLB     *)
(* gives, and nobody asks whose it is.                                     *)
Accede(c, n) ==
  /\ Ejecuta(c, n) /\ EntradasCache[c] = 0
  /\ tlb' = [tlb EXCEPT ![c] = TlbTrasTraducir(c, n)]

LeeDeMemoria(c, n) ==
  /\ Accede(c, n)
  /\ Marco(tlb[c], corre[c], n) # SinMarco
  /\ UNCHANGED <<varsCpu, cache, puntero, memoria, varsMem, varsHist>>

(* A read from a negative address has no answer.                           *)
LeeFuera(c, n) ==
  /\ Accede(c, n)
  /\ Marco(tlb[c], corre[c], n) = SinMarco
  /\ colgada' = [colgada EXCEPT ![c] = TRUE]
  /\ UNCHANGED <<corre, anterior, cache, puntero, memoria, varsMem, varsHist>>

(* A write to a negative address is confirmed and done nowhere.            *)
EscribeEnMemoria(c, n, d) ==
  /\ Accede(c, n)
  /\ LET g == Marco(tlb[c], corre[c], n) IN
       /\ memoria' = [f \in Marcos |-> IF f = g THEN d ELSE memoria[f]]
       /\ sano' = (sano /\ SuMarco(corre[c], n, g))
  /\ Anota(c, n, d)
  /\ UNCHANGED <<varsCpu, cache, puntero, varsMem, varsGuarda, vieja>>

------------------------------------------------------------------------------
(* A process comes and goes.                                               *)

(* A CPU that keeps what it has of the process knows its last writes only  *)
(* if the process ran nowhere else since; another reads them from memory.  *)
SigueFiel(c, p) == IF anterior[c] = p /\ EntradasCache[c] > 0
                   THEN ultima[p] = c ELSE guardado[p]

Toma(c, p) ==
  /\ corre[c] = Nadie /\ p \in vivos \cap enMemoria /\ \A d \in CPUs : corre[d] # p
  /\ corre' = [corre EXCEPT ![c] = p]
  /\ bloqueados' = bloqueados \ {p}
  /\ fiel' = [fiel EXCEPT ![p] = @ /\ SigueFiel(c, p)]
  /\ ultima' = [ultima EXCEPT ![p] = c]
  /\ UNCHANGED <<anterior, colgada, puntero, memoria, tabla, vivos, enMemoria, ultimo,
                 guardado, sano, devuelta>>

Limpia(c, p) == anterior[c] \notin {p, Nadie} /\ EntradasCache[c] > 0

(* A CPU that has no cache keeps in its TLB the frames of the last process.*)
Envejece(c, p) ==
  vieja' = IF Limpia(c, p) THEN vieja \ {c}
           ELSE IF anterior[c] \notin {p, Nadie} /\ tlb[c] # <<>> THEN vieja \cup {c}
           ELSE vieja

(* Mutant: the cache and the TLB survive a change of process.              *)
AtenderDispatchSinLimpiar(c, p) ==
  /\ Toma(c, p) /\ Envejece(c, p)
  /\ UNCHANGED <<tlb, cache>>

(* atender_cpu_dispatch: cache and TLB are cleared, both, only when there  *)
(* is a cache.                                                             *)
AtenderDispatch(c, p) ==
  /\ Toma(c, p) /\ Envejece(c, p)
  /\ cache' = [cache EXCEPT ![c] = IF Limpia(c, p) THEN <<>> ELSE @]
  /\ tlb' = [tlb EXCEPT ![c] = IF Limpia(c, p) THEN <<>> ELSE @]

Deja(c) == /\ corre[c] # Nadie /\ ~colgada[c]
           /\ anterior' = [anterior EXCEPT ![c] = corre[c]]
           /\ corre' = [corre EXCEPT ![c] = Nadie]

Modificadas(c) == {i \in DOMAIN cache[c] : cache[c][i].modificado}

(* enviar_paginas_modificadas_a_memoria: at the address kept in the entry, *)
(* in the order of the list.  The bits stay as they are.                   *)
MemoriaTrasEnviar(c) ==
  [f \in Marcos |->
     LET van == {i \in Modificadas(c) : cache[c][i].marco = f} IN
     IF van = {} THEN memoria[f]
     ELSE SinFinal[cache[c][CHOOSE i \in van : \A j \in van : j <= i].valor]]

EnvioPropio(c) ==
  \A i \in Modificadas(c) : SuMarco(corre[c], cache[c][i].pagina, cache[c][i].marco)

EnvioRespondido(c) == \A i \in Modificadas(c) : EsDe(corre[c], cache[c][i].marco)

(* It waits for an IO or for a dump.                                       *)
SeBloquea(c) == bloqueados' = bloqueados \cup ({corre[c]} \cap SeSuspenden)

(* Mutant: only the first modified page is sent.                           *)
SyscallIOEnviaUna(c) ==
  /\ Deja(c) /\ EnvioRespondido(c) /\ SeBloquea(c)
  /\ memoria' = IF Modificadas(c) = {} THEN memoria
                ELSE LET e == cache[c][CHOOSE i \in Modificadas(c) :
                                         \A j \in Modificadas(c) : i <= j]
                     IN [memoria EXCEPT ![e.marco] = SinFinal[e.valor]]
  /\ guardado' = [guardado EXCEPT ![corre[c]] = TRUE]
  /\ sano' = (sano /\ EnvioPropio(c))
  /\ UNCHANGED <<colgada, tlb, cache, puntero, tabla, vivos, enMemoria, ultimo, ultima,
                 fiel, vieja, devuelta>>

SyscallIO(c) ==
  /\ Deja(c) /\ EnvioRespondido(c) /\ SeBloquea(c)
  /\ memoria' = MemoriaTrasEnviar(c)
  /\ guardado' = [guardado EXCEPT ![corre[c]] = TRUE]
  /\ sano' = (sano /\ EnvioPropio(c))
  /\ UNCHANGED <<colgada, tlb, cache, puntero, tabla, vivos, enMemoria, ultimo, ultima,
                 fiel, vieja, devuelta>>

SyscallIOSinRespuesta(c) ==
  /\ corre[c] # Nadie /\ ~colgada[c] /\ ~EnvioRespondido(c)
  /\ colgada' = [colgada EXCEPT ![c] = TRUE]
  /\ UNCHANGED <<corre, anterior, tlb, cache, puntero, memoria, varsMem, varsHist>>

(* DUMP_MEMORY and preemption send nothing.                                *)
SinEnviar(c) ==
  /\ Deja(c)
  /\ guardado' = [guardado EXCEPT ![corre[c]] = Modificadas(c) = {}]
  /\ UNCHANGED <<colgada, tlb, cache, puntero, memoria, tabla, vivos, enMemoria, ultimo,
                 ultima, fiel, vieja, sano, devuelta>>

SyscallDump(c) == SinEnviar(c) /\ SeBloquea(c)

Desaloja(c) == SinEnviar(c) /\ UNCHANGED bloqueados

SyscallExit(c) ==
  /\ Deja(c)
  /\ vivos' = vivos \ {corre[c]}
  /\ UNCHANGED <<colgada, tlb, cache, puntero, memoria, tabla, bloqueados, enMemoria,
                 varsHist>>

------------------------------------------------------------------------------
(* Memory takes the frames of a process away and gives it others.          *)

EliminaProceso(p) ==
  /\ p \in enMemoria \ vivos
  /\ enMemoria' = enMemoria \ {p}
  /\ UNCHANGED <<varsCpu, tlb, cache, puntero, memoria, tabla, vivos, bloqueados,
                 varsHist>>

SuspendeProceso(p) ==
  /\ p \in bloqueados \cap enMemoria
  /\ enMemoria' = enMemoria \ {p}
  /\ UNCHANGED <<varsCpu, tlb, cache, puntero, memoria, tabla, vivos, bloqueados,
                 varsHist>>

(* The first free frames, in order.  They keep what they held: nothing is  *)
(* copied to them.                                                         *)
DesuspendeProceso(p) ==
  /\ p \in vivos \ enMemoria
  /\ LET suyas == {x \in Paginas : x[1] = p}
         libres == Marcos \ {tabla[x] : x \in {y \in Paginas : y[1] \in enMemoria}}
     IN /\ \E h \in [suyas -> libres] :
             /\ \A x, y \in suyas : x[2] < y[2] => h[x] < h[y]
             /\ \A x \in suyas, f \in libres :
                  f < h[x] => \E y \in suyas : h[y] = f
             /\ tabla' = [x \in Paginas |-> IF x \in suyas THEN h[x] ELSE tabla[x]]
        /\ devuelta' = devuelta \cup suyas
  /\ enMemoria' = enMemoria \cup {p}
  /\ vieja' = vieja \cup {c \in CPUs : /\ Duenio(c) = p
                                       /\ tlb[c] # <<>> \/ cache[c] # <<>>}
  /\ UNCHANGED <<varsCpu, tlb, cache, puntero, memoria, vivos, bloqueados, ultimo,
                 varsGuarda, sano>>

------------------------------------------------------------------------------

Instruccion(c, n) ==
  \/ LeeDeCache(c, n) \/ LeeTrayendo(c, n) \/ LeeDeMemoria(c, n) \/ LeeFuera(c, n)
  \/ \E d \in Datos : \/ EscribeEnCache(c, n, d) \/ EscribeTrayendo(c, n, d)
                      \/ EscribeEnMemoria(c, n, d)
  \/ \E b \in BOOLEAN : SinRespuesta(c, n, b)

Next ==
  \/ \E c \in CPUs, x \in Paginas : Instruccion(c, x[2])
  \/ \E c \in CPUs, p \in Procesos : AtenderDispatch(c, p)
  \/ \E c \in CPUs : \/ SyscallIO(c) \/ SyscallIOSinRespuesta(c)
                     \/ SyscallDump(c) \/ Desaloja(c) \/ SyscallExit(c)
  \/ \E p \in Procesos : \/ EliminaProceso(p) \/ SuspendeProceso(p)
                         \/ DesuspendeProceso(p)

Spec == Init /\ [][Next]_vars

------------------------------------------------------------------------------
(* Types of the variables, and sizes the lists never exceed.               *)
TypeOK ==
  /\ corre \in [CPUs -> Procesos \cup {Nadie}]
  /\ anterior \in [CPUs -> Procesos \cup {Nadie}]
  /\ colgada \in [CPUs -> BOOLEAN]
  /\ \A c \in CPUs :
       /\ tlb[c] \in Seq([pagina : Nat, marco : Marcos \cup {SinMarco}])
       /\ Len(tlb[c]) <= EntradasTlb[c]
       /\ cache[c] \in Seq([pagina : Nat, pid : Procesos, marco : Marcos,
                            valor : Datos, uso : BOOLEAN, modificado : BOOLEAN])
       /\ Len(cache[c]) <= EntradasCache[c]
  /\ puntero \in [CPUs -> Nat \ {0}]
  /\ memoria \in [Marcos -> Datos]
  /\ tabla \in [Paginas -> Marcos]
  /\ vivos \subseteq Procesos /\ bloqueados \subseteq SeSuspenden
  /\ enMemoria \subseteq Procesos
  /\ ultimo \in [Paginas -> Datos]
  /\ guardado \in [Procesos -> BOOLEAN]
  /\ ultima \in [Procesos -> CPUs \cup {Nadie}]
  /\ fiel \in [Procesos -> BOOLEAN]
  /\ vieja \subseteq CPUs /\ sano \in BOOLEAN /\ devuelta \subseteq Paginas

(* Memory finds the pages of the process by their number: with one table   *)
(* for all, only those of the process whose pages are the first.           *)
BienUbicado(p) == TablaUnica => \A x \in Paginas : x[1] = p => tabla[x] = x[2]

(* The lookups in the TLB and in the cache compare page numbers only.      *)
(* Whatever changes of process, evictions and suspensions there were, the  *)
(* cache has only pages of the process it is looked up for; and, on a CPU  *)
(* that did not keep entries it should have dropped (the TLB when there is *)
(* no cache, or what moved in memory), every frame that the TLB or the     *)
(* cache gives is the page's own.                                          *)
TraduccionPropia ==
  \A c \in CPUs :
    /\ \A i \in DOMAIN cache[c] :
         /\ cache[c][i].pid = Duenio(c)
         /\ <<Duenio(c), cache[c][i].pagina>> \in Paginas
    /\ c \notin vieja /\ BienUbicado(Duenio(c)) =>
         /\ \A i \in DOMAIN tlb[c] :
              SuMarco(Duenio(c), tlb[c][i].pagina, tlb[c][i].marco)
         /\ \A i \in DOMAIN cache[c] :
              SuMarco(Duenio(c), cache[c][i].pagina, cache[c][i].marco)

(* What a READ of the page would give.                                     *)
Ve(c, n) == IF EnCache(c, n) # {}
            THEN cache[c][CHOOSE i \in EnCache(c, n) : TRUE].valor
            ELSE memoria[Marco(tlb[c], corre[c], n)]

Igual(d, e) == SinFinal[d] = SinFinal[e]

(* While nothing has gone to memory at a frame that was not the page's own *)
(* (TraduccionPropia says when), through the cache, its replacements and   *)
(* its write-backs, on whatever CPU, a process reads at the page's own     *)
(* frame or in the cache what it wrote last, but for the last byte, unless *)
(* the kernel moved it to a CPU that could not know.  A page that came     *)
(* back from swap counts from its first write.                             *)
LeeLoQueEscribio ==
  \A c \in CPUs, x \in Paginas :
    /\ corre[c] = x[1] /\ sano /\ fiel[x[1]] /\ x \notin devuelta
    /\ EnCache(c, x[2]) # {} \/ Marco(tlb[c], x[1], x[2]) = tabla[x]
    => Igual(Ve(c, x[2]), ultimo[x])

(* While a process is out of the CPU and in memory after its modified      *)
(* pages were sent, memory (a dump, the swap) has everything it wrote, but *)
(* for the last byte of the page.                                          *)
GuardadoTrasIO ==
  \A x \in Paginas :
    /\ \A c \in CPUs : corre[c] # x[1]
    /\ x[1] \in vivos \cap enMemoria /\ fiel[x[1]] /\ guardado[x[1]]
    /\ sano /\ x \notin devuelta
    => Igual(memoria[tabla[x]], ultimo[x])

Reemplazadas(c) ==
  {i \in DOMAIN cache[c] : /\ Len(cache[c]) = EntradasCache[c]
                           /\ i \in DOMAIN cache'[c]
                           /\ cache'[c][i].pagina # cache[c][i].pagina}

Clase(c, e) == CASE ReemplazoCache[c] = "CLOCK" -> IF e.uso THEN 1 ELSE 0
                 [] OTHER -> (IF e.uso THEN 2 ELSE 0) + (IF e.modificado THEN 1 ELSE 0)

(* The victim is of the lowest class present: for CLOCK not used before    *)
(* used; for CLOCK-M also clean before modified.                           *)
VictimaJusta ==
  [][\A c \in CPUs : \A i \in Reemplazadas(c) : \A j \in DOMAIN cache[c] :
       Clase(c, cache[c][i]) <= Clase(c, cache[c][j])]_vars

==============================================================================
