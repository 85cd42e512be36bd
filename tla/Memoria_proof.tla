----------------------------- MODULE Memoria_proof -----------------------------
(***************************************************************************)
(* The memory program: who is inside mutex_entradas_swap, where a page is, *)
(* and how many pages the bytes counted in TAM_OCUPADO stand for.          *)
(***************************************************************************)
EXTENDS Memoria, FiniteSetTheorems, SequenceTheorems, WellFoundedInduction, TLAPS

Nucleos == {"nuevo", "mem", "susp", "fin", "muerto"}

TipoPedido == [que : {"nada", "CREATE", "DESSUSPENDER", "ELIMINAR"},
               de : Procesos \cup {Nadie},
               paso : {"", "toma", "marca", "espera", "lee", "borra"},
               pag : Nat, marco : Nat, foto : SUBSET Bits]

TipoPagina == [ocupada : BOOLEAN, marco : Bits \cup {SinMarco},
               local : Int, modificada : BOOLEAN]

TipoSwap == [pid : Procesos \cup {Nadie}, valor : Datos]

TipoSusp == [paso : {"no", "duerme", "espera", "pagina", "borra", "olvida", "fin"},
             de : Procesos \cup {Nadie}, foto : SUBSET Bits]

(* TypeOK without the bound on TAM_OCUPADO, and what a request or a thread *)
(* has read by each of its steps.                                          *)
TiposPag == /\ pagina \in [Entradas -> TipoPagina]
            /\ propias \in [Procesos -> Seq(Entradas)]
            /\ marcos \subseteq Bits

TiposPed == /\ nucleo \in [Procesos -> Nucleos]
            /\ admitido \in Procesos \cup {Nadie}
            /\ pedido \in TipoPedido
            /\ pedido.que = "nada" <=> pedido = SinPedido
            /\ pedido.que # "nada" => pedido.de \in Procesos
            /\ pedido.que = "CREATE" => pedido.paso \in {"toma", "marca"}
            /\ pedido.que = "DESSUSPENDER" => pedido.paso \in {"espera", "toma"}
            /\ pedido.que = "ELIMINAR" => pedido.paso \in {"lee", "borra"}
            /\ pedido.paso = "marca" => /\ pedido.pag \in Entradas
                                        /\ pedido.marco \in Bits \cup {SinMarco}
            /\ pedido.paso = "borra" => pedido.marco \in Entradas

TiposResto == /\ lista \subseteq Procesos
              /\ memoria \in [Marcos -> Datos]
              /\ ocupado \in Int
              /\ swap \in [1 .. CantSwap -> TipoSwap]
              /\ mutexSwap \in {Libre, ElPedido} \cup Suspensiones
              /\ caida \in BOOLEAN

TiposSusp == /\ susp \in [Suspensiones -> TipoSusp]
             /\ \A s \in Suspensiones : susp[s].paso # "no" => susp[s].de \in Procesos

Tipos == TiposPag /\ TiposPed /\ TiposResto /\ TiposSusp

------------------------------------------------------------------------------
(* Operators.                                                              *)
LEMMA Menor ==
  ASSUME NEW S \in SUBSET Nat, S # {}
  PROVE  Min(S) \in S
<1> DEFINE R == {ss \in Nat \X Nat : ss[1] < ss[2]}
<1>1. IsWellFoundedOn(R, Nat)
  BY NatLessThanWellFounded, Zenon DEF OpToRel
<1> HIDE DEF R
<1>2. PICK c \in S : \A d \in S : ~(<<d, c>> \in R)
  BY <1>1, WFMin
<1>3. \A d \in S : ~(d < c)
  BY <1>2 DEF R
<1>4. \A d \in S : c <= d
  BY <1>3
<1> QED BY <1>4 DEF Min

(* The first that is free, or none.                                        *)
LEMMA PrimeroLibreEsLibre ==
  ASSUME NEW n \in Nat, NEW S \in SUBSET (1 .. n)
  PROVE  \/ PrimeroLibre(S, 1 .. n) = 0 /\ S = 1 .. n
         \/ PrimeroLibre(S, 1 .. n) \in (1 .. n) \ S
<1>1. CASE S = 1 .. n
  BY <1>1 DEF PrimeroLibre
<1>2. CASE S # 1 .. n
  <2>0. 1 .. n \in SUBSET Nat
    OBVIOUS
  <2>1. (1 .. n) \ S \in SUBSET Nat /\ (1 .. n) \ S # {}
    BY <1>2, <2>0, Zenon
  <2>2. Min((1 .. n) \ S) \in (1 .. n) \ S
    BY <2>1, Menor
  <2> QED BY <1>2, <2>2 DEF PrimeroLibre
<1> QED BY <1>1, <1>2

LEMMA Primeros ==
  ASSUME Tipos
  PROVE  /\ PrimerMarcoLibre \in Bits \cup {SinMarco}
         /\ PrimeraPagLibre \in Entradas \cup {0}
         /\ \/ PrimeraSwapLibre = 0
            \/ PrimeraSwapLibre \in 1 .. CantSwap /\ swap[PrimeraSwapLibre].pid = Nadie
<1>1. CantFrames \in Nat /\ CantEntradas \in Nat /\ CantSwap \in Nat
  BY MemoriaOk
<1>2. PrimerMarcoLibre \in Bits \cup {SinMarco}
  <2>1. 8 \in Nat /\ marcos \in SUBSET (1 .. 8)
    BY DEF Tipos, TiposPag, Bits
  <2>2. \/ PrimeroLibre(marcos, 1 .. 8) = 0 /\ marcos = 1 .. 8
        \/ PrimeroLibre(marcos, 1 .. 8) \in (1 .. 8) \ marcos
    BY <2>1, PrimeroLibreEsLibre
  <2> QED BY <2>2 DEF PrimerMarcoLibre, Bits, SinMarco
<1>3. PrimeraPagLibre \in Entradas \cup {0}
  <2>1. {g \in Entradas : pagina[g].ocupada} \in SUBSET (1 .. CantEntradas)
    BY DEF Entradas
  <2> QED BY <1>1, <2>1, PrimeroLibreEsLibre DEF PrimeraPagLibre, Entradas
<1>4. \/ PrimeraSwapLibre = 0
      \/ PrimeraSwapLibre \in 1 .. CantSwap /\ swap[PrimeraSwapLibre].pid = Nadie
  <2> DEFINE U == {e \in 1 .. CantSwap : swap[e].pid # Nadie}
  <2>1. DOMAIN swap = 1 .. CantSwap
    BY DEF Tipos, TiposResto
  <2>2. PrimeraSwapLibre = PrimeroLibre(U, 1 .. CantSwap)
    BY <2>1 DEF PrimeraSwapLibre
  <2>3. U \in SUBSET (1 .. CantSwap)
    OBVIOUS
  <2>4. PrimeroLibre(U, 1 .. CantSwap) = 0 \/ PrimeroLibre(U, 1 .. CantSwap) \in (1 .. CantSwap) \ U
    BY <1>1, <2>3, PrimeroLibreEsLibre
  <2> QED BY <2>2, <2>4
<1> QED BY <1>2, <1>3, <1>4

LEMMA SwapDeTipo ==
  ASSUME Tipos, NEW p \in Procesos, SwapDe(p) # {}
  PROVE  Min(SwapDe(p)) \in SwapDe(p) /\ SwapDe(p) \in SUBSET (1 .. CantSwap)
<1>1. SwapDe(p) \in SUBSET (1 .. CantSwap)
  BY DEF SwapDe, Tipos, TiposResto
<1>2. SwapDe(p) \in SUBSET Nat
  BY <1>1, MemoriaOk
<1> QED BY <1>1, <1>2, Menor

LEMMA Cantidades ==
  ASSUME NEW p \in Procesos
  PROVE  /\ CantPaginas(p) \in Nat /\ Bytes(p) \in Nat
         /\ Bytes(p) = CantPaginas(p) * TamPagina
         /\ TamPagina \in Nat \ {0} /\ Tamanio[p] \in Nat \ {0}
         /\ (CantPaginas(p) - 1) * TamPagina < Tamanio[p]
<1> DEFINE t == Tamanio[p]
           T == TamPagina
           c == (t + T - 1) \div T
<1>1. t \in Nat \ {0} /\ T \in Nat \ {0}
  BY MemoriaOk
<1> HIDE DEF t, T
<1>2. c \in Int /\ c >= 0 /\ c * T <= t + T - 1
  BY <1>1
<1>3. (c - 1) * T = c * T - T
  BY <1>1, <1>2
<1>4. c * T >= 0
  BY <1>1, <1>2
<1>5. (c - 1) * T < t
  BY <1>1, <1>2, <1>3
<1> QED BY <1>1, <1>2, <1>4, <1>5 DEF CantPaginas, Bytes, c, t, T

(* The fields of a request and of a thread.                                *)
LEMMA AtiendeCampos ==
  ASSUME NEW que, NEW p, NEW paso, Atiende(que, p, paso)
  PROVE  /\ pedido = SinPedido /\ pedido.que = "nada"
         /\ pedido' = [que |-> que, de |-> p, paso |-> paso, pag |-> 0,
                       marco |-> SinMarco, foto |-> {}]
BY DEF Atiende, SinPedido

LEMMA AvanzaCampos ==
  ASSUME TiposSusp, NEW s \in Suspensiones, NEW foto \in SUBSET Bits,
         NEW paso \in {"no", "duerme", "espera", "pagina", "borra", "olvida", "fin"},
         susp' = [susp EXCEPT ![s].paso = paso, ![s].foto = foto]
  PROVE  /\ susp' \in [Suspensiones -> TipoSusp]
         /\ susp'[s].paso = paso /\ susp'[s].de = susp[s].de
         /\ \A t \in Suspensiones \ {s} : susp'[t] = susp[t]
BY DEF TiposSusp, TipoSusp

LEMMA CamposPedido ==
  ASSUME Tipos
  PROVE  /\ TomaPagina => /\ pedido.que = "CREATE" /\ pedido.paso = "toma"
                          /\ pedido'.que = "CREATE" /\ pedido'.de = pedido.de
                          /\ pedido'.paso = "marca" /\ pedido'.pag = PrimeraPagLibre
                          /\ pedido'.marco = PrimerMarcoLibre /\ pedido' \in TipoPedido
         /\ MarcaMarco => /\ pedido.que = "CREATE" /\ pedido.paso = "marca"
                          /\ pedido'.que = "CREATE" /\ pedido'.de = pedido.de
                          /\ pedido'.paso = "toma" /\ pedido' \in TipoPedido
         /\ DesEntra => /\ pedido.que = "DESSUSPENDER" /\ pedido.paso = "espera"
                        /\ pedido'.que = "DESSUSPENDER" /\ pedido'.de = pedido.de
                        /\ pedido'.paso = "toma" /\ pedido' \in TipoPedido
         /\ LeeBit => /\ pedido.que = "ELIMINAR" /\ pedido.paso = "lee"
                      /\ pedido'.que = "ELIMINAR" /\ pedido'.de = pedido.de
                      /\ pedido'.paso = "borra" /\ pedido'.marco = EnTurno
                      /\ EnTurno \in Entradas /\ pedido' \in TipoPedido
         /\ BorraBit => /\ pedido.que = "ELIMINAR" /\ pedido.paso = "borra"
                        /\ pedido'.que = "ELIMINAR" /\ pedido'.de = pedido.de
                        /\ pedido'.paso = "lee" /\ pedido' \in TipoPedido
<1>1. pedido \in TipoPedido /\ marcos \in SUBSET Bits /\ Bits \subseteq Nat
      /\ Entradas \subseteq Nat /\ {} \in SUBSET Bits /\ SinMarco = 0
  BY MemoriaOk DEF Tipos, TiposPed, TiposPag, Bits, Entradas, SinMarco
<1>2. ASSUME TomaPagina
      PROVE  /\ pedido.que = "CREATE" /\ pedido.paso = "toma"
             /\ pedido'.que = "CREATE" /\ pedido'.de = pedido.de
             /\ pedido'.paso = "marca" /\ pedido'.pag = PrimeraPagLibre
             /\ pedido'.marco = PrimerMarcoLibre /\ pedido' \in TipoPedido
  <2>1. pedido.que = "CREATE" /\ pedido.paso = "toma"
    BY <1>2 DEF TomaPagina, En
  <2>2. pedido' = [pedido EXCEPT !.paso = "marca", !.pag = PrimeraPagLibre,
                                 !.marco = PrimerMarcoLibre, !.foto = marcos]
    BY <1>2 DEF TomaPagina
  <2>3. PrimeraPagLibre \in Nat /\ PrimerMarcoLibre \in Nat
    <3>1. PrimeraPagLibre \in Entradas \cup {0} /\ PrimerMarcoLibre \in Bits \cup {SinMarco}
      BY Primeros
    <3> QED BY <1>1, <3>1
  <2> QED BY <1>1, <2>1, <2>2, <2>3 DEF TipoPedido
<1>3. ASSUME MarcaMarco
      PROVE  /\ pedido.que = "CREATE" /\ pedido.paso = "marca"
             /\ pedido'.que = "CREATE" /\ pedido'.de = pedido.de
             /\ pedido'.paso = "toma" /\ pedido' \in TipoPedido
  <2>1. pedido.que = "CREATE" /\ pedido.paso = "marca"
    BY <1>3 DEF MarcaMarco, En
  <2>2. pedido' = [SinPedido EXCEPT !.que = "CREATE", !.de = pedido.de, !.paso = "toma"]
    BY <1>3 DEF MarcaMarco
  <2>3. SinPedido \in TipoPedido
    BY <1>1 DEF SinPedido, TipoPedido
  <2> QED BY <1>1, <2>1, <2>2, <2>3 DEF TipoPedido
<1>4. DesEntra => /\ pedido.que = "DESSUSPENDER" /\ pedido.paso = "espera"
                  /\ pedido'.que = "DESSUSPENDER" /\ pedido'.de = pedido.de
                  /\ pedido'.paso = "toma" /\ pedido' \in TipoPedido
  BY <1>1 DEF DesEntra, En, TipoPedido
<1>5. ASSUME LeeBit
      PROVE  /\ pedido.que = "ELIMINAR" /\ pedido.paso = "lee"
             /\ pedido'.que = "ELIMINAR" /\ pedido'.de = pedido.de
             /\ pedido'.paso = "borra" /\ pedido'.marco = EnTurno
             /\ EnTurno \in Entradas /\ pedido' \in TipoPedido
  <2>1. pedido.que = "ELIMINAR" /\ pedido.paso = "lee"
    BY <1>5 DEF LeeBit, En
  <2>2. pedido' = [pedido EXCEPT !.paso = "borra", !.marco = EnTurno, !.foto = marcos]
    BY <1>5 DEF LeeBit
  <2>3. pedido.de \in Procesos
    BY <2>1 DEF Tipos, TiposPed
  <2>4. propias[pedido.de] \in Seq(Entradas) /\ pedido.pag \in Nat
    BY <1>1, <2>3 DEF Tipos, TiposPag, TipoPedido
  <2>5. pedido.pag + 1 \in 1 .. Len(propias[pedido.de])
    BY <1>5, <2>4, LenProperties DEF LeeBit, QuedanPorLiberar
  <2>6. EnTurno \in Entradas
    BY <2>4, <2>5, ElementOfSeq DEF EnTurno
  <2>7. EnTurno \in Nat
    BY <1>1, <2>6
  <2> QED BY <1>1, <2>1, <2>2, <2>6, <2>7 DEF TipoPedido
<1>6. ASSUME BorraBit
      PROVE  /\ pedido.que = "ELIMINAR" /\ pedido.paso = "borra"
             /\ pedido'.que = "ELIMINAR" /\ pedido'.de = pedido.de
             /\ pedido'.paso = "lee" /\ pedido' \in TipoPedido
  <2>1. pedido.que = "ELIMINAR" /\ pedido.paso = "borra"
    BY <1>6 DEF BorraBit, En
  <2>2. pedido' = [pedido EXCEPT !.paso = "lee", !.pag = pedido.pag + 1,
                                 !.marco = SinMarco, !.foto = {}]
    BY <1>6 DEF BorraBit
  <2>3. pedido.pag + 1 \in Nat
    <3>1. pedido.pag \in Nat
      BY <1>1 DEF TipoPedido
    <3> QED BY <3>1
  <2> QED BY <1>1, <2>1, <2>2, <2>3 DEF TipoPedido
<1> QED BY <1>2, <1>3, <1>4, <1>5, <1>6

LEMMA CamposSusp ==
  ASSUME Tipos, NEW s \in Suspensiones
  PROVE  /\ Suspender(s) => /\ susp' \in [Suspensiones -> TipoSusp]
                            /\ susp'[s].de = susp[s].de
                            /\ \A t \in Suspensiones \ {s} : susp'[t] = susp[t]
         /\ SuspBusca(s) => /\ susp[s].paso = "duerme"
                            /\ susp'[s].paso = IF susp[s].de \in lista THEN "espera" ELSE "fin"
         /\ SuspEntra(s) => susp[s].paso = "espera" /\ susp'[s].paso = "pagina"
         /\ CopiaASwap(s) => susp[s].paso = "pagina" /\ susp'[s].paso = "borra"
         /\ SwapLleno(s) => susp[s].paso = "pagina" /\ susp'[s].paso = "fin"
         /\ SuspBorra(s) => susp[s].paso = "borra" /\ susp'[s].paso = "olvida"
         /\ SuspOlvida(s) => susp[s].paso = "olvida" /\ susp'[s].paso = "pagina"
         /\ SuspSale(s) => susp[s].paso = "pagina" /\ susp'[s].paso = "fin"
         /\ SuspCae(s) => susp' = susp
         /\ \A p \in Procesos : PideSuspender(s, p) =>
              /\ susp' \in [Suspensiones -> TipoSusp] /\ susp[s].paso = "no"
              /\ susp'[s].paso = "duerme" /\ susp'[s].de = p
              /\ \A t \in Suspensiones \ {s} : susp'[t] = susp[t]
<1>1. TiposSusp /\ marcos \in SUBSET Bits /\ {} \in SUBSET Bits
  BY DEF Tipos, TiposPag
<1> DEFINE Sigue(paso) == /\ susp' \in [Suspensiones -> TipoSusp]
                          /\ susp'[s].paso = paso /\ susp'[s].de = susp[s].de
                          /\ \A t \in Suspensiones \ {s} : susp'[t] = susp[t]
           Pasos == {"no", "duerme", "espera", "pagina", "borra", "olvida", "fin"}
<1>2. \A paso \in Pasos : Avanza(s, paso) => Sigue(paso)
  BY <1>1, AvanzaCampos DEF Avanza
<1>3. SuspBusca(s) => /\ susp[s].paso = "duerme"
                      /\ Sigue(IF susp[s].de \in lista THEN "espera" ELSE "fin")
  <2>1. (IF susp[s].de \in lista THEN "espera" ELSE "fin") \in Pasos
    OBVIOUS
  <2> HIDE DEF Sigue
  <2> QED BY <1>2, <2>1 DEF SuspBusca, EnPaso
<1>4. SuspEntra(s) => susp[s].paso = "espera" /\ Sigue("pagina")
  BY <1>2 DEF SuspEntra, EnPaso
<1>5. CopiaASwap(s) => susp[s].paso = "pagina" /\ Sigue("borra")
  BY <1>1, AvanzaCampos DEF CopiaASwap, Quedan, EnPaso
<1>6. SwapLleno(s) => susp[s].paso = "pagina" /\ Sigue("fin")
  BY <1>2 DEF SwapLleno, Quedan, EnPaso
<1>7. SuspBorra(s) => susp[s].paso = "borra" /\ Sigue("olvida")
  BY <1>2 DEF SuspBorra, EnPaso
<1>8. SuspOlvida(s) => susp[s].paso = "olvida" /\ Sigue("pagina")
  BY <1>2 DEF SuspOlvida, EnPaso
<1>9. SuspSale(s) => susp[s].paso = "pagina" /\ Sigue("fin")
  BY <1>2 DEF SuspSale, EnPaso
<1>10. SuspCae(s) => susp' = susp
  BY DEF SuspCae
<1>11. ASSUME NEW p \in Procesos, PideSuspender(s, p)
       PROVE  /\ susp' \in [Suspensiones -> TipoSusp] /\ susp[s].paso = "no"
              /\ susp'[s].paso = "duerme" /\ susp'[s].de = p
              /\ \A t \in Suspensiones \ {s} : susp'[t] = susp[t]
  <2>1. susp[s].paso = "no" /\ susp' = [susp EXCEPT ![s].paso = "duerme", ![s].de = p]
    BY <1>11 DEF PideSuspender
  <2> QED BY <1>1, <2>1 DEF TiposSusp, TipoSusp
<1>12. SuspCae(s) => /\ susp' \in [Suspensiones -> TipoSusp]
                     /\ susp'[s].de = susp[s].de
                     /\ \A t \in Suspensiones \ {s} : susp'[t] = susp[t]
  BY <1>1, <1>10 DEF TiposSusp
<1> QED BY <1>3, <1>4, <1>5, <1>6, <1>7, <1>8, <1>9, <1>10, <1>11, <1>12 DEF Suspender

(* The page a SUSPENDER thread is at.                                      *)
LEMMA PrimeraTipo ==
  ASSUME Tipos, NEW s \in Suspensiones, susp[s].paso # "no", propias[susp[s].de] # <<>>
  PROVE  /\ susp[s].de \in Procesos /\ Primera(s) \in Entradas
         /\ propias[susp[s].de] \in Seq(Entradas) /\ Len(propias[susp[s].de]) \in Nat \ {0}
         /\ Tail(propias[susp[s].de]) \in Seq(Entradas)
         /\ Len(Tail(propias[susp[s].de])) = Len(propias[susp[s].de]) - 1
<1>1. susp[s].de \in Procesos
  BY DEF Tipos, TiposSusp
<1>2. PICK l \in Seq(Entradas) : l = propias[susp[s].de]
  BY <1>1 DEF Tipos, TiposPag
<1>3. Len(l) \in Nat /\ Len(l) # 0
  BY <1>2, EmptySeq, LenProperties
<1>4. l[1] \in Entradas
  BY <1>3, ElementOfSeq
<1>5. Tail(l) \in Seq(Entradas) /\ Len(Tail(l)) = Len(l) - 1
  BY <1>2, HeadTailProperties
<1> QED BY <1>1, <1>2, <1>3, <1>4, <1>5 DEF Primera

LEMMA TiposInit == Init => Tipos
<1> SUFFICES ASSUME Init PROVE Tipos
  OBVIOUS
<1>1. /\ SinPedido \in TipoPedido /\ SinPedido.que = "nada" /\ SinPedido.paso = ""
      /\ PaginaLibre \in TipoPagina /\ SwapLibre \in TipoSwap
  BY MemoriaOk DEF SinPedido, TipoPedido, PaginaLibre, TipoPagina, SwapLibre, TipoSwap, SinMarco
<1>2. TiposPag
  BY <1>1, EmptySeq DEF Init, TiposPag
<1>3. TiposPed
  BY <1>1 DEF Init, TiposPed, Nucleos
<1>4. TiposResto
  <2>1. memoria \in [Marcos -> Datos] /\ swap \in [1 .. CantSwap -> TipoSwap]
    BY <1>1, MemoriaOk DEF Init
  <2>2. lista \subseteq Procesos /\ ocupado \in Int
    BY DEF Init
  <2>3. mutexSwap \in {Libre, ElPedido} \cup Suspensiones
    BY DEF Init
  <2>4. caida \in BOOLEAN
    BY DEF Init
  <2> QED BY <2>1, <2>2, <2>3, <2>4 DEF TiposResto
<1>5. TiposSusp
  BY DEF Init, TiposSusp, TipoSusp
<1> QED BY <1>2, <1>3, <1>4, <1>5 DEF Tipos

LEMMA TiposPagPaso == ASSUME Tipos, Next PROVE TiposPag'
<1>0. /\ pagina \in [Entradas -> TipoPagina] /\ propias \in [Procesos -> Seq(Entradas)]
      /\ marcos \in SUBSET Bits
  BY DEF Tipos, TiposPag
<1>1. ASSUME UNCHANGED varsPag PROVE TiposPag'
  BY <1>0, <1>1 DEF varsPag, TiposPag
<1>2. CASE TomaPagina
  <2>1. PrimeraPagLibre \in Entradas
    BY <1>2, Primeros DEF TomaPagina, FaltanPaginas
  <2>2. Len(propias[pedido.de]) \in Int
    BY <1>0, <1>2, LenProperties DEF TomaPagina, En, Tipos, TiposPed
  <2>3. pagina' \in [Entradas -> TipoPagina]
    BY <1>0, <1>2, <2>1, <2>2 DEF TomaPagina, TipoPagina
  <2> QED BY <1>0, <1>2, <2>3 DEF TomaPagina, TiposPag
<1>3. CASE MarcaMarco
  <2>1. /\ pedido.de \in Procesos /\ pedido.pag \in Entradas
        /\ pedido.marco \in Bits \cup {SinMarco} /\ pedido.foto \in SUBSET Bits
    BY <1>3 DEF MarcaMarco, En, Tipos, TiposPed, TipoPedido
  <2>2. marcos' \subseteq Bits
    BY <1>3, <2>1 DEF MarcaMarco, ConBit
  <2>3. pagina' \in [Entradas -> TipoPagina]
    BY <1>0, <1>3, <2>1 DEF MarcaMarco, TipoPagina
  <2>4. propias' \in [Procesos -> Seq(Entradas)]
    BY <1>0, <1>3, <2>1, AppendProperties DEF MarcaMarco
  <2> QED BY <2>2, <2>3, <2>4 DEF TiposPag
<1>4. CASE VuelveUnaPagina
  <2>1. pedido.de \in Procesos
    BY <1>4 DEF VuelveUnaPagina, En, Tipos, TiposPed
  <2>2. marcos' \subseteq Bits
    BY <1>0, <1>4, Primeros DEF VuelveUnaPagina, ConBit
  <2>3. CASE PrimerMarcoLibre # SinMarco /\ PrimeraPagLibre # 0
    <3>1. PrimeraPagLibre \in Entradas /\ PrimerMarcoLibre \in Bits
      BY <2>3, Primeros
    <3>2. Len(propias[pedido.de]) \in Int
      BY <1>0, <2>1, LenProperties
    <3>3. pagina' = [pagina EXCEPT ![PrimeraPagLibre] =
                       [pagina[PrimeraPagLibre] EXCEPT
                          !.ocupada = TRUE, !.marco = PrimerMarcoLibre,
                          !.local = Len(propias[pedido.de])]]
      BY <1>4, <2>3 DEF VuelveUnaPagina
    <3>4. PICK g \in TipoPagina : g = pagina[PrimeraPagLibre]
      BY <1>0, <3>1
    <3>5. [g EXCEPT !.ocupada = TRUE, !.marco = PrimerMarcoLibre,
                    !.local = Len(propias[pedido.de])] \in TipoPagina
      BY <3>1, <3>2, <3>4 DEF TipoPagina
    <3>6. pagina' \in [Entradas -> TipoPagina]
      BY <1>0, <3>1, <3>3, <3>4, <3>5
    <3>7. propias' \in [Procesos -> Seq(Entradas)]
      <4>1. PICK h \in Entradas : h = PrimeraPagLibre
        BY <3>1
      <4>2. Append(propias[pedido.de], h) \in Seq(Entradas)
        BY <1>0, <2>1, AppendProperties
      <4>3. propias' = [propias EXCEPT ![pedido.de] = Append(propias[pedido.de], h)]
        BY <1>4, <2>3, <4>1 DEF VuelveUnaPagina
      <4> QED BY <1>0, <4>2, <4>3
    <3> QED BY <2>2, <3>6, <3>7 DEF TiposPag
  <2>4. CASE ~(PrimerMarcoLibre # SinMarco /\ PrimeraPagLibre # 0)
    BY <1>0, <1>4, <2>2, <2>4 DEF VuelveUnaPagina, TiposPag
  <2> QED BY <2>3, <2>4
<1>5. CASE BorraBit
  <2>1. pedido.marco \in Entradas /\ pedido.foto \in SUBSET Bits
    BY <1>5 DEF BorraBit, En, Tipos, TiposPed, TipoPedido
  <2>2. pagina' \in [Entradas -> TipoPagina]
    BY <1>0, <1>5, <2>1 DEF BorraBit, TipoPagina
  <2>3. marcos' \subseteq Bits
    BY <1>5, <2>1 DEF BorraBit
  <2> QED BY <1>0, <1>5, <2>2, <2>3 DEF BorraBit, TiposPag
<1>6. CASE Eliminado
  <2>1. <<>> \in Seq(Entradas)
    BY EmptySeq
  <2> QED BY <1>0, <1>6, <2>1 DEF Eliminado, TiposPag
<1>7. CASE Creado \/ DesEntra \/ Dessuspendido \/ LeeBit
  BY <1>1, <1>7 DEF Creado, DesEntra, Dessuspendido, LeeBit
<1>8. ASSUME NEW s \in Suspensiones, Suspender(s) PROVE TiposPag'
  <2>1. CASE SuspBorra(s)
    <3>1. Primera(s) \in Entradas /\ susp[s].foto \in SUBSET Bits
      BY <2>1, PrimeraTipo DEF SuspBorra, EnPaso, Tipos, TiposSusp, TipoSusp
    <3>2. pagina' \in [Entradas -> TipoPagina]
      BY <1>0, <2>1, <3>1 DEF SuspBorra, TipoPagina
    <3>3. marcos' \subseteq Bits
      BY <2>1, <3>1 DEF SuspBorra
    <3> QED BY <1>0, <2>1, <3>2, <3>3 DEF SuspBorra, TiposPag
  <2>2. CASE SuspOlvida(s)
    <3>1. /\ susp[s].de \in Procesos /\ Primera(s) \in Entradas
          /\ Tail(propias[susp[s].de]) \in Seq(Entradas)
      BY <2>2, PrimeraTipo DEF SuspOlvida, EnPaso
    <3>2. pagina' \in [Entradas -> TipoPagina]
      <4>1. PICK g \in Entradas : g = Primera(s)
        BY <3>1
      <4>2. pagina' = [pagina EXCEPT ![g].marco = SinMarco, ![g].local = -1]
        BY <2>2, <4>1 DEF SuspOlvida
      <4>3. -1 \in Int
        OBVIOUS
      <4> QED BY <1>0, <4>2, <4>3 DEF TipoPagina
    <3>3. propias' \in [Procesos -> Seq(Entradas)]
      BY <1>0, <2>2, <3>1 DEF SuspOlvida
    <3> QED BY <1>0, <2>2, <3>2, <3>3 DEF SuspOlvida, TiposPag
  <2> QED BY <1>1, <1>8, <2>1, <2>2
          DEF Suspender, SuspBusca, SuspEntra, CopiaASwap, SwapLleno, SuspSale, SuspCae
<1>9. ASSUME NEW p \in Procesos, Nucleo(p) PROVE TiposPag'
  <2>1. ASSUME NEW k \in DOMAIN ultimo[p], NEW d \in Datos, EscribirPagina(p, k, d)
        PROVE  TiposPag'
    <3>1. PICK j \in DOMAIN propias[p] :
            pagina' = [pagina EXCEPT ![propias[p][j]].modificada = TRUE]
      BY <2>1 DEF EscribirPagina
    <3>2. pagina' \in [Entradas -> TipoPagina]
      BY <1>0, <3>1 DEF TipoPagina
    <3> QED BY <1>0, <2>1, <3>2 DEF EscribirPagina, TiposPag
  <2> QED BY <1>1, <1>9, <2>1 DEF Nucleo, EspacioDisponible, CreaProceso, PideDessuspender,
                                  EliminaProceso, PideSuspender, EscribeFuera
<1> QED BY <1>2, <1>3, <1>4, <1>5, <1>6, <1>7, <1>8, <1>9 DEF Next, Pedido

LEMMA TiposPedPaso == ASSUME Tipos, Next PROVE TiposPed'
<1>0. /\ nucleo \in [Procesos -> Nucleos] /\ admitido \in Procesos \cup {Nadie}
      /\ pedido \in TipoPedido
  BY DEF Tipos, TiposPed
<1>1. ASSUME UNCHANGED varsPed PROVE TiposPed'
  BY <1>1 DEF varsPed, TiposPed, Tipos
<1>2. SinPedido \in TipoPedido /\ SinPedido.que = "nada" /\ SinPedido.paso = ""
  BY DEF SinPedido, TipoPedido, SinMarco
<1>3. ASSUME nucleo' \in [Procesos -> Nucleos], admitido' \in Procesos \cup {Nadie},
             pedido' = SinPedido
      PROVE  TiposPed'
  BY <1>2, <1>3 DEF TiposPed
<1>4. ASSUME nucleo' \in [Procesos -> Nucleos], admitido' \in Procesos \cup {Nadie},
             pedido' \in TipoPedido, pedido'.de \in Procesos,
             \/ pedido'.que = "CREATE" /\ pedido'.paso = "toma"
             \/ pedido'.que = "DESSUSPENDER" /\ pedido'.paso \in {"espera", "toma"}
             \/ pedido'.que = "ELIMINAR" /\ pedido'.paso = "lee"
             \/ pedido'.que = "ELIMINAR" /\ pedido'.paso = "borra" /\ pedido'.marco \in Entradas
             \/ /\ pedido'.que = "CREATE" /\ pedido'.paso = "marca"
                /\ pedido'.pag \in Entradas /\ pedido'.marco \in Bits \cup {SinMarco}
      PROVE  TiposPed'
  BY <1>2, <1>4 DEF TiposPed
<1>5. CASE TomaPagina
  <2>1. /\ pedido'.que = "CREATE" /\ pedido'.paso = "marca" /\ pedido' \in TipoPedido
        /\ pedido'.pag \in Entradas /\ pedido'.marco \in Bits \cup {SinMarco}
    BY <1>5, CamposPedido, Primeros DEF TomaPagina, FaltanPaginas
  <2>2. pedido'.de \in Procesos
    BY <1>5, CamposPedido DEF Tipos, TiposPed
  <2> QED BY <1>0, <1>4, <1>5, <2>1, <2>2 DEF TomaPagina
<1>6. CASE MarcaMarco \/ DesEntra \/ LeeBit \/ BorraBit
  <2>1. /\ pedido'.de \in Procesos /\ pedido' \in TipoPedido
        /\ UNCHANGED <<nucleo, admitido>>
    BY <1>6, CamposPedido DEF Tipos, TiposPed, MarcaMarco, DesEntra, LeeBit, BorraBit
  <2>2. \/ pedido'.que = "CREATE" /\ pedido'.paso = "toma"
        \/ pedido'.que = "DESSUSPENDER" /\ pedido'.paso \in {"espera", "toma"}
        \/ pedido'.que = "ELIMINAR" /\ pedido'.paso = "lee"
        \/ pedido'.que = "ELIMINAR" /\ pedido'.paso = "borra" /\ pedido'.marco \in Entradas
    BY <1>6, CamposPedido
  <2> QED BY <1>0, <1>4, <2>1, <2>2
<1>7. CASE VuelveUnaPagina
  BY <1>1, <1>7 DEF VuelveUnaPagina
<1>8. CASE Creado \/ Dessuspendido \/ Eliminado
  <2>1. admitido' \in Procesos \cup {Nadie} /\ pedido' = SinPedido
    BY <1>0, <1>8 DEF Creado, Dessuspendido, Eliminado, Responde
  <2>2. PICK n \in Nucleos : nucleo' = [nucleo EXCEPT ![pedido.de] = n]
    <3>1. CASE Creado \/ Dessuspendido
      BY <3>1 DEF Creado, Dessuspendido, Responde, Nucleos
    <3>2. CASE Eliminado
      <4>1. nucleo' = [nucleo EXCEPT ![pedido.de] =
                         IF nucleo[pedido.de] = "susp" THEN "muerto" ELSE "fin"]
        BY <3>2 DEF Eliminado
      <4> QED BY <4>1 DEF Nucleos
    <3> QED BY <1>8, <3>1, <3>2
  <2>3. nucleo' \in [Procesos -> Nucleos]
    BY <1>0, <2>2
  <2> QED BY <1>3, <2>1, <2>3
<1>9. ASSUME NEW s \in Suspensiones, Suspender(s) PROVE TiposPed'
  BY <1>1, <1>9 DEF Suspender, SuspBusca, SuspEntra, CopiaASwap, SwapLleno, SuspBorra,
                    SuspOlvida, SuspSale, SuspCae
<1>10. ASSUME NEW p \in Procesos, Nucleo(p) PROVE TiposPed'
  <2>1. CASE EspacioDisponible(p)
    BY <1>0, <2>1 DEF EspacioDisponible, TiposPed, Tipos
  <2>2. ASSUME NEW que, NEW paso, Atiende(que, p, paso), UNCHANGED <<nucleo, admitido>>,
               \/ que = "CREATE" /\ paso = "toma"
               \/ que = "DESSUSPENDER" /\ paso = "espera"
               \/ que = "ELIMINAR" /\ paso = "lee"
        PROVE  TiposPed'
    <3>1. pedido' = [que |-> que, de |-> p, paso |-> paso, pag |-> 0,
                     marco |-> SinMarco, foto |-> {}]
      BY <2>2, AtiendeCampos
    <3>2. /\ pedido'.que = que /\ pedido'.de = p /\ pedido'.paso = paso
          /\ pedido' \in TipoPedido
      BY <2>2, <3>1 DEF TipoPedido, SinMarco
    <3> QED BY <1>0, <1>4, <2>2, <3>2
  <2>3. CASE CreaProceso(p) \/ PideDessuspender(p) \/ EliminaProceso(p)
    BY <2>2, <2>3 DEF CreaProceso, PideDessuspender, EliminaProceso
  <2>4. ASSUME NEW s \in Suspensiones, PideSuspender(s, p) PROVE TiposPed'
    <3>1. nucleo' \in [Procesos -> Nucleos] /\ UNCHANGED <<admitido, pedido>>
      BY <1>0, <2>4 DEF PideSuspender, Nucleos
    <3> QED BY <3>1 DEF TiposPed, Tipos
  <2>5. ASSUME NEW k \in DOMAIN ultimo[p], NEW d \in Datos, EscribirPagina(p, k, d)
        PROVE  TiposPed'
    BY <1>1, <2>5 DEF EscribirPagina
  <2>6. CASE EscribeFuera(p)
    BY <1>1, <2>6 DEF EscribeFuera
  <2> QED BY <1>10, <2>1, <2>3, <2>4, <2>5, <2>6 DEF Nucleo
<1> QED BY <1>5, <1>6, <1>7, <1>8, <1>9, <1>10 DEF Next, Pedido

LEMMA TiposSuspPaso == ASSUME Tipos, Next PROVE TiposSusp'
<1>1. ASSUME UNCHANGED susp PROVE TiposSusp'
  BY <1>1 DEF TiposSusp, Tipos
<1>2. CASE Pedido
  BY <1>1, <1>2 DEF Pedido, TomaPagina, MarcaMarco, Creado, DesEntra, VuelveUnaPagina,
                    Dessuspendido, LeeBit, BorraBit, Eliminado
<1>3. ASSUME NEW s \in Suspensiones, Suspender(s) PROVE TiposSusp'
  <2>1. susp[s].paso = "no" => UNCHANGED susp
    BY <1>3, CamposSusp DEF Suspender
  <2>2. /\ susp' \in [Suspensiones -> TipoSusp] /\ susp'[s].de = susp[s].de
        /\ \A t \in Suspensiones \ {s} : susp'[t] = susp[t]
    BY <1>3, CamposSusp
  <2> QED BY <1>1, <2>1, <2>2 DEF TiposSusp, Tipos
<1>4. ASSUME NEW p \in Procesos, Nucleo(p) PROVE TiposSusp'
  <2>1. ASSUME NEW s \in Suspensiones, PideSuspender(s, p) PROVE TiposSusp'
    <3>1. /\ susp' \in [Suspensiones -> TipoSusp] /\ susp'[s].de = p
          /\ \A t \in Suspensiones \ {s} : susp'[t] = susp[t]
      BY <2>1, CamposSusp
    <3> QED BY <3>1 DEF TiposSusp, Tipos
  <2> QED BY <1>1, <1>4, <2>1 DEF Nucleo, EspacioDisponible, CreaProceso, PideDessuspender,
                                  EliminaProceso, EscribirPagina, EscribeFuera
<1> QED BY <1>2, <1>3, <1>4 DEF Next

LEMMA TiposRestoPaso == ASSUME Tipos, Next PROVE TiposResto'
<1>0. TiposResto /\ \A p \in Procesos : Bytes(p) \in Nat
  BY Cantidades DEF Tipos
<1>1. ASSUME UNCHANGED <<lista, memoria, ocupado, swap, mutexSwap, caida>> PROVE TiposResto'
  BY <1>0, <1>1 DEF TiposResto
<1>2. CASE TomaPagina \/ MarcaMarco \/ Creado \/ LeeBit \/ BorraBit \/ Eliminado
  BY <1>1, <1>2 DEF TomaPagina, MarcaMarco, Creado, LeeBit, BorraBit, Eliminado
<1>3. CASE DesEntra
  BY <1>0, <1>3 DEF DesEntra, TiposResto
<1>4. CASE VuelveUnaPagina
  <2>1. swap' \in [1 .. CantSwap -> TipoSwap]
    <3>1. swap' = [swap EXCEPT ![Min(SwapDe(pedido.de))] = SwapLibre]
      BY <1>4 DEF VuelveUnaPagina
    <3>2. SwapLibre \in TipoSwap
      BY MemoriaOk DEF SwapLibre, TipoSwap
    <3> QED BY <1>0, <3>1, <3>2 DEF TiposResto
  <2> QED BY <1>0, <1>4, <2>1 DEF VuelveUnaPagina, TiposResto
<1>5. CASE Dessuspendido
  <2>1. pedido.de \in Procesos
    BY <1>5 DEF Dessuspendido, En, Tipos, TiposPed
  <2>2. ocupado' \in Int
    BY <1>0, <1>5, <2>1 DEF Dessuspendido, TiposResto
  <2> QED BY <1>0, <1>5, <2>2 DEF Dessuspendido, TiposResto
<1>6. ASSUME NEW s \in Suspensiones, Suspender(s) PROVE TiposResto'
  <2>1. CASE SuspBusca(s) \/ SwapLleno(s) \/ SuspBorra(s) \/ SuspOlvida(s)
    BY <1>1, <2>1 DEF SuspBusca, SwapLleno, SuspBorra, SuspOlvida
  <2>2. CASE SuspEntra(s)
    BY <1>0, <2>2 DEF SuspEntra, TiposResto
  <2>3. CASE CopiaASwap(s)
    <3>1. swap' \in [1 .. CantSwap -> TipoSwap]
      <4>1. CASE ~UsaSwap[susp[s].de]
        BY <1>0, <2>3, <4>1 DEF CopiaASwap, TiposResto
      <4>2. CASE UsaSwap[susp[s].de]
        <5>1. PICK v \in Contenido(pagina[Primera(s)]) :
                swap' = [swap EXCEPT ![PrimeraSwapLibre] = [pid |-> susp[s].de, valor |-> v]]
          BY <2>3, <4>2 DEF CopiaASwap
        <5>2. susp[s].de \in Procesos
          BY <2>3, PrimeraTipo DEF CopiaASwap, Quedan, EnPaso
        <5>3. v \in Datos
          BY <1>0, <5>1, MemoriaOk DEF Contenido, TiposResto
        <5> QED BY <1>0, <5>1, <5>2, <5>3 DEF TiposResto, TipoSwap
      <4> QED BY <4>1, <4>2
    <3> QED BY <1>0, <2>3, <3>1 DEF CopiaASwap, TiposResto
  <2>4. CASE SuspSale(s)
    <3>1. susp[s].de \in Procesos
      BY <2>4 DEF SuspSale, EnPaso, Tipos, TiposSusp
    <3>2. ocupado' \in Int
      BY <1>0, <2>4, <3>1 DEF SuspSale, TiposResto
    <3> QED BY <1>0, <2>4, <3>2 DEF SuspSale, TiposResto
  <2>5. CASE SuspCae(s)
    <3>1. caida' \in BOOLEAN
      BY <2>5 DEF SuspCae
    <3> QED BY <1>0, <2>5, <3>1 DEF SuspCae, TiposResto
  <2> QED BY <1>6, <2>1, <2>2, <2>3, <2>4, <2>5 DEF Suspender
<1>7. ASSUME NEW p \in Procesos, Nucleo(p) PROVE TiposResto'
  <2>1. CASE CreaProceso(p) \/ EliminaProceso(p)
    <3>1. lista' \subseteq Procesos /\ ocupado' \in Int
      BY <1>0, <2>1 DEF CreaProceso, EliminaProceso, TiposResto
    <3> QED BY <1>0, <2>1, <3>1 DEF CreaProceso, EliminaProceso, TiposResto
  <2>2. ASSUME NEW k \in DOMAIN ultimo[p], NEW d \in Datos, EscribirPagina(p, k, d)
        PROVE  TiposResto'
    <3>1. memoria' \in [Marcos -> Datos]
      <4>1. PICK j \in DOMAIN propias[p] :
              memoria' = [memoria EXCEPT ![pagina[propias[p][j]].marco] = d]
        BY <2>2 DEF EscribirPagina
      <4> QED BY <1>0, <4>1 DEF TiposResto
    <3> QED BY <1>0, <2>2, <3>1 DEF EscribirPagina, TiposResto
  <2>3. CASE EscribeFuera(p)
    <3>1. caida' \in BOOLEAN
      BY <2>3 DEF EscribeFuera
    <3> QED BY <1>0, <2>3, <3>1 DEF EscribeFuera, TiposResto
  <2> QED BY <1>1, <1>7, <2>1, <2>2, <2>3 DEF Nucleo, EspacioDisponible, PideDessuspender,
                                        PideSuspender
<1> QED BY <1>2, <1>3, <1>4, <1>5, <1>6, <1>7 DEF Next, Pedido

LEMMA TiposPaso == ASSUME Tipos, [Next]_vars PROVE Tipos'
<1>1. CASE Next
  BY <1>1, TiposPagPaso, TiposPedPaso, TiposRestoPaso, TiposSuspPaso DEF Tipos
<1>2. CASE UNCHANGED vars
  BY <1>2 DEF vars, varsPag, varsPed, Tipos, TiposPag, TiposPed, TiposResto, TiposSusp
<1> QED BY <1>1, <1>2

------------------------------------------------------------------------------
(* mutex_entradas_swap: the SUSPENDER thread that moves pages holds it, and *)
(* so does DESSUSPENDER while it takes them back.                           *)
Dentro(s) == susp[s].paso \in {"pagina", "borra", "olvida"}

Mutex ==
  /\ \A s \in Suspensiones : Dentro(s) => mutexSwap = s
  /\ \A s \in Suspensiones : mutexSwap = s => Dentro(s) \/ susp[s].paso = "fin"
  /\ pedido.que = "DESSUSPENDER" /\ pedido.paso = "toma" => mutexSwap = ElPedido

LEMMA MutexPaso == ASSUME Tipos, Mutex, [Next]_vars PROVE Mutex'
<1>0. SinPedido.que = "nada" /\ Libre # ElPedido
      /\ \A s \in Suspensiones : s # Libre /\ s # ElPedido
  BY MutexOk DEF SinPedido, Libre, ElPedido
<1>1. ASSUME UNCHANGED <<susp, mutexSwap>>,
             pedido'.que # "DESSUSPENDER" \/ pedido' = pedido \/ pedido'.paso # "toma"
      PROVE  Mutex'
  BY <1>1 DEF Mutex, Dentro
<1>2. CASE TomaPagina \/ MarcaMarco \/ LeeBit \/ BorraBit
  BY <1>1, <1>2, CamposPedido DEF TomaPagina, MarcaMarco, LeeBit, BorraBit
<1>3. CASE Creado \/ Eliminado
  BY <1>0, <1>1, <1>3 DEF Creado, Eliminado, Responde
<1>4. CASE VuelveUnaPagina
  BY <1>1, <1>4 DEF VuelveUnaPagina, varsPed
<1>5. CASE DesEntra
  BY <1>0, <1>5 DEF DesEntra, Mutex, Dentro
<1>6. CASE Dessuspendido
  <2>1. mutexSwap = ElPedido
    BY <1>6 DEF Dessuspendido, En, Mutex
  <2> QED BY <1>0, <1>6, <2>1 DEF Dessuspendido, Responde, Mutex, Dentro
<1>7. ASSUME NEW s \in Suspensiones, Suspender(s) PROVE Mutex'
  <2>1. pedido' = pedido
    BY <1>7 DEF Suspender, SuspBusca, SuspEntra, CopiaASwap, SwapLleno, SuspBorra,
                SuspOlvida, SuspSale, SuspCae, varsPed
  <2>2. \A t \in Suspensiones \ {s} : susp'[t] = susp[t]
    BY <1>7, CamposSusp
  <2>3. CASE SuspBusca(s)
    <3>1. /\ mutexSwap' = mutexSwap /\ susp[s].paso = "duerme"
          /\ susp'[s].paso \in {"espera", "fin"}
      BY <2>3, CamposSusp DEF SuspBusca
    <3> QED BY <2>1, <2>2, <3>1 DEF Mutex, Dentro
  <2>4. CASE SuspEntra(s)
    <3>1. mutexSwap = Libre /\ mutexSwap' = s /\ susp'[s].paso = "pagina"
      BY <2>4, CamposSusp DEF SuspEntra
    <3> QED BY <1>0, <2>1, <2>2, <3>1 DEF Mutex, Dentro
  <2>5. CASE CopiaASwap(s) \/ SuspBorra(s) \/ SuspOlvida(s) \/ SwapLleno(s)
    <3>1. /\ mutexSwap' = mutexSwap /\ Dentro(s)
          /\ Dentro(s)' \/ susp'[s].paso = "fin"
      BY <2>5, CamposSusp DEF CopiaASwap, SuspBorra, SuspOlvida, SwapLleno, Dentro
    <3> QED BY <2>1, <2>2, <3>1 DEF Mutex, Dentro
  <2>6. CASE SuspSale(s)
    <3>1. mutexSwap' = Libre /\ Dentro(s) /\ susp'[s].paso = "fin"
      BY <2>6, CamposSusp DEF SuspSale, Dentro
    <3> QED BY <1>0, <2>1, <2>2, <3>1 DEF Mutex, Dentro
  <2>7. CASE SuspCae(s)
    BY <1>1, <2>1, <2>7 DEF SuspCae
  <2> QED BY <1>7, <2>3, <2>4, <2>5, <2>6, <2>7 DEF Suspender
<1>8. ASSUME NEW p \in Procesos, Nucleo(p) PROVE Mutex'
  <2>1. ASSUME NEW s \in Suspensiones, PideSuspender(s, p) PROVE Mutex'
    <3>1. /\ UNCHANGED <<pedido, mutexSwap>>
          /\ susp[s].paso = "no" /\ susp'[s].paso = "duerme"
          /\ \A t \in Suspensiones \ {s} : susp'[t] = susp[t]
      BY <2>1, CamposSusp DEF PideSuspender
    <3> QED BY <3>1 DEF Mutex, Dentro
  <2>2. CASE CreaProceso(p) \/ PideDessuspender(p) \/ EliminaProceso(p)
    <3>1. UNCHANGED <<susp, mutexSwap>>
      BY <2>2 DEF CreaProceso, PideDessuspender, EliminaProceso
    <3>2. pedido'.que # "DESSUSPENDER" \/ pedido'.paso # "toma"
      BY <2>2, AtiendeCampos DEF CreaProceso, PideDessuspender, EliminaProceso
    <3> QED BY <1>1, <3>1, <3>2
  <2> QED BY <1>1, <1>8, <2>1, <2>2
          DEF Nucleo, EspacioDisponible, EscribirPagina, EscribeFuera, varsPed
<1>9. CASE UNCHANGED vars
  BY <1>1, <1>9 DEF vars, varsPed
<1> QED BY <1>2, <1>3, <1>4, <1>5, <1>6, <1>7, <1>8, <1>9 DEF Next, Pedido

------------------------------------------------------------------------------
(* The life of a process in the memory program.                            *)
Pide(que, p) == pedido.que = que /\ pedido.de = p

EnCurso ==
  /\ pedido.que = "CREATE" => nucleo[pedido.de] = "nuevo" /\ pedido.de \in lista
  /\ pedido.que = "DESSUSPENDER" => nucleo[pedido.de] = "susp"
  /\ pedido.que \in {"CREATE", "DESSUSPENDER"} => admitido = pedido.de
  /\ pedido.que = "ELIMINAR" => /\ nucleo[pedido.de] \in {"mem", "susp"}
                                /\ admitido # pedido.de /\ pedido.de \notin lista
  /\ admitido # Nadie => nucleo[admitido] \in {"nuevo", "susp"}

Vivos ==
  \A p \in Procesos :
    /\ p \notin lista => propias[p] = <<>> \/ Pide("ELIMINAR", p)
    /\ p \in lista => nucleo[p] \in {"mem", "susp"} \/ Pide("CREATE", p)
    /\ nucleo[p] \in {"mem", "susp"} => p \in lista \/ Pide("ELIMINAR", p)

Nuevos ==
  \A p \in Procesos : nucleo[p] = "nuevo" =>
    /\ SwapDe(p) = {}
    /\ \A s \in Suspensiones : susp[s].paso # "no" => susp[s].de # p
    /\ p \notin lista => propias[p] = <<>>

Ciclo == EnCurso /\ Vivos /\ Nuevos

LEMMA EnCursoPaso == ASSUME Tipos, EnCurso, [Next]_vars PROVE EnCurso'
<1>0. /\ SinPedido.que = "nada" /\ nucleo \in [Procesos -> Nucleos]
      /\ \A p \in Procesos : p # Nadie
      /\ pedido.que # "nada" => pedido.de \in Procesos
  BY MemoriaOk DEF SinPedido, Tipos, TiposPed
<1>1. ASSUME UNCHANGED <<nucleo, admitido, lista>>, pedido'.que = pedido.que,
             pedido'.de = pedido.de
      PROVE  EnCurso'
  BY <1>1 DEF EnCurso
<1>2. CASE TomaPagina \/ MarcaMarco \/ DesEntra \/ LeeBit \/ BorraBit
  BY <1>1, <1>2, CamposPedido DEF TomaPagina, MarcaMarco, DesEntra, LeeBit, BorraBit
<1>3. CASE Creado \/ Dessuspendido
  BY <1>0, <1>3 DEF Creado, Dessuspendido, Responde, EnCurso
<1>4. CASE Eliminado
  <2>1. pedido.que = "ELIMINAR" /\ pedido.de \in Procesos
    BY <1>0, <1>4 DEF Eliminado, En
  <2>2. admitido' = admitido /\ admitido # Nadie => nucleo'[admitido] = nucleo[admitido]
    BY <1>0, <1>4, <2>1 DEF Eliminado, EnCurso, Tipos, TiposPed
  <2> QED BY <1>0, <1>4, <2>2 DEF Eliminado, EnCurso
<1>5. CASE VuelveUnaPagina
  BY <1>1, <1>5 DEF VuelveUnaPagina, varsPed
<1>6. ASSUME NEW s \in Suspensiones, Suspender(s) PROVE EnCurso'
  BY <1>1, <1>6 DEF Suspender, SuspBusca, SuspEntra, CopiaASwap, SwapLleno, SuspBorra,
                    SuspOlvida, SuspSale, SuspCae, varsPed
<1>7. ASSUME NEW p \in Procesos, Nucleo(p) PROVE EnCurso'
  <2>1. CASE EspacioDisponible(p)
    BY <1>0, <2>1 DEF EspacioDisponible, EnCurso
  <2>2. CASE CreaProceso(p)
    <3>1. /\ pedido'.que = "CREATE" /\ pedido'.de = p /\ UNCHANGED <<nucleo, admitido>>
          /\ p \in lista' /\ nucleo[p] = "nuevo" /\ admitido = p
      BY <2>2, AtiendeCampos DEF CreaProceso
    <3> QED BY <1>0, <3>1 DEF EnCurso
  <2>3. CASE PideDessuspender(p)
    <3>1. /\ pedido'.que = "DESSUSPENDER" /\ pedido'.de = p /\ UNCHANGED <<nucleo, admitido>>
          /\ nucleo[p] = "susp" /\ admitido = p
      BY <2>3, AtiendeCampos DEF PideDessuspender
    <3> QED BY <1>0, <3>1 DEF EnCurso
  <2>4. CASE EliminaProceso(p)
    <3>1. /\ pedido'.que = "ELIMINAR" /\ pedido'.de = p /\ UNCHANGED <<nucleo, admitido>>
          /\ p \notin lista'
          /\ nucleo[p] \in {"mem", "susp"} /\ admitido # p
      BY <2>4, AtiendeCampos DEF EliminaProceso
    <3> QED BY <1>0, <3>1 DEF EnCurso
  <2>5. ASSUME NEW s \in Suspensiones, PideSuspender(s, p) PROVE EnCurso'
    <3>1. /\ UNCHANGED <<pedido, admitido, lista>> /\ nucleo[p] = "mem" /\ pedido.de # p
          /\ nucleo'[p] = "susp" /\ \A q \in Procesos \ {p} : nucleo'[q] = nucleo[q]
      BY <1>0, <2>5 DEF PideSuspender
    <3>2. admitido \in Procesos \cup {Nadie}
      BY DEF Tipos, TiposPed
    <3> QED BY <1>0, <3>1, <3>2 DEF EnCurso
  <2>6. ASSUME NEW k \in DOMAIN ultimo[p], NEW d \in Datos, EscribirPagina(p, k, d)
        PROVE  EnCurso'
    BY <1>1, <2>6 DEF EscribirPagina, varsPed
  <2>7. CASE EscribeFuera(p)
    BY <1>1, <2>7 DEF EscribeFuera, varsPed, varsPag
  <2> QED BY <1>7, <2>1, <2>2, <2>3, <2>4, <2>5, <2>6, <2>7 DEF Nucleo
<1>8. CASE UNCHANGED vars
  BY <1>1, <1>8 DEF vars, varsPed
<1> QED BY <1>2, <1>3, <1>4, <1>5, <1>6, <1>7, <1>8 DEF Next, Pedido

LEMMA VivosPaso == ASSUME Tipos, EnCurso, Vivos, [Next]_vars PROVE Vivos'
<1>0. /\ SinPedido.que = "nada" /\ nucleo \in [Procesos -> Nucleos]
      /\ propias \in [Procesos -> Seq(Entradas)]
      /\ pedido.que # "nada" => pedido.de \in Procesos
  BY DEF SinPedido, Tipos, TiposPed, TiposPag
<1>1. ASSUME UNCHANGED <<nucleo, lista, propias>>, pedido'.que = pedido.que,
             pedido'.de = pedido.de
      PROVE  Vivos'
  BY <1>1 DEF Vivos, Pide
<1>2. ASSUME UNCHANGED <<nucleo, lista>>, pedido'.que = pedido.que, pedido'.de = pedido.de,
             NEW p \in Procesos, propias[p] # <<>> \/ p \in lista,
             \A q \in Procesos \ {p} : propias'[q] = propias[q]
      PROVE  Vivos'
  BY <1>2 DEF Vivos, Pide
<1>3. CASE TomaPagina \/ DesEntra \/ LeeBit \/ BorraBit
  BY <1>1, <1>3, CamposPedido DEF TomaPagina, DesEntra, LeeBit, BorraBit, varsPag
<1>4. CASE MarcaMarco
  <2>1. /\ pedido'.que = "CREATE" /\ pedido.que = "CREATE" /\ pedido'.de = pedido.de
        /\ UNCHANGED <<nucleo, lista>>
        /\ propias' = [propias EXCEPT ![pedido.de] = Append(@, pedido.pag)]
    BY <1>4, CamposPedido DEF MarcaMarco
  <2>2. pedido.de \in Procesos /\ pedido.de \in lista
    BY <1>0, <2>1 DEF EnCurso
  <2> QED BY <1>0, <1>2, <2>1, <2>2
<1>5. CASE VuelveUnaPagina
  <2>1. /\ UNCHANGED <<pedido, nucleo, lista>> /\ pedido.que = "DESSUSPENDER"
        /\ \A q \in Procesos \ {pedido.de} : propias'[q] = propias[q]
    BY <1>0, <1>5 DEF VuelveUnaPagina, En, varsPed
  <2>2. pedido.de \in Procesos /\ pedido.de \in lista
    BY <1>0, <2>1 DEF EnCurso, Vivos, Pide
  <2> QED BY <1>2, <2>1, <2>2
<1>6. CASE Creado \/ Dessuspendido
  <2>1. /\ pedido.que \in {"CREATE", "DESSUSPENDER"} /\ pedido'.que = "nada"
        /\ UNCHANGED <<lista, propias>> /\ nucleo' = [nucleo EXCEPT ![pedido.de] = "mem"]
    BY <1>0, <1>6 DEF Creado, Dessuspendido, Responde, varsPag, En
  <2>2. pedido.de \in lista
    BY <1>0, <2>1 DEF EnCurso, Vivos, Pide
  <2> QED BY <1>0, <2>1, <2>2 DEF Vivos, Pide
<1>7. CASE Eliminado
  <2>1. /\ pedido.que = "ELIMINAR" /\ pedido'.que = "nada" /\ lista' = lista
        /\ \A q \in Procesos \ {pedido.de} : nucleo'[q] = nucleo[q]
        /\ nucleo'[pedido.de] \in {"fin", "muerto"}
        /\ propias' = [propias EXCEPT ![pedido.de] = <<>>]
    BY <1>0, <1>7 DEF Eliminado, En
  <2>2. pedido.de \notin lista /\ pedido.de \in Procesos
    BY <1>0, <2>1 DEF EnCurso
  <2> QED BY <1>0, <2>1, <2>2 DEF Vivos, Pide
<1>8. ASSUME NEW s \in Suspensiones, Suspender(s) PROVE Vivos'
  <2>1. CASE SuspOlvida(s)
    <3>1. /\ UNCHANGED <<pedido, nucleo, lista>> /\ susp[s].paso = "olvida"
          /\ propias[susp[s].de] # <<>>
          /\ propias' = [propias EXCEPT ![susp[s].de] = Tail(@)]
      BY <2>1 DEF SuspOlvida, EnPaso, varsPed
    <3>2. susp[s].de \in Procesos
      BY <3>1, PrimeraTipo
    <3> QED BY <1>0, <1>2, <3>1, <3>2
  <2> QED BY <1>1, <1>8, <2>1 DEF Suspender, SuspBusca, SuspEntra, CopiaASwap, SwapLleno,
                                  SuspBorra, SuspSale, SuspCae, varsPed, varsPag
<1>9. ASSUME NEW p \in Procesos, Nucleo(p) PROVE Vivos'
  <2>1. CASE EspacioDisponible(p)
    BY <1>1, <2>1 DEF EspacioDisponible, varsPag
  <2>2. CASE CreaProceso(p)
    <3>1. /\ pedido'.que = "CREATE" /\ pedido'.de = p /\ pedido.que = "nada"
          /\ UNCHANGED <<nucleo, propias>> /\ lista' = lista \cup {p}
      BY <2>2, AtiendeCampos DEF CreaProceso, varsPag
    <3> QED BY <3>1 DEF Vivos, Pide
  <2>3. CASE PideDessuspender(p)
    <3>1. /\ pedido'.que = "DESSUSPENDER" /\ pedido.que = "nada"
          /\ UNCHANGED <<nucleo, propias, lista>>
      BY <2>3, AtiendeCampos DEF PideDessuspender, varsPag
    <3> QED BY <3>1 DEF Vivos, Pide
  <2>4. CASE EliminaProceso(p)
    <3>1. /\ pedido'.que = "ELIMINAR" /\ pedido'.de = p /\ pedido.que = "nada"
          /\ UNCHANGED <<nucleo, propias>> /\ lista' = lista \ {p}
      BY <2>4, AtiendeCampos DEF EliminaProceso, varsPag
    <3> QED BY <3>1 DEF Vivos, Pide
  <2>5. ASSUME NEW s \in Suspensiones, PideSuspender(s, p) PROVE Vivos'
    <3>1. /\ UNCHANGED <<pedido, propias, lista>> /\ nucleo[p] = "mem" /\ nucleo'[p] = "susp"
          /\ \A q \in Procesos \ {p} : nucleo'[q] = nucleo[q]
      BY <1>0, <2>5 DEF PideSuspender, varsPag
    <3> QED BY <3>1 DEF Vivos, Pide
  <2>6. ASSUME NEW k \in DOMAIN ultimo[p], NEW d \in Datos, EscribirPagina(p, k, d)
        PROVE  Vivos'
    BY <1>1, <2>6 DEF EscribirPagina, varsPed
  <2>7. CASE EscribeFuera(p)
    BY <1>1, <2>7 DEF EscribeFuera, varsPed, varsPag
  <2> QED BY <1>9, <2>1, <2>2, <2>3, <2>4, <2>5, <2>6, <2>7 DEF Nucleo
<1>10. CASE UNCHANGED vars
  BY <1>1, <1>10 DEF vars, varsPed, varsPag
<1> QED BY <1>3, <1>4, <1>5, <1>6, <1>7, <1>8, <1>9, <1>10 DEF Next, Pedido

(* What moves pages between main memory and swap does it to one process.   *)
LEMMA SwapVuelve ==
  ASSUME Tipos, VuelveUnaPagina
  PROVE  /\ pedido.de \in Procesos /\ Min(SwapDe(pedido.de)) \in SwapDe(pedido.de)
         /\ SwapDe(pedido.de)' = SwapDe(pedido.de) \ {Min(SwapDe(pedido.de))}
         /\ \A q \in Procesos \ {pedido.de} : SwapDe(q)' = SwapDe(q)
<1>0. pedido.de \in Procesos /\ pedido' = pedido
  BY DEF VuelveUnaPagina, En, Tipos, TiposPed, varsPed
<1>1. PICK m \in SwapDe(pedido.de) : m = Min(SwapDe(pedido.de))
  BY <1>0, SwapDeTipo DEF VuelveUnaPagina
<1>2. swap' = [swap EXCEPT ![m] = SwapLibre] /\ swap \in [1 .. CantSwap -> TipoSwap]
  BY <1>1 DEF VuelveUnaPagina, Tipos, TiposResto
<1>3. SwapLibre.pid = Nadie /\ \A q \in Procesos : q # Nadie
  BY MemoriaOk DEF SwapLibre
<1>4. m \in 1 .. CantSwap /\ swap[m].pid = pedido.de
  BY <1>1, <1>2 DEF SwapDe
<1>5. DOMAIN swap = 1 .. CantSwap /\ DOMAIN swap' = 1 .. CantSwap
  BY <1>2
<1>6. swap'[m].pid = Nadie /\ \A e \in 1 .. CantSwap : e # m => swap'[e] = swap[e]
  BY <1>2, <1>3, <1>4
<1>7. SwapDe(pedido.de)' = SwapDe(pedido.de) \ {m}
  BY <1>0, <1>3, <1>5, <1>6 DEF SwapDe
<1>8. \A q \in Procesos \ {pedido.de} : SwapDe(q)' = SwapDe(q)
  BY <1>3, <1>4, <1>5, <1>6 DEF SwapDe
<1> QED BY <1>0, <1>1, <1>7, <1>8

LEMMA SwapCopia ==
  ASSUME Tipos, NEW s \in Suspensiones, CopiaASwap(s)
  PROVE  /\ susp[s].de \in Procesos
         /\ UsaSwap[susp[s].de] =>
              \E e : e \notin SwapDe(susp[s].de) /\ SwapDe(susp[s].de)' = SwapDe(susp[s].de) \cup {e}
         /\ ~UsaSwap[susp[s].de] => SwapDe(susp[s].de)' = SwapDe(susp[s].de)
         /\ \A q \in Procesos \ {susp[s].de} : SwapDe(q)' = SwapDe(q)
<1>0. susp[s].de \in Procesos /\ swap \in [1 .. CantSwap -> TipoSwap] /\ susp[s].de # Nadie
  BY PrimeraTipo, MemoriaOk DEF CopiaASwap, Quedan, EnPaso, Tipos, TiposResto
<1>1. PICK p \in Procesos : p = susp[s].de /\ p = susp'[s].de
  BY <1>0, CamposSusp DEF Suspender
<1>2. CASE ~UsaSwap[p]
  <2>1. swap' = swap
    BY <1>1, <1>2 DEF CopiaASwap
  <2> QED BY <1>0, <1>1, <1>2, <2>1 DEF SwapDe
<1>3. CASE UsaSwap[p]
  <2>1. PrimeraSwapLibre # 0
    BY <1>1, <1>3 DEF CopiaASwap
  <2>2. PICK e \in 1 .. CantSwap : e = PrimeraSwapLibre /\ swap[e].pid = Nadie
    BY <2>1, Primeros
  <2>3. PICK v : swap' = [swap EXCEPT ![e] = [pid |-> p, valor |-> v]]
    BY <1>1, <1>3, <2>2 DEF CopiaASwap
  <2>4. DOMAIN swap = 1 .. CantSwap /\ DOMAIN swap' = 1 .. CantSwap
    BY <1>0, <2>3
  <2>5. swap'[e].pid = p /\ \A i \in 1 .. CantSwap : i # e => swap'[i] = swap[i]
    BY <1>0, <2>2, <2>3
  <2>6. e \notin SwapDe(p) /\ SwapDe(p)' = SwapDe(p) \cup {e}
    BY <1>0, <1>1, <2>2, <2>4, <2>5 DEF SwapDe
  <2>7. \A q \in Procesos \ {p} : SwapDe(q)' = SwapDe(q)
    BY <2>2, <2>4, <2>5, MemoriaOk DEF SwapDe
  <2>8. SwapDe(susp[s].de)' = SwapDe(p)'
    BY <1>1
  <2> QED BY <1>0, <1>1, <1>3, <2>6, <2>7
<1> QED BY <1>2, <1>3

LEMMA NuevosPaso == ASSUME Tipos, EnCurso, Vivos, Nuevos, [Next]_vars PROVE Nuevos'
<1>0. /\ nucleo \in [Procesos -> Nucleos] /\ propias \in [Procesos -> Seq(Entradas)]
      /\ pedido.que # "nada" => pedido.de \in Procesos
  BY DEF Tipos, TiposPed, TiposPag
<1>1. ASSUME \A q \in Procesos : nucleo'[q] = "nuevo" =>
               /\ nucleo[q] = "nuevo" /\ SwapDe(q)' \subseteq SwapDe(q)
               /\ \A s \in Suspensiones :
                    susp'[s].paso # "no" => susp'[s].de = susp[s].de /\ susp[s].paso # "no"
               /\ q \notin lista' => q \notin lista /\ propias'[q] = propias[q]
      PROVE  Nuevos'
  BY <1>1 DEF Nuevos
<1>2. ASSUME UNCHANGED <<susp, swap>>,
             \A q \in Procesos : nucleo'[q] = "nuevo" =>
               /\ nucleo[q] = "nuevo"
               /\ q \notin lista' => q \notin lista /\ propias'[q] = propias[q]
      PROVE  Nuevos'
  <2>1. \A q \in Procesos : SwapDe(q)' = SwapDe(q)
    BY <1>2 DEF SwapDe
  <2> QED BY <1>1, <1>2, <2>1
<1>3. CASE TomaPagina \/ DesEntra \/ LeeBit \/ BorraBit
  BY <1>2, <1>3 DEF TomaPagina, DesEntra, LeeBit, BorraBit, varsPag
<1>4. CASE MarcaMarco
  <2>1. /\ UNCHANGED <<susp, swap, nucleo, lista>> /\ pedido.que = "CREATE"
        /\ \A q \in Procesos \ {pedido.de} : propias'[q] = propias[q]
    BY <1>0, <1>4 DEF MarcaMarco, En
  <2> QED BY <1>2, <2>1 DEF EnCurso
<1>5. CASE VuelveUnaPagina
  <2>1. /\ UNCHANGED <<susp, nucleo, lista>> /\ nucleo[pedido.de] = "susp"
        /\ \A q \in Procesos \ {pedido.de} : propias'[q] = propias[q]
    BY <1>0, <1>5 DEF VuelveUnaPagina, varsPed, En, EnCurso
  <2>2. \A q \in Procesos \ {pedido.de} : SwapDe(q)' = SwapDe(q)
    BY <1>5, SwapVuelve
  <2> QED BY <1>1, <2>1, <2>2
<1>6. CASE Creado \/ Dessuspendido
  BY <1>0, <1>2, <1>6 DEF Creado, Dessuspendido, Responde, varsPag, En
<1>7. CASE Eliminado
  BY <1>0, <1>2, <1>7 DEF Eliminado, En
<1>8. ASSUME NEW s \in Suspensiones, Suspender(s) PROVE Nuevos'
  <2>1. /\ UNCHANGED <<nucleo, lista>> /\ susp'[s].de = susp[s].de
        /\ \A t \in Suspensiones \ {s} : susp'[t] = susp[t]
    BY <1>8, CamposSusp
       DEF Suspender, SuspBusca, SuspEntra, CopiaASwap, SwapLleno, SuspBorra,
           SuspOlvida, SuspSale, SuspCae, varsPed
  <2>2. susp[s].paso # "no" \/ susp' = susp
    BY <1>8, CamposSusp DEF Suspender
  <2>3. CASE CopiaASwap(s)
    <3>1. /\ \A q \in Procesos \ {susp[s].de} : SwapDe(q)' = SwapDe(q)
          /\ susp[s].paso = "pagina" /\ propias' = propias
      BY <2>3, SwapCopia, CamposSusp DEF CopiaASwap, varsPag
    <3>2. \A q \in Procesos : nucleo[q] = "nuevo" => q # susp[s].de
      BY <3>1 DEF Nuevos
    <3> QED BY <1>1, <2>1, <2>2, <3>1, <3>2
  <2>4. CASE SuspOlvida(s)
    <3>1. /\ \A q \in Procesos \ {susp[s].de} : propias'[q] = propias[q]
          /\ susp[s].paso = "olvida" /\ swap' = swap
      BY <1>0, <2>4, CamposSusp DEF SuspOlvida
    <3>2. \A q \in Procesos : nucleo[q] = "nuevo" => q # susp[s].de
      BY <3>1 DEF Nuevos
    <3>3. \A q \in Procesos : SwapDe(q)' = SwapDe(q)
      BY <3>1 DEF SwapDe
    <3> QED BY <1>1, <2>1, <2>2, <3>1, <3>2, <3>3
  <2>5. CASE UNCHANGED <<swap, propias>>
    <3>1. \A q \in Procesos : SwapDe(q)' = SwapDe(q)
      BY <2>5 DEF SwapDe
    <3> QED BY <1>1, <2>1, <2>2, <2>5, <3>1
  <2> QED BY <1>8, <2>3, <2>4, <2>5
          DEF Suspender, SuspBusca, SuspEntra, SwapLleno, SuspBorra, SuspSale, SuspCae, varsPag
<1>9. ASSUME NEW p \in Procesos, Nucleo(p) PROVE Nuevos'
  <2>1. CASE EspacioDisponible(p) \/ PideDessuspender(p)
    BY <1>2, <2>1 DEF EspacioDisponible, PideDessuspender, varsPag
  <2>2. CASE CreaProceso(p)
    BY <1>2, <2>2 DEF CreaProceso, varsPag
  <2>3. CASE EliminaProceso(p)
    BY <1>2, <2>3 DEF EliminaProceso, varsPag
  <2>4. ASSUME NEW s \in Suspensiones, PideSuspender(s, p) PROVE Nuevos'
    <3>1. /\ UNCHANGED <<propias, lista, swap>> /\ nucleo[p] = "mem" /\ nucleo'[p] = "susp"
          /\ \A q \in Procesos \ {p} : nucleo'[q] = nucleo[q]
      BY <1>0, <2>4 DEF PideSuspender, varsPag
    <3>2. susp'[s].de = p /\ \A t \in Suspensiones \ {s} : susp'[t] = susp[t]
      BY <2>4, CamposSusp
    <3>3. \A q \in Procesos : SwapDe(q)' = SwapDe(q)
      BY <3>1 DEF SwapDe
    <3> QED BY <3>1, <3>2, <3>3 DEF Nuevos
  <2>5. ASSUME NEW k \in DOMAIN ultimo[p], NEW d \in Datos, EscribirPagina(p, k, d)
        PROVE  Nuevos'
    BY <1>2, <2>5 DEF EscribirPagina, varsPed
  <2>6. CASE EscribeFuera(p)
    BY <1>2, <2>6 DEF EscribeFuera, varsPed, varsPag
  <2> QED BY <1>9, <2>1, <2>2, <2>3, <2>4, <2>5, <2>6 DEF Nucleo
<1>10. CASE UNCHANGED vars
  BY <1>2, <1>10 DEF vars, varsPed, varsPag
<1> QED BY <1>3, <1>4, <1>5, <1>6, <1>7, <1>8, <1>9, <1>10 DEF Next, Pedido

LEMMA CicloPaso == ASSUME Tipos, Ciclo, [Next]_vars PROVE Ciclo'
BY EnCursoPaso, VivosPaso, NuevosPaso DEF Ciclo

------------------------------------------------------------------------------
(* The pages of a process, in its list and in the swap.                    *)
Paginas ==
  /\ \A p \in Procesos : Len(propias[p]) <= CantPaginas(p)
  /\ pedido.que = "CREATE" /\ pedido.paso = "marca" =>
       Len(propias[pedido.de]) + 1 <= CantPaginas(pedido.de)
  /\ PaginaEnUnLugar

Copiada(s) == susp[s].paso \in {"borra", "olvida"}

LEMMA SwapFinito ==
  ASSUME Tipos
  PROVE  \A p : IsFiniteSet(SwapDe(p)) /\ Cardinality(SwapDe(p)) \in Nat
<1>1. IsFiniteSet(1 .. CantSwap)
  BY FS_Interval, MemoriaOk
<1>2. \A p : SwapDe(p) \subseteq 1 .. CantSwap
  BY DEF SwapDe, Tipos, TiposResto
<1> QED BY <1>1, <1>2, FS_Subset, FS_CardinalityType

LEMMA Largos ==
  ASSUME Tipos PROVE \A p \in Procesos : Len(propias[p]) \in Nat
BY LenProperties DEF Tipos, TiposPag

LEMMA DePasoIgual ==
  ASSUME NEW p, \A t \in Suspensiones : (Copiada(t) /\ susp[t].de = p)' <=> Copiada(t) /\ susp[t].de = p
  PROVE  DePaso(p)' = DePaso(p)
BY DEF DePaso, Copiada

(* A process none of whose pages moves.                                    *)
LEMMA LugarIgual ==
  ASSUME Tipos, Paginas, NEW p \in Procesos, Cardinality(SwapDe(p))' = Cardinality(SwapDe(p)),
         DePaso(p)' = DePaso(p), propias'[p] = propias[p]
  PROVE  /\ Cardinality(SwapDe(p))' + Len(propias'[p]) - (IF UsaSwap[p] THEN DePaso(p)' ELSE 0)
              <= CantPaginas(p)
         /\ Len(propias'[p]) <= CantPaginas(p)
BY DEF Paginas, PaginaEnUnLugar

LEMMA PaginasQuietas ==
  ASSUME Tipos, Paginas, UNCHANGED <<propias, swap>>,
         pedido'.paso # "marca" \/ UNCHANGED pedido,
         \A t \in Suspensiones : /\ Copiada(t)' <=> Copiada(t)
                                 /\ Copiada(t) => susp'[t].de = susp[t].de
  PROVE  Paginas'
<1>1. ASSUME NEW p \in Procesos PROVE DePaso(p)' = DePaso(p)
  BY DePasoIgual
<1>2. \A p \in Procesos : SwapDe(p)' = SwapDe(p)
  BY DEF SwapDe
<1>3. PaginaEnUnLugar'
  BY <1>1, <1>2, LugarIgual DEF PaginaEnUnLugar
<1> QED BY <1>3 DEF Paginas

LEMMA PaginasSusp ==
  ASSUME Tipos, Mutex, Ciclo, Paginas, NEW s \in Suspensiones, Suspender(s)
  PROVE  Paginas'
<1>0. /\ propias \in [Procesos -> Seq(Entradas)] /\ pedido' = pedido
      /\ susp'[s].de = susp[s].de /\ \A t \in Suspensiones \ {s} : susp'[t] = susp[t]
      /\ \A p \in Procesos : CantPaginas(p) \in Nat
  BY CamposSusp, Cantidades
     DEF Suspender, SuspBusca, SuspEntra, CopiaASwap, SwapLleno, SuspBorra, SuspOlvida,
         SuspSale, SuspCae, varsPed, Tipos, TiposPag
<1>1. CASE SuspBusca(s) \/ SuspEntra(s) \/ SwapLleno(s) \/ SuspBorra(s) \/ SuspSale(s) \/ SuspCae(s)
  <2>1. UNCHANGED <<propias, swap>> /\ (Copiada(s)' <=> Copiada(s))
    BY <1>1, CamposSusp
       DEF SuspBusca, SuspEntra, SwapLleno, SuspBorra, SuspSale, SuspCae, varsPag, Copiada
  <2>2. \A t \in Suspensiones : /\ Copiada(t)' <=> Copiada(t)
                                /\ Copiada(t) => susp'[t].de = susp[t].de
    BY <1>0, <2>1 DEF Copiada
  <2> QED BY <1>0, <2>1, <2>2, PaginasQuietas
<1>2. ASSUME Dentro(s) PROVE \A t \in Suspensiones \ {s} : ~Copiada(t)
  BY <1>2 DEF Mutex, Dentro, Copiada
<1>3. ASSUME NEW p \in Procesos \ {susp[s].de} PROVE DePaso(p)' = DePaso(p)
  <2>1. \A t \in Suspensiones : (Copiada(t) /\ susp[t].de = p)' <=> Copiada(t) /\ susp[t].de = p
    BY <1>0 DEF Copiada
  <2> QED BY <2>1, DePasoIgual
<1>4. CASE CopiaASwap(s)
  <2>1. PICK p \in Procesos : p = susp[s].de
    BY <1>4, SwapCopia
  <2>2. /\ propias' = propias /\ Dentro(s) /\ ~Copiada(s) /\ susp'[s].paso = "borra"
    BY <1>4, CamposSusp DEF CopiaASwap, varsPag, Dentro, Copiada
  <2>3. DePaso(p) = 0
    BY <1>2, <2>2 DEF DePaso, Copiada
  <2>4. DePaso(p)' = 1
    BY <1>0, <2>1, <2>2 DEF DePaso
  <2>5. Cardinality(SwapDe(p))' = Cardinality(SwapDe(p)) + IF UsaSwap[p] THEN 1 ELSE 0
    <3>1. SwapDe(susp[s].de)' = SwapDe(p)' /\ SwapDe(susp[s].de) = SwapDe(p)
      BY <1>0, <2>1
    <3>2. CASE UsaSwap[p]
      <4>1. PICK e : e \notin SwapDe(p) /\ SwapDe(p)' = SwapDe(p) \cup {e}
        BY <1>4, <2>1, <3>1, <3>2, SwapCopia
      <4> QED BY <3>2, <4>1, SwapFinito, FS_AddElement
    <3>3. CASE ~UsaSwap[p]
      <4>1. SwapDe(p)' = SwapDe(p)
        BY <1>4, <2>1, <3>1, <3>3, SwapCopia
      <4> QED BY <3>3, <4>1, SwapFinito
    <3> QED BY <3>2, <3>3
  <2>6. ASSUME NEW q \in Procesos
        PROVE  Cardinality(SwapDe(q))' + Len(propias'[q]) - (IF UsaSwap[q] THEN DePaso(q)' ELSE 0)
                 <= CantPaginas(q)
    <3>1. CASE q = p
      <4>1. /\ Cardinality(SwapDe(p)) \in Nat /\ Len(propias[p]) \in Nat /\ CantPaginas(p) \in Nat
            /\ Cardinality(SwapDe(p)) + Len(propias[p]) - (IF UsaSwap[p] THEN DePaso(p) ELSE 0)
                 <= CantPaginas(p)
        BY <1>0, SwapFinito, Largos DEF Paginas, PaginaEnUnLugar
      <4> QED
        <5>1. CASE UsaSwap[p]
          BY <2>2, <2>3, <2>4, <2>5, <3>1, <4>1, <5>1
        <5>2. CASE ~UsaSwap[p]
          BY <2>2, <2>3, <2>4, <2>5, <3>1, <4>1, <5>2
        <5> QED BY <5>1, <5>2
    <3>2. CASE q # p
      <4>1. SwapDe(q)' = SwapDe(q)
        BY <1>4, <2>1, <3>2, SwapCopia
      <4>2. DePaso(q)' = DePaso(q)
        BY <1>3, <2>1, <3>2
      <4> QED BY <2>2, <4>1, <4>2, LugarIgual
    <3> QED BY <3>1, <3>2
  <2>7. PaginaEnUnLugar'
    BY <2>6 DEF PaginaEnUnLugar
  <2> QED BY <1>0, <2>2, <2>7 DEF Paginas
<1>5. CASE SuspOlvida(s)
  <2>1. /\ susp[s].paso = "olvida" /\ susp'[s].paso = "pagina" /\ swap' = swap
        /\ propias[susp[s].de] # <<>>
        /\ propias' = [propias EXCEPT ![susp[s].de] = Tail(propias[susp[s].de])]
    BY <1>5, CamposSusp DEF SuspOlvida
  <2>2. PICK p \in Procesos : p = susp[s].de
    BY <2>1, PrimeraTipo
  <2>3. /\ Len(propias[p]) \in Nat \ {0} /\ Len(propias'[p]) = Len(propias[p]) - 1
        /\ \A q \in Procesos \ {p} : propias'[q] = propias[q]
    BY <1>0, <2>1, <2>2, PrimeraTipo
  <2>4. DePaso(p) = 1
    BY <2>1, <2>2 DEF DePaso
  <2>5. DePaso(p)' = 0
    <3>1. \A t \in Suspensiones \ {s} : ~Copiada(t)
      BY <1>2, <2>1 DEF Dentro
    <3> QED BY <1>0, <2>1, <3>1 DEF DePaso, Copiada
  <2>6. \A q \in Procesos : SwapDe(q)' = SwapDe(q)
    BY <2>1 DEF SwapDe
  <2>7. ASSUME NEW q \in Procesos
        PROVE  /\ Cardinality(SwapDe(q))' + Len(propias'[q]) - (IF UsaSwap[q] THEN DePaso(q)' ELSE 0)
                    <= CantPaginas(q)
               /\ Len(propias'[q]) <= CantPaginas(q) /\ Len(propias'[q]) <= Len(propias[q])
    <3>1. CASE q = p
      <4>1. /\ Cardinality(SwapDe(p)) \in Nat /\ CantPaginas(p) \in Nat
            /\ Cardinality(SwapDe(p))' = Cardinality(SwapDe(p))
            /\ Cardinality(SwapDe(p)) + Len(propias[p]) - (IF UsaSwap[p] THEN DePaso(p) ELSE 0)
                 <= CantPaginas(p)
            /\ Len(propias[p]) <= CantPaginas(p)
        BY <1>0, <2>6, SwapFinito DEF Paginas, PaginaEnUnLugar
      <4> QED
        <5>1. CASE UsaSwap[p]
          BY <2>3, <2>4, <2>5, <3>1, <4>1, <5>1
        <5>2. CASE ~UsaSwap[p]
          BY <2>3, <2>4, <2>5, <3>1, <4>1, <5>2
        <5> QED BY <5>1, <5>2
    <3>2. CASE q # p
      <4>1. SwapDe(q)' = SwapDe(q)
        BY <2>6
      <4>2. DePaso(q)' = DePaso(q)
        BY <1>3, <2>2, <3>2
      <4>3. propias'[q] = propias[q] /\ Len(propias[q]) \in Nat
        BY <2>3, <3>2, Largos
      <4> QED BY <4>1, <4>2, <4>3, LugarIgual
    <3> QED BY <3>1, <3>2
  <2>8. PaginaEnUnLugar'
    BY <2>7 DEF PaginaEnUnLugar
  <2>9. ASSUME pedido.que = "CREATE", pedido.paso = "marca"
        PROVE  Len(propias'[pedido.de]) + 1 <= CantPaginas(pedido.de)
    <3>1. pedido.de \in Procesos /\ pedido.de # p
      BY <2>1, <2>2, <2>9 DEF Tipos, TiposPed, Ciclo, EnCurso, Nuevos
    <3> QED BY <2>3, <2>9, <3>1 DEF Paginas
  <2> QED BY <1>0, <2>7, <2>8, <2>9 DEF Paginas
<1> QED BY <1>1, <1>4, <1>5 DEF Suspender

LEMMA PaginasPaso ==
  ASSUME Tipos, Mutex, Ciclo, Paginas, [Next]_vars PROVE Paginas'
<1>0. /\ propias \in [Procesos -> Seq(Entradas)]
      /\ pedido.que # "nada" => pedido.de \in Procesos
      /\ \A p \in Procesos : CantPaginas(p) \in Nat /\ Len(propias[p]) \in Nat
      /\ SinPedido.paso = ""
  BY Cantidades, Largos DEF Tipos, TiposPag, TiposPed, SinPedido
<1>n. \A p \in Procesos : CantPaginas(p) \in Nat /\ Len(propias[p]) \in Nat
  BY <1>0
<1>1. ASSUME UNCHANGED <<propias, swap, susp>>, pedido'.paso # "marca" \/ UNCHANGED pedido
      PROVE  Paginas'
  <2>1. \A t \in Suspensiones : (Copiada(t)' <=> Copiada(t)) /\ susp'[t].de = susp[t].de
    BY <1>1 DEF Copiada
  <2> QED BY <1>1, <2>1, PaginasQuietas
<1>2. CASE TomaPagina
  <2>1. /\ UNCHANGED <<propias, swap, susp>> /\ pedido.que = "CREATE" /\ pedido'.de = pedido.de
        /\ Len(propias[pedido.de]) < CantPaginas(pedido.de)
    BY <1>2, CamposPedido DEF TomaPagina, FaltanPaginas
  <2>2. Len(propias'[pedido'.de]) + 1 <= CantPaginas(pedido'.de)
    <3>1. PICK p \in Procesos : p = pedido.de
      BY <1>0, <2>1
    <3>2. Len(propias[p]) < CantPaginas(p) /\ pedido'.de = p
      BY <2>1, <3>1
    <3>3. Len(propias[p]) + 1 <= CantPaginas(p)
      BY <1>n, <3>2
    <3> QED BY <2>1, <3>2, <3>3
  <2>3. ASSUME NEW p \in Procesos PROVE DePaso(p)' = DePaso(p) /\ SwapDe(p)' = SwapDe(p)
    BY <2>1 DEF DePaso, SwapDe
  <2>4. PaginaEnUnLugar'
    BY <2>1, <2>3, LugarIgual DEF PaginaEnUnLugar
  <2> QED BY <2>1, <2>2, <2>4 DEF Paginas
<1>3. CASE MarcaMarco
  <2>1. /\ UNCHANGED <<swap, susp, nucleo>> /\ pedido.que = "CREATE" /\ pedido.paso = "marca"
        /\ pedido'.paso = "toma"
        /\ propias' = [propias EXCEPT ![pedido.de] = Append(propias[pedido.de], pedido.pag)]
    BY <1>3, CamposPedido DEF MarcaMarco
  <2>2. PICK p \in Procesos : p = pedido.de
    BY <1>0, <2>1
  <2>3. /\ Len(propias[p]) + 1 <= CantPaginas(p) /\ nucleo[p] = "nuevo"
        /\ pedido.pag \in Entradas
    BY <2>1, <2>2 DEF Paginas, Ciclo, EnCurso, Tipos, TiposPed
  <2>4. /\ Len(propias'[p]) = Len(propias[p]) + 1
        /\ \A q \in Procesos \ {p} : propias'[q] = propias[q]
    <3>1. /\ propias'[p] = Append(propias[p], pedido.pag)
          /\ \A q \in Procesos \ {p} : propias'[q] = propias[q]
      BY <1>0, <2>1, <2>2
    <3>2. propias[p] \in Seq(Entradas)
      BY <1>0
    <3> QED BY <2>3, <3>1, <3>2, AppendProperties
  <2>5. SwapDe(p) = {} /\ \A t \in Suspensiones : Copiada(t) => susp[t].de # p
    BY <2>3 DEF Ciclo, Nuevos, Copiada
  <2>6. DePaso(p) = 0 /\ Cardinality(SwapDe(p)) = 0
    BY <2>5, FS_EmptySet DEF DePaso, Copiada
  <2>7. ASSUME NEW q \in Procesos PROVE DePaso(q)' = DePaso(q) /\ SwapDe(q)' = SwapDe(q)
    BY <2>1 DEF DePaso, SwapDe
  <2>8. ASSUME NEW q \in Procesos
        PROVE  /\ Cardinality(SwapDe(q))' + Len(propias'[q]) - (IF UsaSwap[q] THEN DePaso(q)' ELSE 0)
                    <= CantPaginas(q)
               /\ Len(propias'[q]) <= CantPaginas(q)
    <3>1. CASE q = p
      <4>1. DePaso(p)' = 0 /\ Cardinality(SwapDe(p))' = 0
        BY <2>6, <2>7
      <4> QED
        <5>1. CASE UsaSwap[p]
          BY <1>n, <2>3, <2>4, <3>1, <4>1, <5>1
        <5>2. CASE ~UsaSwap[p]
          BY <1>n, <2>3, <2>4, <3>1, <4>1, <5>2
        <5> QED BY <5>1, <5>2
    <3>2. CASE q # p
      BY <2>4, <2>7, <3>2, LugarIgual
    <3> QED BY <3>1, <3>2
  <2>9. PaginaEnUnLugar'
    BY <2>8 DEF PaginaEnUnLugar
  <2> QED BY <2>1, <2>8, <2>9 DEF Paginas
<1>4. CASE VuelveUnaPagina
  <2>1. /\ UNCHANGED <<susp, pedido>> /\ pedido.que = "DESSUSPENDER" /\ pedido.paso = "toma"
        /\ pedido.de \in Procesos
    BY <1>0, <1>4 DEF VuelveUnaPagina, En, varsPed
  <2>2. PICK p \in Procesos : p = pedido.de
    BY <2>1
  <2>3. \A t \in Suspensiones : ~Copiada(t)
    BY <2>1, MutexOk DEF Mutex, Dentro, Copiada
  <2>4. ASSUME NEW q \in Procesos PROVE DePaso(q) = 0 /\ DePaso(q)' = 0
    BY <2>1, <2>3 DEF DePaso, Copiada
  <2>5. /\ Len(propias'[p]) \in {Len(propias[p]), Len(propias[p]) + 1}
        /\ \A q \in Procesos \ {p} : propias'[q] = propias[q]
    <3>1. CASE PrimerMarcoLibre # SinMarco /\ PrimeraPagLibre # 0
      <4>1. PICK g \in Entradas : g = PrimeraPagLibre
        BY <3>1, Primeros
      <4>2. propias' = [propias EXCEPT ![p] = Append(propias[p], g)]
        BY <1>4, <2>2, <3>1, <4>1 DEF VuelveUnaPagina
      <4>3. /\ propias'[p] = Append(propias[p], g) /\ propias[p] \in Seq(Entradas)
            /\ \A q \in Procesos \ {p} : propias'[q] = propias[q]
        BY <1>0, <4>2
      <4>4. Len(propias'[p]) = Len(propias[p]) + 1
        BY <4>3, AppendProperties
      <4> QED BY <4>3, <4>4
    <3>2. CASE ~(PrimerMarcoLibre # SinMarco /\ PrimeraPagLibre # 0)
      BY <1>0, <1>4, <3>2 DEF VuelveUnaPagina
    <3> QED BY <3>1, <3>2
  <2>6. /\ \A q \in Procesos \ {p} : SwapDe(q)' = SwapDe(q)
        /\ Cardinality(SwapDe(p))' = Cardinality(SwapDe(p)) - 1
        /\ Cardinality(SwapDe(p)) \in Nat
    <3>1. PICK e : e \in SwapDe(p) /\ SwapDe(p)' = SwapDe(p) \ {e}
      <4>1. SwapDe(pedido.de)' = SwapDe(p)' /\ SwapDe(pedido.de) = SwapDe(p)
        BY <2>1, <2>2
      <4> QED BY <1>4, <4>1, SwapVuelve
    <3> QED BY <1>4, <2>2, <3>1, SwapVuelve, SwapFinito, FS_RemoveElement
  <2>7. ASSUME NEW q \in Procesos
        PROVE  /\ Cardinality(SwapDe(q))' + Len(propias'[q]) - (IF UsaSwap[q] THEN DePaso(q)' ELSE 0)
                    <= CantPaginas(q)
               /\ Len(propias'[q]) <= CantPaginas(q)
    <3>1. CASE q = p
      <4>1. /\ Cardinality(SwapDe(p)) + Len(propias[p]) - (IF UsaSwap[p] THEN DePaso(p) ELSE 0)
                 <= CantPaginas(p)
            /\ Cardinality(SwapDe(p)) >= 1
        <5>1. \E e : e \in SwapDe(p)
          BY <1>4, <2>2, SwapVuelve
        <5>2. Cardinality(SwapDe(p)) # 0
          BY <5>1, SwapFinito, FS_EmptySet
        <5> QED BY <2>6, <5>2 DEF Paginas, PaginaEnUnLugar
      <4>2. DePaso(p) = 0 /\ DePaso(p)' = 0
        BY <2>4
      <4> QED
        <5>1. CASE UsaSwap[p]
          BY <1>n, <2>5, <2>6, <3>1, <4>1, <4>2, <5>1
        <5>2. CASE ~UsaSwap[p]
          BY <1>n, <2>5, <2>6, <3>1, <4>1, <4>2, <5>2
        <5> QED BY <5>1, <5>2
    <3>2. CASE q # p
      <4>1. DePaso(q)' = DePaso(q)
        BY <2>4
      <4> QED BY <2>5, <2>6, <3>2, <4>1, LugarIgual
    <3> QED BY <3>1, <3>2
  <2>8. PaginaEnUnLugar'
    BY <2>7 DEF PaginaEnUnLugar
  <2> QED BY <2>1, <2>7, <2>8 DEF Paginas
<1>5. CASE Eliminado
  <2>1. /\ UNCHANGED <<swap, susp>> /\ pedido'.paso = "" /\ pedido.de \in Procesos
        /\ propias' = [propias EXCEPT ![pedido.de] = <<>>]
    BY <1>0, <1>5 DEF Eliminado, En
  <2>2. ASSUME NEW q \in Procesos PROVE DePaso(q)' = DePaso(q) /\ SwapDe(q)' = SwapDe(q)
    BY <2>1 DEF DePaso, SwapDe
  <2>3. \A q \in Procesos : Len(propias'[q]) \in Nat /\ Len(propias'[q]) <= Len(propias[q])
    <3>1. \A q \in Procesos : propias'[q] = <<>> \/ propias'[q] = propias[q]
      BY <1>0, <2>1
    <3>2. Len(<<>>) = 0
      OBVIOUS
    <3> QED BY <1>n, <3>1, <3>2
  <2>4. ASSUME NEW q \in Procesos
        PROVE  /\ Cardinality(SwapDe(q))' + Len(propias'[q]) - (IF UsaSwap[q] THEN DePaso(q)' ELSE 0)
                    <= CantPaginas(q)
               /\ Len(propias'[q]) <= CantPaginas(q)
    <3>1. /\ Cardinality(SwapDe(q))' = Cardinality(SwapDe(q)) /\ DePaso(q)' = DePaso(q)
          /\ Cardinality(SwapDe(q)) \in Nat /\ DePaso(q) \in Nat
          /\ Len(propias'[q]) \in Nat /\ Len(propias'[q]) <= Len(propias[q])
      BY <2>2, <2>3, SwapFinito DEF DePaso
    <3>2. /\ Cardinality(SwapDe(q)) + Len(propias[q]) - (IF UsaSwap[q] THEN DePaso(q) ELSE 0)
               <= CantPaginas(q)
          /\ Len(propias[q]) <= CantPaginas(q)
      BY DEF Paginas, PaginaEnUnLugar
    <3>3. CASE UsaSwap[q]
      BY <1>n, <3>1, <3>2, <3>3
    <3>4. CASE ~UsaSwap[q]
      BY <1>n, <3>1, <3>2, <3>4
    <3> QED BY <3>3, <3>4
  <2>5. PaginaEnUnLugar'
    BY <2>4 DEF PaginaEnUnLugar
  <2> QED BY <2>1, <2>4, <2>5 DEF Paginas
<1>6. CASE Creado \/ DesEntra \/ Dessuspendido \/ LeeBit \/ BorraBit
  <2>1. UNCHANGED <<propias, swap, susp>>
    BY <1>6 DEF Creado, DesEntra, Dessuspendido, LeeBit, BorraBit, varsPag
  <2>2. pedido'.paso # "marca"
    BY <1>0, <1>6, CamposPedido DEF Creado, Dessuspendido, Responde
  <2> QED BY <1>1, <2>1, <2>2
<1>7. ASSUME NEW p \in Procesos, Nucleo(p) PROVE Paginas'
  <2>1. CASE CreaProceso(p) \/ PideDessuspender(p) \/ EliminaProceso(p)
    <3>1. UNCHANGED <<propias, swap, susp>>
      BY <2>1 DEF CreaProceso, PideDessuspender, EliminaProceso, varsPag
    <3>2. pedido'.paso # "marca"
      BY <2>1, AtiendeCampos DEF CreaProceso, PideDessuspender, EliminaProceso
    <3> QED BY <1>1, <3>1, <3>2
  <2>2. ASSUME NEW s \in Suspensiones, PideSuspender(s, p) PROVE Paginas'
    <3>1. UNCHANGED <<propias, swap, pedido>>
      BY <2>2 DEF PideSuspender, varsPag
    <3>2. \A t \in Suspensiones : /\ Copiada(t)' <=> Copiada(t)
                                  /\ Copiada(t) => susp'[t].de = susp[t].de
      BY <2>2, CamposSusp DEF Copiada
    <3> QED BY <3>1, <3>2, PaginasQuietas
  <2> QED BY <1>1, <1>7, <2>1, <2>2
          DEF Nucleo, EspacioDisponible, EscribirPagina, EscribeFuera, varsPag, varsPed
<1>8. CASE UNCHANGED vars
  BY <1>1, <1>8 DEF vars, varsPag, varsPed
<1> QED BY <1>2, <1>3, <1>4, <1>5, <1>6, <1>7, <1>8, PaginasSusp DEF Next, Pedido

------------------------------------------------------------------------------
(* The pages that the bytes counted in TAM_OCUPADO stand for: those of each *)
(* process in main memory, and those that each SUSPENDER thread has not yet *)
(* subtracted.  A thread that found the swap full never subtracts them.     *)
EnCuenta(p) == \/ nucleo[p] = "mem" /\ ~Pide("ELIMINAR", p)
               \/ Pide("CREATE", p)

Contadas == {r \in Procesos \X Nat : EnCuenta(r[1]) /\ r[2] \in 1 .. CantPaginas(r[1])}

Cargo(s) == susp[s].paso \notin {"no", "fin"} \/ mutexSwap = s

PorSalir == {r \in Suspensiones \X Nat :
               Cargo(r[1]) /\ r[2] \in 1 .. CantPaginas(susp[r[1]].de)}

Reservadas == Cardinality(Contadas) + Cardinality(PorSalir)

(* The bytes counted, with those that were subtracted twice.               *)
DeMas == Cardinality(Restadas)
Saldo == ocupado + DeMas * TamPagina

(* Who answers for the pages of p.                                         *)
Respaldo(p) == \/ propias[p] = <<>> \/ EnCuenta(p)
               \/ Pide("DESSUSPENDER", p) \/ Pide("ELIMINAR", p)
               \/ \E s \in Suspensiones : Cargo(s) /\ susp[s].de = p

Reservas ==
  /\ IsFiniteSet(Contadas) /\ IsFiniteSet(PorSalir) /\ IsFiniteSet(Restadas)
  /\ Saldo >= Reservadas * TamPagina
  /\ admitido # Nadie /\ pedido.que \notin {"CREATE", "DESSUSPENDER"} =>
       Reservadas + CantPaginas(admitido) <= CantFrames + DeMas
  /\ \A p \in Procesos : Respaldo(p)

Bloque(x, n) == {x} \X (1 .. n)

LEMMA BloqueEntra ==
  ASSUME NEW R, NEW S, NEW x, NEW n \in Nat, IsFiniteSet(R),
         S = R \cup Bloque(x, n), R \cap Bloque(x, n) = {}
  PROVE  IsFiniteSet(S) /\ Cardinality(S) = Cardinality(R) + n
<1> DEFINE B == Bloque(x, n)
           f == [k \in 1 .. n |-> <<x, k>>]
<1> USE DEF Bloque
<1>1. f \in Bijection(1 .. n, B)
  <2>1. f \in [1 .. n -> B]
    OBVIOUS
  <2>2. \A i, j \in 1 .. n : f[i] = f[j] => i = j
    OBVIOUS
  <2>3. \A b \in B : \E k \in 1 .. n : f[k] = b
    OBVIOUS
  <2> QED BY <2>1, <2>2, <2>3 DEF Bijection, Injection, Surjection, IsInjective
<1>2. IsFiniteSet(1 .. n) /\ Cardinality(1 .. n) = n
  BY FS_Interval
<1>3. IsFiniteSet(B) /\ Cardinality(B) = n
  BY <1>1, <1>2, FS_Bijection DEF ExistsBijection
<1>4. R \cap B = {}
  OBVIOUS
<1>5. S = R \cup B
  OBVIOUS
<1> HIDE DEF B, Bloque
<1>6. Cardinality({}) = 0 /\ Cardinality(R) \in Nat
  BY FS_EmptySet, FS_CardinalityType
<1> QED BY <1>3, <1>4, <1>5, <1>6, FS_Union

LEMMA BloqueSale ==
  ASSUME NEW R, NEW S, NEW x, NEW n \in Nat, IsFiniteSet(R),
         R = S \cup Bloque(x, n), S \cap Bloque(x, n) = {}
  PROVE  IsFiniteSet(S) /\ Cardinality(R) = Cardinality(S) + n
<1>1. IsFiniteSet(S)
  BY FS_Subset
<1> QED BY <1>1, BloqueEntra

LEMMA ContadasIgual ==
  ASSUME \A p \in Procesos : EnCuenta(p)' <=> EnCuenta(p) PROVE Contadas' = Contadas
BY DEF Contadas

LEMMA ContadasEntra ==
  ASSUME IsFiniteSet(Contadas), NEW p \in Procesos, ~EnCuenta(p), EnCuenta(p)',
         \A q \in Procesos \ {p} : EnCuenta(q)' <=> EnCuenta(q)
  PROVE  IsFiniteSet(Contadas)' /\ Cardinality(Contadas)' = Cardinality(Contadas) + CantPaginas(p)
<1>1. CantPaginas(p) \in Nat
  BY Cantidades
<1>2. Contadas' = Contadas \cup Bloque(p, CantPaginas(p))
  BY <1>1 DEF Contadas, Bloque
<1>3. Contadas \cap Bloque(p, CantPaginas(p)) = {}
  BY <1>1 DEF Contadas, Bloque
<1>4. PICK R, S : R = Contadas /\ S = Contadas'
  OBVIOUS
<1>n. PICK n \in Nat : n = CantPaginas(p)
  BY <1>1
<1>5. /\ IsFiniteSet(R) /\ S = R \cup Bloque(p, n)
      /\ R \cap Bloque(p, n) = {}
  BY <1>2, <1>3, <1>4, <1>n
<1>6. IsFiniteSet(S) /\ Cardinality(S) = Cardinality(R) + n
  BY <1>5, <1>n, BloqueEntra
<1> QED BY <1>4, <1>6, <1>n

LEMMA ContadasSale ==
  ASSUME IsFiniteSet(Contadas), NEW p \in Procesos, EnCuenta(p), ~EnCuenta(p)',
         \A q \in Procesos \ {p} : EnCuenta(q)' <=> EnCuenta(q)
  PROVE  IsFiniteSet(Contadas)' /\ Cardinality(Contadas) = Cardinality(Contadas)' + CantPaginas(p)
<1>1. CantPaginas(p) \in Nat
  BY Cantidades
<1>2. Contadas = Contadas' \cup Bloque(p, CantPaginas(p))
  BY <1>1 DEF Contadas, Bloque
<1>3. Contadas' \cap Bloque(p, CantPaginas(p)) = {}
  BY <1>1 DEF Contadas, Bloque
<1>4. PICK R, S : R = Contadas /\ S = Contadas'
  OBVIOUS
<1>n. PICK n \in Nat : n = CantPaginas(p)
  BY <1>1
<1>5. /\ IsFiniteSet(R) /\ R = S \cup Bloque(p, n)
      /\ S \cap Bloque(p, n) = {}
  BY <1>2, <1>3, <1>4, <1>n
<1>6. IsFiniteSet(S) /\ Cardinality(R) = Cardinality(S) + n
  BY <1>5, <1>n, BloqueSale
<1> QED BY <1>4, <1>6, <1>n

LEMMA PorSalirIgual ==
  ASSUME \A s \in Suspensiones : /\ Cargo(s)' <=> Cargo(s)
                                 /\ Cargo(s) => susp'[s].de = susp[s].de
  PROVE  PorSalir' = PorSalir
BY DEF PorSalir

LEMMA PorSalirEntra ==
  ASSUME IsFiniteSet(PorSalir), NEW s \in Suspensiones, NEW p \in Procesos,
         ~Cargo(s), Cargo(s)', susp'[s].de = p,
         \A t \in Suspensiones \ {s} : (Cargo(t)' <=> Cargo(t)) /\ susp'[t].de = susp[t].de
  PROVE  IsFiniteSet(PorSalir)' /\ Cardinality(PorSalir)' = Cardinality(PorSalir) + CantPaginas(p)
<1>1. CantPaginas(p) \in Nat
  BY Cantidades
<1>2. PorSalir' = PorSalir \cup Bloque(s, CantPaginas(p))
  BY <1>1 DEF PorSalir, Bloque
<1>3. PorSalir \cap Bloque(s, CantPaginas(p)) = {}
  BY <1>1 DEF PorSalir, Bloque
<1>4. PICK R, S : R = PorSalir /\ S = PorSalir'
  OBVIOUS
<1>n. PICK n \in Nat : n = CantPaginas(p)
  BY <1>1
<1>5. /\ IsFiniteSet(R) /\ S = R \cup Bloque(s, n)
      /\ R \cap Bloque(s, n) = {}
  BY <1>2, <1>3, <1>4, <1>n
<1>6. IsFiniteSet(S) /\ Cardinality(S) = Cardinality(R) + n
  BY <1>5, <1>n, BloqueEntra
<1> QED BY <1>4, <1>6, <1>n

LEMMA PorSalirSale ==
  ASSUME IsFiniteSet(PorSalir), NEW s \in Suspensiones, NEW p \in Procesos,
         Cargo(s), ~Cargo(s)', susp[s].de = p,
         \A t \in Suspensiones \ {s} : (Cargo(t)' <=> Cargo(t)) /\ susp'[t].de = susp[t].de
  PROVE  IsFiniteSet(PorSalir)' /\ Cardinality(PorSalir) = Cardinality(PorSalir)' + CantPaginas(p)
<1>1. CantPaginas(p) \in Nat
  BY Cantidades
<1>2. PorSalir = PorSalir' \cup Bloque(s, CantPaginas(p))
  BY <1>1 DEF PorSalir, Bloque
<1>3. PorSalir' \cap Bloque(s, CantPaginas(p)) = {}
  BY <1>1 DEF PorSalir, Bloque
<1>4. PICK R, S : R = PorSalir /\ S = PorSalir'
  OBVIOUS
<1>n. PICK n \in Nat : n = CantPaginas(p)
  BY <1>1
<1>5. /\ IsFiniteSet(R) /\ R = S \cup Bloque(s, n)
      /\ S \cap Bloque(s, n) = {}
  BY <1>2, <1>3, <1>4, <1>n
<1>6. IsFiniteSet(S) /\ Cardinality(R) = Cardinality(S) + n
  BY <1>5, <1>n, BloqueSale
<1> QED BY <1>4, <1>6, <1>n

(* Pages and bytes.                                                        *)
LEMMA BytesEntran ==
  ASSUME NEW o \in Int, NEW n \in Nat, NEW c \in Nat, NEW t \in Nat
  PROVE  /\ o >= n * t => o + c * t >= (n + c) * t
         /\ o >= (n + c) * t => o - c * t >= n * t /\ o >= n * t
         /\ n * t \in Nat
<1>1. (n + c) * t = n * t + c * t /\ n * t \in Nat /\ c * t \in Nat
  OBVIOUS
<1> QED BY <1>1

LEMMA LugarPara ==
  ASSUME NEW o \in Int, NEW n \in Nat, NEW c \in Nat, NEW t \in Nat \ {0}, NEW f \in Nat,
         NEW b \in Nat, o >= n * t, (c - 1) * t < b, f * t - (o + b) >= 0
  PROVE  n + c <= f
<1> SUFFICES ASSUME n + c >= f + 1 PROVE FALSE
  OBVIOUS
<1>1. (n + c - 1) * t < f * t
  <2>1. (n + c - 1) * t = n * t + (c - 1) * t
    OBVIOUS
  <2>2. n * t \in Int /\ (c - 1) * t \in Int /\ f * t \in Int
    OBVIOUS
  <2> QED BY <2>1, <2>2
<1>2. (n + c - 1 - f) * t >= 0
  <2>1. PICK d \in Nat : d = n + c - 1 - f
    OBVIOUS
  <2>2. d * t >= 0
    OBVIOUS
  <2> QED BY <2>1, <2>2
<1>3. (n + c - 1 - f) * t = (n + c - 1) * t - f * t
  OBVIOUS
<1>4. (n + c - 1) * t \in Int /\ f * t \in Int
  OBVIOUS
<1> QED BY <1>1, <1>2, <1>3, <1>4

LEMMA CuentasNat ==
  ASSUME Reservas
  PROVE  /\ Cardinality(Contadas) \in Nat /\ Cardinality(PorSalir) \in Nat /\ Reservadas \in Nat
         /\ DeMas \in Nat
<1>1. Cardinality(Contadas) \in Nat /\ Cardinality(PorSalir) \in Nat /\ DeMas \in Nat
  BY FS_CardinalityType DEF Reservas, DeMas
<1> QED BY <1>1 DEF Reservadas

LEMMA SaldoInt == ASSUME Tipos, Reservas PROVE Saldo \in Int
BY CuentasNat, MemoriaOk DEF Saldo, Tipos, TiposResto

(* The pages of a set of processes.                                        *)
LEMMA PaginasDe ==
  ASSUME NEW A \in SUBSET Procesos
  PROVE  UNION {{p} \X (1 .. CantPaginas(p)) : p \in A}
           = {r \in Procesos \X Nat : r[1] \in A /\ r[2] \in 1 .. CantPaginas(r[1])}
<1> DEFINE B(p) == {p} \X (1 .. CantPaginas(p))
           U == UNION {B(p) : p \in A}
           D == {r \in Procesos \X Nat : r[1] \in A /\ r[2] \in 1 .. CantPaginas(r[1])}
<1>1. \A p \in Procesos : CantPaginas(p) \in Nat
  BY Cantidades
<1>2. ASSUME NEW r \in U PROVE r \in D
  <2>1. PICK p \in A : r \in B(p)
    BY <1>2
  <2> QED BY <1>1, <2>1
<1>3. ASSUME NEW r \in D PROVE r \in U
  <2>1. r[1] \in A /\ r \in B(r[1])
    BY <1>3
  <2> QED BY <2>1
<1> QED BY <1>2, <1>3

LEMMA RestadasIgual ==
  ASSUME \A p \in Procesos : Muere(p)' <=> Muere(p) PROVE Restadas' = Restadas
BY DEF Restadas

LEMMA RestadasEntra ==
  ASSUME IsFiniteSet(Restadas), NEW p \in Procesos, ~Muere(p), Muere(p)',
         \A q \in Procesos \ {p} : Muere(q)' <=> Muere(q)
  PROVE  IsFiniteSet(Restadas)' /\ DeMas' = DeMas + CantPaginas(p)
<1>1. PICK n \in Nat : n = CantPaginas(p)
  BY Cantidades
<1>2. PICK A \in SUBSET Procesos, C \in SUBSET Procesos :
        A = {q \in Procesos : Muere(q)} /\ C = {q \in Procesos : Muere(q)'}
  OBVIOUS
<1>3. PICK R, S : R = Restadas /\ S = Restadas'
  OBVIOUS
<1>6. /\ R = {r \in Procesos \X Nat : r[1] \in A /\ r[2] \in 1 .. CantPaginas(r[1])}
      /\ S = {r \in Procesos \X Nat : r[1] \in C /\ r[2] \in 1 .. CantPaginas(r[1])}
  BY <1>2, <1>3, PaginasDe DEF Restadas
<1>7. C = A \cup {p} /\ p \notin A
  BY <1>2
<1>4. S = R \cup Bloque(p, n) /\ R \cap Bloque(p, n) = {}
  BY <1>1, <1>6, <1>7 DEF Bloque
<1>5. IsFiniteSet(S) /\ Cardinality(S) = Cardinality(R) + n
  BY <1>3, <1>4, BloqueEntra
<1> QED BY <1>1, <1>3, <1>5 DEF DeMas

(* A step that moves no process in or out of the count.                    *)
LEMMA ReservasQuietas ==
  ASSUME Reservas, ocupado' = ocupado,
         \A p \in Procesos : EnCuenta(p)' <=> EnCuenta(p),
         \A p \in Procesos : Muere(p)' <=> Muere(p),
         \A s \in Suspensiones : /\ Cargo(s)' <=> Cargo(s)
                                 /\ Cargo(s) => susp'[s].de = susp[s].de,
         \/ admitido' = Nadie \/ pedido'.que \in {"CREATE", "DESSUSPENDER"}
         \/ admitido' = admitido /\ pedido.que \notin {"CREATE", "DESSUSPENDER"},
         \A p \in Procesos : Respaldo(p)'
  PROVE  Reservas'
<1>1. Contadas' = Contadas /\ PorSalir' = PorSalir
  BY ContadasIgual, PorSalirIgual
<1>n. Restadas' = Restadas
  BY RestadasIgual
<1>2. Reservadas' = Reservadas /\ DeMas' = DeMas /\ Saldo' = Saldo
  BY <1>1, <1>n DEF Reservadas, DeMas, Saldo
<1>3. IsFiniteSet(Contadas)' /\ IsFiniteSet(PorSalir)' /\ IsFiniteSet(Restadas)'
  BY <1>1, <1>n DEF Reservas
<1>4. (Saldo >= Reservadas * TamPagina)'
  BY <1>2 DEF Reservas
<1>5. (admitido # Nadie /\ pedido.que \notin {"CREATE", "DESSUSPENDER"} =>
         Reservadas + CantPaginas(admitido) <= CantFrames + DeMas)'
  BY <1>2 DEF Reservas
<1> QED BY <1>3, <1>4, <1>5 DEF Reservas

(* The same, with a count that falls by no more bytes than it stood for.   *)
LEMMA ReservasBajan ==
  ASSUME Tipos, Reservas, NEW c \in Nat,
         IsFiniteSet(Contadas)', IsFiniteSet(PorSalir)',
         Reservadas' + c = Reservadas, Reservadas' \in Nat,
         \A p \in Procesos : Muere(p)' <=> Muere(p),
         ocupado' \in {ocupado, ocupado - c * TamPagina}, admitido' = admitido,
         pedido.que \in {"CREATE", "DESSUSPENDER"} => pedido' = pedido,
         \A p \in Procesos : Respaldo(p)'
  PROVE  Reservas'
<1>n. Restadas' = Restadas
  BY RestadasIgual
<1>m. DeMas' = DeMas /\ IsFiniteSet(Restadas)'
  BY <1>n DEF DeMas, Reservas
<1>1. PICK o \in Int, n \in Nat, T \in Nat : o = Saldo /\ n = Reservadas' /\ T = TamPagina
  BY MemoriaOk, SaldoInt
<1>2. o >= (n + c) * T
  BY <1>1 DEF Reservas
<1>3. o - c * T >= n * T /\ o >= n * T
  BY <1>1, <1>2, BytesEntran
<1>4. (Saldo >= Reservadas * TamPagina)'
  <2>1. PICK b \in Int, d \in Nat : b = ocupado /\ d = DeMas
    BY CuentasNat DEF Tipos, TiposResto
  <2>2. o = b + d * T /\ d * T \in Nat /\ c * T \in Nat
    BY <1>1, <2>1 DEF Saldo
  <2>3. Saldo' \in {o, o - c * T}
    <3>1. Saldo' = ocupado' + d * T
      BY <1>1, <1>m, <2>1 DEF Saldo
    <3>2. CASE ocupado' = ocupado
      BY <2>1, <2>2, <3>1, <3>2
    <3>3. CASE ocupado' = b - c * T
      BY <2>1, <2>2, <3>1, <3>3
    <3> QED BY <1>1, <2>1, <3>2, <3>3
  <2> QED BY <1>1, <1>3, <2>3
<1>5. ASSUME admitido' # Nadie, pedido'.que \notin {"CREATE", "DESSUSPENDER"}
      PROVE  Reservadas' + CantPaginas(admitido') <= CantFrames + DeMas'
  <2>1. CantPaginas(admitido) \in Nat /\ CantFrames + DeMas \in Nat
    BY <1>5, Cantidades, CuentasNat, MemoriaOk DEF Tipos, TiposPed
  <2>2. Reservadas + CantPaginas(admitido) <= CantFrames + DeMas
    BY <1>5 DEF Reservas
  <2>3. PICK k \in Nat : k = CantPaginas(admitido)
    BY <2>1
  <2> QED BY <1>1, <1>m, <2>1, <2>2, <2>3
<1> QED BY <1>4, <1>5, <1>m DEF Reservas

LEMMA SaldoSube ==
  ASSUME Tipos, Reservas, NEW p \in Procesos, ocupado' = ocupado + Bytes(p), DeMas' = DeMas
  PROVE  Saldo' = Saldo + CantPaginas(p) * TamPagina
<1>1. PICK o \in Int, b \in Int, d \in Int : o = ocupado /\ b = Bytes(p) /\ d = DeMas * TamPagina
  BY Cantidades, CuentasNat DEF Tipos, TiposResto
<1>2. Saldo = o + d /\ Saldo' = o + b + d
  BY <1>1 DEF Saldo
<1>3. b = CantPaginas(p) * TamPagina
  BY <1>1, Cantidades
<1> QED BY <1>1, <1>2, <1>3

LEMMA ReservasSusp ==
  ASSUME Tipos, Mutex, Ciclo, Reservas, NEW s \in Suspensiones, Suspender(s)
  PROVE  Reservas'
<1>0. /\ \A t \in Suspensiones : t # Libre /\ t # ElPedido
      /\ \A t \in Suspensiones \ {s} : susp'[t] = susp[t]
      /\ susp'[s].de = susp[s].de
  BY MutexOk, CamposSusp
<1>1. UNCHANGED <<nucleo, admitido, pedido, lista>>
  BY DEF Suspender, SuspBusca, SuspEntra, CopiaASwap, SwapLleno, SuspBorra, SuspOlvida,
         SuspSale, SuspCae, varsPed
<1>2. \A p \in Procesos : EnCuenta(p)' <=> EnCuenta(p)
  BY <1>1 DEF EnCuenta, Pide
<1>m. \A p \in Procesos : Muere(p)' <=> Muere(p)
  BY <1>1 DEF Muere
<1>3. ASSUME Cargo(s)' <=> Cargo(s), \A t \in Suspensiones \ {s} : Cargo(t)' <=> Cargo(t),
             ocupado' = ocupado,
             \A p \in Procesos : propias'[p] = propias[p] \/ (Cargo(s) /\ p = susp[s].de)
      PROVE  Reservas'
  <2>1. \A p \in Procesos : Respaldo(p)'
    <3> SUFFICES ASSUME NEW p \in Procesos PROVE Respaldo(p)'
      OBVIOUS
    <3>1. CASE p = susp[s].de /\ Cargo(s)
      BY <1>0, <1>3, <3>1 DEF Respaldo
    <3>2. CASE propias'[p] = propias[p]
      <4>1. Respaldo(p)
        BY DEF Reservas
      <4>2. \A t \in Suspensiones : Cargo(t) /\ susp[t].de = p => Cargo(t)' /\ susp'[t].de = p
        BY <1>0, <1>3
      <4>3. \A que : Pide(que, p)' <=> Pide(que, p)
        BY <1>1 DEF Pide
      <4> QED BY <1>2, <3>2, <4>1, <4>2, <4>3 DEF Respaldo
    <3> QED BY <1>3, <3>1, <3>2
  <2>2. \A t \in Suspensiones : /\ Cargo(t)' <=> Cargo(t)
                                /\ Cargo(t) => susp'[t].de = susp[t].de
    BY <1>0, <1>3
  <2>3. \/ admitido' = Nadie \/ pedido'.que \in {"CREATE", "DESSUSPENDER"}
        \/ admitido' = admitido /\ pedido.que \notin {"CREATE", "DESSUSPENDER"}
    BY <1>1
  <2> QED BY <1>2, <1>3, <1>m, <2>1, <2>2, <2>3, ReservasQuietas
(* The thread ends, with its bytes subtracted or without.                  *)
<1>4. ASSUME Cargo(s), ~Cargo(s)', \A t \in Suspensiones \ {s} : Cargo(t)' <=> Cargo(t),
             NEW p \in Procesos, p = susp[s].de, propias' = propias,
             ocupado' \in {ocupado, ocupado - Bytes(p)},
             propias[p] = <<>> \/ EnCuenta(p) \/ Pide("ELIMINAR", p)
      PROVE  Reservas'
  <2>1. IsFiniteSet(PorSalir)' /\ Cardinality(PorSalir) = Cardinality(PorSalir)' + CantPaginas(p)
    BY <1>0, <1>4, PorSalirSale DEF Reservas
  <2>2. Contadas' = Contadas
    BY <1>2, ContadasIgual
  <2>3. /\ CantPaginas(p) \in Nat /\ Reservadas' + CantPaginas(p) = Reservadas
        /\ Reservadas' \in Nat
    <3>1. Cardinality(PorSalir)' \in Nat
      BY <2>1, FS_CardinalityType
    <3>2. Cardinality(Contadas)' = Cardinality(Contadas)
      BY <2>2
    <3> QED BY <2>1, <3>1, <3>2, CuentasNat, Cantidades DEF Reservadas
  <2>4. \A q \in Procesos : Respaldo(q)'
    <3> SUFFICES ASSUME NEW q \in Procesos PROVE Respaldo(q)'
      OBVIOUS
    <3>1. \A que : Pide(que, q)' <=> Pide(que, q)
      BY <1>1 DEF Pide
    <3>2. CASE q = p
      BY <1>2, <1>4, <3>1, <3>2 DEF Respaldo
    <3>3. CASE q # p
      <4>1. Respaldo(q)
        BY DEF Reservas
      <4>2. \A t \in Suspensiones : Cargo(t) /\ susp[t].de = q => Cargo(t)' /\ susp'[t].de = q
        BY <1>0, <1>4, <3>3
      <4> QED BY <1>2, <1>4, <3>1, <4>1, <4>2 DEF Respaldo
    <3> QED BY <3>2, <3>3
  <2>5. ocupado' \in {ocupado, ocupado - CantPaginas(p) * TamPagina}
    BY <1>4, Cantidades
  <2>6. IsFiniteSet(Contadas)'
    BY <2>2 DEF Reservas
  <2>7. PICK c \in Nat : c = CantPaginas(p)
    BY <2>3
  <2>8. Reservadas' + c = Reservadas /\ ocupado' \in {ocupado, ocupado - c * TamPagina}
    BY <2>3, <2>5, <2>7
  <2> QED BY <1>1, <1>m, <2>1, <2>3, <2>4, <2>6, <2>8, ReservasBajan
<1>5. CASE SuspBusca(s)
  <2>1. susp[s].paso = "duerme" /\ Cargo(s) /\ mutexSwap' = mutexSwap /\ mutexSwap # s
        /\ propias' = propias /\ ocupado' = ocupado
    BY <1>5, CamposSusp DEF SuspBusca, varsPag, Cargo, Mutex, Dentro
  <2>2. \A t \in Suspensiones \ {s} : Cargo(t)' <=> Cargo(t)
    BY <1>0, <2>1 DEF Cargo
  <2>3. PICK p \in Procesos : p = susp[s].de
    BY <2>1 DEF Tipos, TiposSusp
  <2>4. CASE p \in lista
    <3>1. Cargo(s)'
      BY <1>5, <2>3, <2>4, CamposSusp DEF Cargo
    <3> QED BY <1>3, <2>1, <2>2, <3>1
  <2>5. CASE p \notin lista
    <3>1. ~Cargo(s)'
      BY <1>5, <2>1, <2>3, <2>5, CamposSusp DEF Cargo
    <3>2. propias[p] = <<>> \/ Pide("ELIMINAR", p)
      BY <2>5 DEF Ciclo, Vivos
    <3> QED BY <1>4, <2>1, <2>2, <2>3, <3>1, <3>2
  <2> QED BY <2>4, <2>5
<1>6. CASE SuspSale(s)
  <2>1. /\ susp[s].paso = "pagina" /\ susp'[s].paso = "fin" /\ mutexSwap = s /\ mutexSwap' = Libre
        /\ propias' = propias /\ propias[susp[s].de] = <<>> /\ ocupado' = ocupado - Bytes(susp[s].de)
    BY <1>6, CamposSusp DEF SuspSale, varsPag, Mutex, Dentro
  <2>2. \A t \in Suspensiones \ {s} : Cargo(t)' <=> Cargo(t)
    BY <1>0, <2>1 DEF Cargo
  <2>3. PICK p \in Procesos : p = susp[s].de
    BY <2>1 DEF Tipos, TiposSusp
  <2>4. Cargo(s) /\ ~Cargo(s)'
    BY <1>0, <2>1 DEF Cargo
  <2> QED BY <1>4, <2>1, <2>2, <2>3, <2>4
<1>7. CASE SuspEntra(s)
  <2>1. /\ susp[s].paso = "espera" /\ susp'[s].paso = "pagina" /\ mutexSwap = Libre /\ mutexSwap' = s
        /\ propias' = propias /\ ocupado' = ocupado
    BY <1>7, CamposSusp DEF SuspEntra, varsPag
  <2>2. /\ \A t \in Suspensiones \ {s} : Cargo(t)' <=> Cargo(t)
        /\ Cargo(s) /\ Cargo(s)'
    BY <1>0, <2>1 DEF Cargo
  <2> QED BY <1>3, <2>1, <2>2
<1>8. CASE CopiaASwap(s) \/ SwapLleno(s) \/ SuspBorra(s) \/ SuspOlvida(s)
  <2>1. Dentro(s) /\ mutexSwap = s /\ mutexSwap' = s /\ ocupado' = ocupado
    BY <1>8, CamposSusp DEF CopiaASwap, SwapLleno, SuspBorra, SuspOlvida, Mutex, Dentro
  <2>2. /\ \A t \in Suspensiones \ {s} : Cargo(t)' <=> Cargo(t)
        /\ Cargo(s) /\ Cargo(s)'
    BY <1>0, <2>1 DEF Cargo
  <2>3. \A p \in Procesos : propias'[p] = propias[p] \/ p = susp[s].de
    <3>1. propias \in [Procesos -> Seq(Entradas)]
      BY DEF Tipos, TiposPag
    <3> QED BY <1>8, <3>1 DEF CopiaASwap, SwapLleno, SuspBorra, SuspOlvida, varsPag
  <2> QED BY <1>3, <2>1, <2>2, <2>3
<1>9. CASE SuspCae(s)
  <2>1. UNCHANGED <<propias, ocupado, mutexSwap, susp>>
    BY <1>9 DEF SuspCae, varsPag
  <2>2. \A t \in Suspensiones : Cargo(t)' <=> Cargo(t)
    BY <2>1 DEF Cargo
  <2> QED BY <1>3, <2>1, <2>2
<1> QED BY <1>5, <1>6, <1>7, <1>8, <1>9 DEF Suspender

LEMMA ReservasPaso ==
  ASSUME Tipos, Mutex, Ciclo, Reservas, [Next]_vars PROVE Reservas'
<1>0. /\ SinPedido.que = "nada" /\ \A p \in Procesos : p # Nadie
      /\ \A s \in Suspensiones : s # Libre /\ s # ElPedido
      /\ nucleo \in [Procesos -> Nucleos] /\ propias \in [Procesos -> Seq(Entradas)]
      /\ pedido.que # "nada" => pedido.de \in Procesos
      /\ \A p \in Procesos : Respaldo(p)
  BY MutexOk, MemoriaOk DEF SinPedido, Tipos, TiposPed, TiposPag, Reservas
<1>1. ASSUME UNCHANGED <<susp, mutexSwap>>
      PROVE  \A s \in Suspensiones : /\ Cargo(s)' <=> Cargo(s)
                                     /\ Cargo(s) => susp'[s].de = susp[s].de
  BY <1>1 DEF Cargo
<1>2. ASSUME UNCHANGED <<nucleo, admitido, ocupado, susp, mutexSwap>>,
             pedido'.que = pedido.que, pedido'.de = pedido.de,
             \A p \in Procesos : propias'[p] = propias[p] \/ EnCuenta(p) \/ Pide("DESSUSPENDER", p)
      PROVE  Reservas'
  <2>1. \A p \in Procesos : \A que : Pide(que, p)' <=> Pide(que, p)
    BY <1>2 DEF Pide
  <2>2. \A p \in Procesos : (EnCuenta(p)' <=> EnCuenta(p)) /\ (Muere(p)' <=> Muere(p))
    BY <1>2, <2>1 DEF EnCuenta, Muere
  <2>3. \A p \in Procesos : Respaldo(p)'
    BY <1>0, <1>1, <1>2, <2>1, <2>2 DEF Respaldo
  <2> QED BY <1>1, <1>2, <2>2, <2>3, ReservasQuietas
<1>3. CASE TomaPagina \/ LeeBit \/ BorraBit
  BY <1>2, <1>3, CamposPedido DEF TomaPagina, LeeBit, BorraBit, varsPag
<1>4. CASE MarcaMarco \/ VuelveUnaPagina
  <2>1. \A p \in Procesos : propias'[p] = propias[p] \/ p = pedido.de
    BY <1>0, <1>4 DEF MarcaMarco, VuelveUnaPagina
  <2>2. EnCuenta(pedido.de) \/ Pide("DESSUSPENDER", pedido.de)
    BY <1>4 DEF MarcaMarco, VuelveUnaPagina, En, EnCuenta, Pide
  <2>3. pedido'.que = pedido.que /\ pedido'.de = pedido.de
    BY <1>4, CamposPedido DEF VuelveUnaPagina, varsPed
  <2> QED BY <1>2, <1>4, <2>1, <2>2, <2>3 DEF MarcaMarco, VuelveUnaPagina, varsPed
(* The process that was created or that returned runs.                     *)
<1>5. CASE Creado \/ Dessuspendido
  <2>1. PICK p \in Procesos : p = pedido.de
    BY <1>0, <1>5 DEF Creado, Dessuspendido, En
  <2>2. /\ pedido' = SinPedido /\ admitido' = Nadie /\ susp' = susp
        /\ nucleo' = [nucleo EXCEPT ![p] = "mem"] /\ propias' = propias
    BY <1>5, <2>1 DEF Creado, Dessuspendido, Responde, varsPag
  <2>3. \A q \in Procesos : ~Pide("CREATE", q)' /\ ~Pide("ELIMINAR", q)'
    BY <1>0, <2>2 DEF Pide
  <2>4. \A q \in Procesos \ {p} : ~Pide("CREATE", q) /\ ~Pide("ELIMINAR", q)
                                  /\ ~Pide("DESSUSPENDER", q) /\ nucleo'[q] = nucleo[q]
    BY <1>0, <2>1, <2>2 DEF Pide
  <2>5. EnCuenta(p)' /\ \A q \in Procesos \ {p} : EnCuenta(q)' <=> EnCuenta(q)
    BY <1>0, <2>2, <2>3, <2>4 DEF EnCuenta
  <2>m. \A q \in Procesos : Muere(q)' <=> Muere(q)
    <3>1. ~Muere(p)
      BY <1>0, <1>5, <2>1 DEF Muere, Creado, Dessuspendido, En, Ciclo, EnCurso
    <3>2. ~Muere(p)'
      BY <1>0, <2>2 DEF Muere
    <3> QED BY <1>0, <1>5, <2>1, <2>2, <2>4, <3>1, <3>2 DEF Muere
  <2>r. Restadas' = Restadas /\ DeMas' = DeMas /\ IsFiniteSet(Restadas)'
    BY <2>m, RestadasIgual DEF DeMas, Reservas
  <2>6. \A s \in Suspensiones : Cargo(s)' <=> Cargo(s)
    <3>1. CASE Creado
      BY <1>1, <3>1 DEF Creado
    <3>2. CASE Dessuspendido
      BY <1>0, <2>2, <3>2 DEF Dessuspendido, En, Cargo, Mutex
    <3> QED BY <1>5, <3>1, <3>2
  <2>7. \A q \in Procesos : Respaldo(q)'
    <3>1. \A q \in Procesos \ {p} : Respaldo(q)'
      BY <1>0, <2>2, <2>4, <2>5, <2>6 DEF Respaldo
    <3> QED BY <2>5, <3>1 DEF Respaldo
  <2>8. CASE Creado
    <3>1. EnCuenta(p) /\ ocupado' = ocupado
      BY <2>1, <2>8 DEF Creado, En, EnCuenta, Pide
    <3> QED BY <2>2, <2>5, <2>6, <2>7, <2>m, <3>1, ReservasQuietas
  <2>9. CASE Dessuspendido
    <3>1. ocupado' = ocupado + Bytes(p) /\ pedido.que = "DESSUSPENDER"
      BY <2>1, <2>9 DEF Dessuspendido, En
    <3>2. ~EnCuenta(p)
      BY <2>1, <3>1 DEF EnCuenta, Pide, Ciclo, EnCurso
    <3>3. IsFiniteSet(Contadas)' /\ Cardinality(Contadas)' = Cardinality(Contadas) + CantPaginas(p)
      BY <2>5, <3>2, ContadasEntra DEF Reservas
    <3>4. PorSalir' = PorSalir
      BY <2>2, <2>6, PorSalirIgual
    <3>5. PICK o \in Int, n \in Nat, c \in Nat, T \in Nat :
             o = Saldo /\ n = Reservadas /\ c = CantPaginas(p) /\ T = TamPagina
      BY CuentasNat, Cantidades, SaldoInt
    <3>6. Reservadas' = n + c
      BY <3>3, <3>4, <3>5, CuentasNat DEF Reservadas
    <3>n. Saldo' = o + c * T
      BY <2>r, <3>1, <3>5, SaldoSube
    <3>7. o >= n * T
      BY <3>5 DEF Reservas
    <3>8. (Saldo >= Reservadas * TamPagina)'
      BY <3>5, <3>6, <3>7, <3>n, BytesEntran
    <3>9. IsFiniteSet(PorSalir)'
      BY <3>4 DEF Reservas
    <3> QED BY <2>2, <2>7, <2>r, <3>3, <3>8, <3>9 DEF Reservas
  <2> QED BY <1>5, <2>8, <2>9
<1>6. CASE Eliminado
  <2>1. PICK p \in Procesos : p = pedido.de
    BY <1>0, <1>6 DEF Eliminado, En
  <2>2. /\ pedido' = SinPedido /\ UNCHANGED <<admitido, ocupado, susp, mutexSwap>>
        /\ nucleo' = [nucleo EXCEPT ![p] = IF nucleo[p] = "susp" THEN "muerto" ELSE "fin"]
        /\ propias' = [propias EXCEPT ![p] = <<>>] /\ pedido.que = "ELIMINAR"
    BY <1>6, <2>1 DEF Eliminado, En
  <2>3. \A q \in Procesos : \A que \in {"CREATE", "ELIMINAR", "DESSUSPENDER"} : ~Pide(que, q)'
    BY <1>0, <2>2 DEF Pide
  <2>4. \A q \in Procesos \ {p} : \A que \in {"CREATE", "ELIMINAR", "DESSUSPENDER"} : ~Pide(que, q)
    BY <2>1, <2>2 DEF Pide
  <2>5. ~EnCuenta(p) /\ ~EnCuenta(p)'
    BY <1>0, <2>1, <2>2, <2>3 DEF EnCuenta, Pide
  <2>6. \A q \in Procesos : EnCuenta(q)' <=> EnCuenta(q)
    BY <1>0, <2>2, <2>3, <2>4, <2>5 DEF EnCuenta
  <2>7. \A q \in Procesos : Respaldo(q)'
    <3>1. Respaldo(p)'
      BY <1>0, <2>2 DEF Respaldo
    <3>2. \A q \in Procesos \ {p} : Respaldo(q)'
      BY <1>0, <1>1, <2>2, <2>4, <2>6 DEF Respaldo
    <3> QED BY <3>1, <3>2
  <2>8. \A q \in Procesos : Muere(q)' <=> Muere(q)
    <3>1. nucleo[p] \in {"mem", "susp"}
      BY <2>1, <2>2 DEF Ciclo, EnCurso
    <3>2. CASE nucleo[p] = "susp"
      <4>1. nucleo' = [nucleo EXCEPT ![p] = "muerto"]
        BY <2>2, <3>2
      <4> QED BY <1>0, <2>1, <2>2, <3>2, <4>1 DEF Muere
    <3>3. CASE nucleo[p] = "mem"
      <4>1. nucleo' = [nucleo EXCEPT ![p] = "fin"]
        BY <2>2, <3>3
      <4> QED BY <1>0, <2>1, <2>2, <3>3, <4>1 DEF Muere
    <3> QED BY <3>1, <3>2, <3>3
  <2> QED BY <1>1, <2>2, <2>6, <2>7, <2>8, ReservasQuietas
<1>7. CASE DesEntra
  <2>1. /\ mutexSwap = Libre /\ mutexSwap' = ElPedido
        /\ UNCHANGED <<nucleo, admitido, ocupado, propias, susp>>
    BY <1>7 DEF DesEntra, varsPag
  <2>2. \A s \in Suspensiones : Cargo(s)' <=> Cargo(s)
    BY <1>0, <2>1 DEF Cargo
  <2>3. pedido'.que = pedido.que /\ pedido'.de = pedido.de
    BY <1>7, CamposPedido
  <2>4. \A p \in Procesos : \A que : Pide(que, p)' <=> Pide(que, p)
    BY <2>3 DEF Pide
  <2>5. \A p \in Procesos : EnCuenta(p)' <=> EnCuenta(p)
    BY <2>1, <2>4 DEF EnCuenta
  <2>6. \A p \in Procesos : Respaldo(p)'
    BY <1>0, <2>1, <2>2, <2>4, <2>5 DEF Respaldo
  <2>7. \A p \in Procesos : Muere(p)' <=> Muere(p)
    BY <2>1, <2>3 DEF Muere
  <2> QED BY <2>1, <2>2, <2>3, <2>5, <2>6, <2>7, ReservasQuietas
<1>8. ASSUME NEW p \in Procesos, Nucleo(p) PROVE Reservas'
  <2>1. CASE EspacioDisponible(p)
    <3>1. /\ pedido = SinPedido /\ admitido' = p /\ Entra(p)
          /\ UNCHANGED <<nucleo, pedido, ocupado, propias, susp, mutexSwap>>
      BY <2>1 DEF EspacioDisponible, varsPag
    <3>2. \A q \in Procesos : (\A que : Pide(que, q)' <=> Pide(que, q)) /\ (EnCuenta(q)' <=> EnCuenta(q))
      BY <3>1 DEF Pide, EnCuenta
    <3>3. Contadas' = Contadas /\ PorSalir' = PorSalir
      BY <1>1, <3>1, <3>2, ContadasIgual, PorSalirIgual
    <3>r. Restadas' = Restadas
      BY <3>1, RestadasIgual DEF Muere
    <3>4. Reservadas' = Reservadas /\ DeMas' = DeMas /\ Saldo' = Saldo
      BY <3>1, <3>3, <3>r DEF Reservadas, DeMas, Saldo
    <3>5. \A q \in Procesos : Respaldo(q)'
      BY <1>0, <1>1, <3>1, <3>2 DEF Respaldo
    <3>6. PICK o \in Int, n \in Nat, c \in Nat, T \in Nat \ {0}, t \in Nat, f \in Nat, k \in Nat :
             /\ o = ocupado /\ n = Reservadas /\ c = CantPaginas(p) /\ T = TamPagina
             /\ t = Tamanio[p] /\ f = CantFrames /\ k = DeMas
      <4>1. ocupado \in Int /\ Reservadas \in Nat /\ DeMas \in Nat
        BY CuentasNat DEF Tipos, TiposResto
      <4>2. CantPaginas(p) \in Nat /\ TamPagina \in Nat \ {0} /\ Tamanio[p] \in Nat
        BY Cantidades
      <4>3. CantFrames \in Nat
        BY MemoriaOk
      <4> QED BY <4>1, <4>2, <4>3
    <3>7. /\ o + k * T >= n * T /\ (c - 1) * T < t /\ f * T - (o + t) >= 0
      BY <3>1, <3>6, Cantidades DEF Reservas, Saldo, Entra
    <3>m. (f + k) * T - ((o + k * T) + t) >= 0
      <4>1. (f + k) * T = f * T + k * T /\ f * T \in Int /\ k * T \in Int
        OBVIOUS
      <4> QED BY <3>7, <4>1
    <3>8. n + c <= f + k
      <4>1. PICK x \in Int, g \in Nat : x = o + k * T /\ g = f + k
        OBVIOUS
      <4> QED BY <3>7, <3>m, <4>1, LugarPara
    <3>9. /\ (Saldo >= Reservadas * TamPagina)'
          /\ Reservadas' + CantPaginas(admitido') <= CantFrames + DeMas'
      BY <3>1, <3>4, <3>6, <3>8 DEF Reservas
    <3>10. IsFiniteSet(Contadas)' /\ IsFiniteSet(PorSalir)' /\ IsFiniteSet(Restadas)'
      BY <3>3, <3>r DEF Reservas
    <3> QED BY <3>5, <3>9, <3>10 DEF Reservas
  <2>2. CASE CreaProceso(p)
    <3>1. /\ pedido.que = "nada" /\ pedido'.que = "CREATE" /\ pedido'.de = p
          /\ nucleo[p] = "nuevo" /\ ocupado' = ocupado + Bytes(p)
          /\ UNCHANGED <<nucleo, propias, susp, mutexSwap>>
      BY <2>2, AtiendeCampos DEF CreaProceso, varsPag
    <3>2. ~EnCuenta(p) /\ EnCuenta(p)'
      BY <3>1 DEF EnCuenta, Pide
    <3>3. \A q \in Procesos \ {p} : EnCuenta(q)' <=> EnCuenta(q)
      BY <3>1 DEF EnCuenta, Pide
    <3>4. IsFiniteSet(Contadas)' /\ Cardinality(Contadas)' = Cardinality(Contadas) + CantPaginas(p)
      BY <3>2, <3>3, ContadasEntra DEF Reservas
    <3>5. PorSalir' = PorSalir
      BY <1>1, <3>1, PorSalirIgual
    <3>6. PICK o \in Int, n \in Nat, c \in Nat, T \in Nat :
             o = Saldo /\ n = Reservadas /\ c = CantPaginas(p) /\ T = TamPagina
      BY CuentasNat, Cantidades, SaldoInt
    <3>m. Restadas' = Restadas
      BY <1>0, <3>1, RestadasIgual DEF Muere
    <3>n. DeMas' = DeMas /\ IsFiniteSet(Restadas)'
      BY <3>m DEF DeMas, Reservas
    <3>7. Reservadas' = n + c /\ Saldo' = o + c * T
      <4>1. Reservadas' = n + c
        BY <3>4, <3>5, <3>6, CuentasNat DEF Reservadas
      <4> QED BY <3>1, <3>6, <3>n, <4>1, SaldoSube
    <3>8. o >= n * T
      BY <3>6 DEF Reservas
    <3>9. (Saldo >= Reservadas * TamPagina)'
      BY <3>6, <3>7, <3>8, BytesEntran
    <3>10. IsFiniteSet(PorSalir)' /\ IsFiniteSet(Restadas)'
      BY <3>5, <3>n DEF Reservas
    <3>11. \A q \in Procesos : Respaldo(q)'
      <4>1. Respaldo(p)'
        BY <3>2 DEF Respaldo
      <4>2. \A q \in Procesos \ {p} : Respaldo(q)'
        BY <1>0, <1>1, <3>1, <3>3 DEF Respaldo, Pide
      <4> QED BY <4>1, <4>2
    <3> QED BY <3>1, <3>4, <3>9, <3>10, <3>11 DEF Reservas
  <2>3. CASE PideDessuspender(p)
    <3>1. /\ pedido.que = "nada" /\ pedido'.que = "DESSUSPENDER" /\ pedido'.de = p
          /\ UNCHANGED <<nucleo, admitido, ocupado, propias, susp, mutexSwap>>
      BY <2>3, AtiendeCampos DEF PideDessuspender, varsPag
    <3>2. \A q \in Procesos : EnCuenta(q)' <=> EnCuenta(q)
      BY <3>1 DEF EnCuenta, Pide
    <3>3. \A q \in Procesos : Respaldo(q)'
      BY <1>0, <1>1, <3>1, <3>2 DEF Respaldo, Pide
    <3>4. \A q \in Procesos : Muere(q)' <=> Muere(q)
      BY <1>0, <3>1 DEF Muere
    <3> QED BY <1>1, <3>1, <3>2, <3>3, <3>4, ReservasQuietas
  <2>4. CASE EliminaProceso(p) /\ nucleo[p] = "mem"
    <3>1. /\ pedido.que = "nada" /\ pedido'.que = "ELIMINAR" /\ pedido'.de = p
          /\ nucleo[p] = "mem" /\ ocupado' = ocupado - Bytes(p)
          /\ UNCHANGED <<nucleo, admitido, propias, susp, mutexSwap>>
      BY <2>4, AtiendeCampos DEF EliminaProceso, varsPag
    <3>m. \A q \in Procesos : Muere(q)' <=> Muere(q)
      BY <1>0, <3>1 DEF Muere
    <3>2. EnCuenta(p) /\ ~EnCuenta(p)'
      BY <3>1 DEF EnCuenta, Pide
    <3>3. \A q \in Procesos \ {p} : EnCuenta(q)' <=> EnCuenta(q)
      BY <3>1 DEF EnCuenta, Pide
    <3>4. IsFiniteSet(Contadas)' /\ Cardinality(Contadas) = Cardinality(Contadas)' + CantPaginas(p)
      BY <3>2, <3>3, ContadasSale DEF Reservas
    <3>5. PorSalir' = PorSalir
      BY <1>1, <3>1, PorSalirIgual
    <3>6. PICK c \in Nat : c = CantPaginas(p)
      BY Cantidades
    <3>7. Reservadas' + c = Reservadas /\ Reservadas' \in Nat
      <4>1. Cardinality(Contadas)' \in Nat
        BY <3>4, FS_CardinalityType
      <4>2. Cardinality(PorSalir)' = Cardinality(PorSalir)
        BY <3>5
      <4> QED BY <3>4, <3>6, <4>1, <4>2, CuentasNat DEF Reservadas
    <3>8. ocupado' \in {ocupado, ocupado - c * TamPagina}
      BY <3>1, <3>6, Cantidades
    <3>9. IsFiniteSet(PorSalir)'
      BY <3>5 DEF Reservas
    <3>10. \A q \in Procesos : Respaldo(q)'
      <4>1. Respaldo(p)'
        BY <3>1 DEF Respaldo, Pide
      <4>2. \A q \in Procesos \ {p} : Respaldo(q)'
        BY <1>0, <1>1, <3>1, <3>3 DEF Respaldo, Pide
      <4> QED BY <4>1, <4>2
    <3> QED BY <3>1, <3>4, <3>7, <3>8, <3>9, <3>10, <3>m, ReservasBajan
(* A suspended process: its thread has subtracted it, or will.             *)
  <2>7. CASE EliminaProceso(p) /\ nucleo[p] = "susp"
    <3>1. /\ pedido.que = "nada" /\ pedido'.que = "ELIMINAR" /\ pedido'.de = p
          /\ nucleo[p] = "susp" /\ ocupado' = ocupado - Bytes(p)
          /\ UNCHANGED <<nucleo, admitido, propias, susp, mutexSwap>>
      BY <2>7, AtiendeCampos DEF EliminaProceso, varsPag
    <3>2. ~Muere(p) /\ Muere(p)' /\ \A q \in Procesos \ {p} : Muere(q)' <=> Muere(q)
      BY <1>0, <3>1 DEF Muere
    <3>3. \A q \in Procesos : EnCuenta(q)' <=> EnCuenta(q)
      BY <1>0, <3>1 DEF EnCuenta, Pide
    <3>4. Contadas' = Contadas /\ PorSalir' = PorSalir
      BY <1>1, <3>1, <3>3, ContadasIgual, PorSalirIgual
    <3>5. Reservadas' = Reservadas
      BY <3>4 DEF Reservadas
    <3>6. IsFiniteSet(Restadas)' /\ DeMas' = DeMas + CantPaginas(p)
      BY <3>2, RestadasEntra DEF Reservas
    <3>7. PICK o \in Int, n \in Nat, c \in Nat, T \in Nat, k \in Nat :
             /\ o = ocupado /\ n = Reservadas /\ c = CantPaginas(p) /\ T = TamPagina
             /\ k = DeMas
      BY CuentasNat, Cantidades DEF Tipos, TiposResto
    <3>8. Saldo' = Saldo
      <4>1. ocupado' = o - c * T /\ DeMas' = k + c
        BY <3>1, <3>6, <3>7, Cantidades
      <4>2. (k + c) * T = k * T + c * T /\ k * T \in Int /\ c * T \in Int
        OBVIOUS
      <4>3. Saldo' = (o - c * T) + (k + c) * T /\ Saldo = o + k * T
        BY <3>7, <4>1 DEF Saldo
      <4> QED BY <4>2, <4>3
    <3>9. (Saldo >= Reservadas * TamPagina)'
      BY <3>5, <3>8 DEF Reservas
    <3>10. ASSUME admitido' # Nadie
           PROVE  Reservadas' + CantPaginas(admitido') <= CantFrames + DeMas'
      <4>1. PICK a \in Nat : a = CantPaginas(admitido)
        BY <3>1, <3>10, Cantidades DEF Tipos, TiposPed
      <4>2. n + a <= CantFrames + k
        BY <3>1, <3>7, <3>10, <4>1 DEF Reservas
      <4> QED BY <3>1, <3>5, <3>6, <3>7, <4>1, <4>2, MemoriaOk
    <3>11. \A q \in Procesos : Respaldo(q)'
      <4>1. Respaldo(p)'
        BY <3>1 DEF Respaldo, Pide
      <4>2. \A q \in Procesos \ {p} : Respaldo(q)'
        BY <1>0, <1>1, <3>1, <3>3 DEF Respaldo, Pide
      <4> QED BY <4>1, <4>2
    <3>12. IsFiniteSet(Contadas)' /\ IsFiniteSet(PorSalir)'
      BY <3>4 DEF Reservas
    <3> QED BY <3>6, <3>9, <3>10, <3>11, <3>12 DEF Reservas
(* What p was counted for is now up to the thread.                         *)
  <2>5. ASSUME NEW s \in Suspensiones, PideSuspender(s, p) PROVE Reservas'
    <3>1. /\ nucleo[p] = "mem" /\ pedido.de # p /\ nucleo' = [nucleo EXCEPT ![p] = "susp"]
          /\ UNCHANGED <<admitido, pedido, ocupado, propias, mutexSwap>>
      BY <2>5 DEF PideSuspender, varsPag
    <3>2. /\ susp[s].paso = "no" /\ susp'[s].paso = "duerme" /\ susp'[s].de = p
          /\ \A t \in Suspensiones \ {s} : susp'[t] = susp[t]
      BY <2>5, CamposSusp
    <3>3. \A q \in Procesos : \A que : Pide(que, q)' <=> Pide(que, q)
      BY <3>1 DEF Pide
    <3>4. EnCuenta(p) /\ ~EnCuenta(p)'
      BY <1>0, <3>1 DEF EnCuenta, Pide
    <3>5. \A q \in Procesos \ {p} : EnCuenta(q)' <=> EnCuenta(q)
      BY <1>0, <3>1, <3>3 DEF EnCuenta
    <3>6. ~Cargo(s) /\ Cargo(s)'
      BY <3>2 DEF Cargo, Mutex, Dentro
    <3>7. \A t \in Suspensiones \ {s} : (Cargo(t)' <=> Cargo(t)) /\ susp'[t].de = susp[t].de
      BY <3>1, <3>2 DEF Cargo
    <3>8. IsFiniteSet(Contadas)' /\ Cardinality(Contadas) = Cardinality(Contadas)' + CantPaginas(p)
      BY <3>4, <3>5, ContadasSale DEF Reservas
    <3>9. IsFiniteSet(PorSalir)' /\ Cardinality(PorSalir)' = Cardinality(PorSalir) + CantPaginas(p)
      BY <3>2, <3>6, <3>7, PorSalirEntra DEF Reservas
    <3>10. Reservadas' + 0 = Reservadas /\ Reservadas' \in Nat
      <4>1. Cardinality(Contadas)' \in Nat
        BY <3>8, FS_CardinalityType
      <4> QED BY <3>8, <3>9, <4>1, CuentasNat, Cantidades DEF Reservadas
    <3>11. \A q \in Procesos : Respaldo(q)'
      <4>1. Respaldo(p)'
        BY <3>2, <3>6 DEF Respaldo
      <4>2. \A q \in Procesos \ {p} : Respaldo(q)'
        BY <1>0, <3>1, <3>2, <3>3, <3>5, <3>6, <3>7 DEF Respaldo
      <4> QED BY <4>1, <4>2
    <3>12. \A q \in Procesos : Muere(q)' <=> Muere(q)
      BY <1>0, <3>1 DEF Muere
    <3> QED BY <3>1, <3>8, <3>9, <3>10, <3>11, <3>12, ReservasBajan
  <2>6. ASSUME NEW k, NEW d, EscribirPagina(p, k, d) PROVE Reservas'
    BY <1>2, <2>6 DEF EscribirPagina, varsPed
  <2>8. CASE EscribeFuera(p)
    BY <1>2, <2>8 DEF EscribeFuera, varsPed, varsPag
  <2>9. EliminaProceso(p) => nucleo[p] \in {"mem", "susp"}
    BY DEF EliminaProceso
  <2> QED BY <1>8, <2>1, <2>2, <2>3, <2>4, <2>5, <2>6, <2>7, <2>8, <2>9 DEF Nucleo
<1>9. CASE UNCHANGED vars
  BY <1>2, <1>9 DEF vars, varsPag, varsPed
<1> QED BY <1>3, <1>4, <1>5, <1>6, <1>7, <1>8, <1>9, ReservasSusp DEF Next, Pedido

------------------------------------------------------------------------------
(* The pages in the lists against those that are counted.                  *)
Indice(t) == CHOOSE j \in DOMAIN propias[t[1]] : propias[t[1]][j] = t[2]
Hilo(p)   == CHOOSE s \in Suspensiones : Cargo(s) /\ susp[s].de = p

LEMMA TenidasIndice ==
  ASSUME Tipos, Paginas, NEW t \in Tenidas
  PROVE  /\ t[1] \in Procesos /\ t = <<t[1], t[2]>> /\ propias[t[1]] # <<>>
         /\ propias[t[1]][Indice(t)] = t[2]
         /\ Indice(t) \in Nat /\ Indice(t) \in 1 .. CantPaginas(t[1])
<1>1. PICK p \in Procesos : \E j \in DOMAIN propias[p] : t = <<p, propias[p][j]>>
  BY DEF Tenidas
<1>2. PICK j \in DOMAIN propias[p] : t = <<p, propias[p][j]>>
  BY <1>1
<1>3. t[1] = p /\ t[2] = propias[p][j]
  BY <1>2
<1>4. Indice(t) \in DOMAIN propias[p] /\ propias[p][Indice(t)] = t[2]
  BY <1>3 DEF Indice
<1>5. propias[p] \in Seq(Entradas) /\ Len(propias[p]) \in Nat /\ Len(propias[p]) <= CantPaginas(p)
  BY Largos DEF Tipos, TiposPag, Paginas
<1>6. DOMAIN propias[p] = 1 .. Len(propias[p])
  BY <1>5
<1>7. CantPaginas(p) \in Nat
  BY Cantidades
<1>8. Indice(t) \in Nat /\ Indice(t) \in 1 .. CantPaginas(p)
  BY <1>4, <1>5, <1>6, <1>7
<1>9. propias[p] # <<>>
  BY <1>4, <1>5, <1>6
<1> QED BY <1>2, <1>3, <1>4, <1>8, <1>9

LEMMA TenidasCaben ==
  ASSUME Tipos, Paginas, Reservas, pedido = SinPedido
  PROVE  Cardinality(Tenidas) \in Nat /\ Cardinality(Tenidas) <= Reservadas
<1> DEFINE T1 == {t \in Tenidas : EnCuenta(t[1])}
           T2 == {t \in Tenidas : ~EnCuenta(t[1])}
           f1 == [t \in T1 |-> <<t[1], Indice(t)>>]
           f2 == [t \in T2 |-> <<Hilo(t[1]), Indice(t)>>]
<1>1. IsFiniteSet(T1) /\ Cardinality(T1) <= Cardinality(Contadas)
  <2>1. \A t \in T1 : <<t[1], Indice(t)>> \in Contadas
    BY TenidasIndice DEF Contadas
  <2>2. \A t, u \in T1 : <<t[1], Indice(t)>> = <<u[1], Indice(u)>> => t = u
    <3> SUFFICES ASSUME NEW t \in T1, NEW u \in T1, t[1] = u[1], Indice(t) = Indice(u)
                 PROVE  t = u
      OBVIOUS
    <3>1. t[2] = u[2]
      BY TenidasIndice
    <3> QED BY <3>1, TenidasIndice
  <2>3. f1 \in Injection(T1, Contadas)
    BY <2>1, <2>2 DEF Injection, IsInjective
  <2> HIDE DEF f1, T1
  <2> QED BY <2>3, FS_Injection DEF Reservas
<1>2. \A t \in T2 : Hilo(t[1]) \in Suspensiones /\ Cargo(Hilo(t[1])) /\ susp[Hilo(t[1])].de = t[1]
  <2> SUFFICES ASSUME NEW t \in T2
               PROVE  Hilo(t[1]) \in Suspensiones /\ Cargo(Hilo(t[1])) /\ susp[Hilo(t[1])].de = t[1]
    OBVIOUS
  <2>1. t[1] \in Procesos /\ propias[t[1]] # <<>> /\ ~EnCuenta(t[1])
    BY TenidasIndice
  <2>2. ~Pide("DESSUSPENDER", t[1]) /\ ~Pide("ELIMINAR", t[1])
    BY DEF Pide, SinPedido
  <2>3. \E s \in Suspensiones : Cargo(s) /\ susp[s].de = t[1]
    BY <2>1, <2>2 DEF Reservas, Respaldo
  <2> QED BY <2>3 DEF Hilo
<1>3. IsFiniteSet(T2) /\ Cardinality(T2) <= Cardinality(PorSalir)
  <2>1. \A t \in T2 : <<Hilo(t[1]), Indice(t)>> \in PorSalir
    BY <1>2, TenidasIndice DEF PorSalir
  <2>2. \A t, u \in T2 : <<Hilo(t[1]), Indice(t)>> = <<Hilo(u[1]), Indice(u)>> => t = u
    <3> SUFFICES ASSUME NEW t \in T2, NEW u \in T2,
                        Hilo(t[1]) = Hilo(u[1]), Indice(t) = Indice(u)
                 PROVE  t = u
      OBVIOUS
    <3>1. t[1] = u[1]
      BY <1>2
    <3>2. t[2] = u[2]
      BY <3>1, TenidasIndice
    <3> QED BY <3>1, <3>2, TenidasIndice
  <2>3. f2 \in Injection(T2, PorSalir)
    BY <2>1, <2>2 DEF Injection, IsInjective
  <2> HIDE DEF f2, T2
  <2> QED BY <2>3, FS_Injection DEF Reservas
<1>4. Tenidas = T1 \cup T2 /\ T1 \cap T2 = {}
  OBVIOUS
<1> HIDE DEF T1, T2
<1>5. Cardinality({}) = 0 /\ Cardinality(T1) \in Nat /\ Cardinality(T2) \in Nat
  BY <1>1, <1>3, FS_EmptySet, FS_CardinalityType
<1>6. Cardinality(Tenidas) = Cardinality(T1) + Cardinality(T2)
  <2>1. Cardinality(T1 \cup T2) = Cardinality(T1) + Cardinality(T2) - Cardinality(T1 \cap T2)
    BY <1>1, <1>3, FS_Union
  <2>2. Cardinality(T1 \cap T2) = 0
    BY <1>4, <1>5
  <2> QED BY <1>4, <1>5, <2>1, <2>2
<1> QED BY <1>1, <1>3, <1>5, <1>6, CuentasNat DEF Reservadas

------------------------------------------------------------------------------
LEMMA MutexInit == Init => Mutex
<1> SUFFICES ASSUME Init PROVE Mutex
  OBVIOUS
<1>1. /\ mutexSwap = Libre /\ pedido.que = "nada"
      /\ \A s \in Suspensiones : susp[s].paso = "no" /\ s # Libre
  BY MutexOk DEF Init, SinPedido
<1> QED BY <1>1 DEF Mutex, Dentro

LEMMA CicloInit == Init => Ciclo
<1> SUFFICES ASSUME Init PROVE Ciclo
  OBVIOUS
<1>1. /\ pedido.que = "nada" /\ admitido = Nadie /\ lista = {}
      /\ \A p \in Procesos : nucleo[p] = "nuevo" /\ propias[p] = <<>> /\ p # Nadie
      /\ \A s \in Suspensiones : susp[s].paso = "no"
  BY MemoriaOk DEF Init, SinPedido
<1>2. \A p \in Procesos : SwapDe(p) = {}
  BY <1>1 DEF Init, SwapDe, SwapLibre
<1> QED BY <1>1, <1>2 DEF Ciclo, EnCurso, Vivos, Nuevos

LEMMA PaginasInit == Init => Paginas
<1> SUFFICES ASSUME Init PROVE Paginas
  OBVIOUS
<1>1. Tipos
  BY TiposInit
<1>2. \A p \in Procesos : SwapDe(p) = {} /\ propias[p] = <<>> /\ DePaso(p) = 0
  BY MemoriaOk DEF Init, SwapDe, SwapLibre, DePaso
<1>3. Cardinality({}) = 0 /\ Len(<<>>) = 0
  BY FS_EmptySet
<1>4. PaginaEnUnLugar
  <2> SUFFICES ASSUME NEW p \in Procesos
               PROVE  Cardinality(SwapDe(p)) + Len(propias[p])
                        - (IF UsaSwap[p] THEN DePaso(p) ELSE 0) <= CantPaginas(p)
    BY DEF PaginaEnUnLugar
  <2>1. /\ Cardinality(SwapDe(p)) = 0 /\ Len(propias[p]) = 0 /\ DePaso(p) = 0
        /\ CantPaginas(p) \in Nat
    BY <1>2, <1>3, Cantidades
  <2> QED BY <2>1
<1>5. \A p \in Procesos : Len(propias[p]) <= CantPaginas(p)
  BY <1>2, <1>3, Cantidades
<1>6. pedido.paso # "marca"
  BY DEF Init, SinPedido
<1> QED BY <1>4, <1>5, <1>6 DEF Paginas

LEMMA ReservasInit == Init => Reservas
<1> SUFFICES ASSUME Init PROVE Reservas
  OBVIOUS
<1>1. /\ pedido.que = "nada" /\ admitido = Nadie /\ ocupado = 0 /\ mutexSwap = Libre
      /\ \A p \in Procesos : nucleo[p] = "nuevo" /\ propias[p] = <<>>
      /\ \A s \in Suspensiones : susp[s].paso = "no" /\ s # Libre
  BY MutexOk DEF Init, SinPedido
<1>2. Contadas = {} /\ PorSalir = {}
  BY <1>1 DEF Contadas, PorSalir, EnCuenta, Pide, Cargo
<1>n. Restadas = {}
  BY <1>1 DEF Restadas, Muere
<1>3. Cardinality({}) = 0 /\ IsFiniteSet({})
  BY FS_EmptySet
<1>4. Reservadas = 0 /\ DeMas = 0
  BY <1>2, <1>3, <1>n DEF Reservadas, DeMas
<1>5. Saldo >= Reservadas * TamPagina
  BY <1>1, <1>4, MemoriaOk DEF Saldo
<1> QED BY <1>1, <1>2, <1>3, <1>5, <1>n DEF Reservas, Respaldo

Inv == Tipos /\ Mutex /\ Ciclo /\ Paginas

LEMMA InvSiempre == Spec => []Inv
<1>1. Init => Inv
  BY TiposInit, MutexInit, CicloInit, PaginasInit DEF Inv
<1>2. Inv /\ [Next]_vars => Inv'
  BY TiposPaso, MutexPaso, CicloPaso, PaginasPaso DEF Inv
<1> QED BY <1>1, <1>2, PTL DEF Spec

(* Whatever the order in which the suspensions, the returns and the end of *)
(* a process are served, its pages are in main memory or in the swap, each *)
(* in one place, and they are never more than it has.                      *)
THEOREM PaginaEnUnLugarSiempre == Spec => []PaginaEnUnLugar
<1>1. Inv => PaginaEnUnLugar
  BY DEF Inv, Paginas
<1> QED BY <1>1, InvSiempre, PTL

LEMMA ReservasSiempre == Spec => [](Inv /\ Reservas)
<1>1. Init => Inv /\ Reservas
  BY TiposInit, MutexInit, CicloInit, PaginasInit, ReservasInit DEF Inv
<1>2. Inv /\ Reservas /\ [Next]_vars => (Inv /\ Reservas)'
  BY TiposPaso, MutexPaso, CicloPaso, PaginasPaso, ReservasPaso DEF Inv
<1> QED BY <1>1, <1>2, PTL DEF Spec

(* TAM_OCUPADO never falls below zero by more than the pages of the        *)
(* processes that were finished while suspended, whose bytes it loses      *)
(* twice, although every suspension subtracts at a time of its own.        *)
THEOREM TiposSiempre == Spec => []TypeOK
<1>1. Inv /\ Reservas => TypeOK
  <2> SUFFICES ASSUME Inv, Reservas PROVE TypeOK
    OBVIOUS
  <2>1. PICK o \in Int, n \in Nat, T \in Nat : o = Saldo /\ n = Reservadas /\ T = TamPagina
    BY CuentasNat, SaldoInt, MemoriaOk DEF Inv
  <2>2. n * T \in Nat /\ o >= n * T
    BY <2>1, BytesEntran DEF Reservas
  <2>3. ocupado \in Int /\ ocupado + Cardinality(Restadas) * TamPagina >= 0
    <3>1. o >= 0
      BY <2>1, <2>2
    <3> QED BY <2>1, <3>1 DEF Saldo, DeMas, Inv, Tipos, TiposResto
  <2>4. TiposPag /\ TiposPed /\ TiposResto /\ TiposSusp
    BY DEF Inv, Tipos
  <2> HIDE DEF Inv, Reservas
  <2> QED BY <2>3, <2>4 DEF TiposPag, TiposPed, TiposResto, TiposSusp, TypeOK, Nucleos,
                            TipoPedido, TipoPagina, TipoSwap, TipoSusp
<1> QED BY <1>1, ReservasSiempre, PTL

(* The process that ESPACIO_DISPONIBLE let in finds its pages, but for     *)
(* those of the processes that were finished while suspended: the bytes    *)
(* that are counted stand for at least the other pages that are taken,     *)
(* however late each SUSPENDER thread gives its own back.                  *)
THEOREM EspacioVerazSiempre == Spec => []EspacioVeraz
<1>1. Inv /\ Reservas => EspacioVeraz
  <2> SUFFICES ASSUME Inv, Reservas, admitido # Nadie, pedido = SinPedido
               PROVE  Cardinality(Tenidas) + CantPaginas(admitido)
                        <= CantFrames + Cardinality(Restadas)
    BY DEF EspacioVeraz
  <2>1. Cardinality(Tenidas) \in Nat /\ Cardinality(Tenidas) <= Reservadas
    BY TenidasCaben DEF Inv
  <2>2. pedido.que = "nada"
    BY DEF SinPedido
  <2>3. Reservadas + CantPaginas(admitido) <= CantFrames + DeMas
    BY <2>2 DEF Reservas
  <2>4. CantPaginas(admitido) \in Nat /\ CantFrames \in Nat /\ Reservadas \in Nat
        /\ DeMas \in Nat
    BY Cantidades, CuentasNat, MemoriaOk DEF Inv, Tipos, TiposPed
  <2>5. DeMas = Cardinality(Restadas)
    BY DEF DeMas
  <2> QED BY <2>1, <2>3, <2>4, <2>5
<1> QED BY <1>1, ReservasSiempre, PTL
==============================================================================
