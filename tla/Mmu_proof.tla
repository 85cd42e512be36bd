------------------------------ MODULE Mmu_proof ------------------------------
(***************************************************************************)
(* The lists of the TLB and of the page cache keep their sizes, and what   *)
(* they hold belongs to the process whose pages the CPU keeps.             *)
(***************************************************************************)
EXTENDS Mmu, SequenceTheorems, WellFoundedInduction, TLAPS

EntradaTlb == [pagina : Nat, marco : Marcos \cup {SinMarco}]
EntradaCache == [pagina : Nat, pid : Procesos, marco : Marcos,
                 valor : Datos, uso : BOOLEAN, modificado : BOOLEAN]

(* The hand points at an entry there is room for.                          *)
PunteroEnLista == \A c \in CPUs : EntradasCache[c] > 0 => puntero[c] <= EntradasCache[c]

Funciones == /\ tlb = [c \in CPUs |-> tlb[c]]
             /\ cache = [c \in CPUs |-> cache[c]]

Inv == TypeOK /\ Funciones /\ PunteroEnLista

------------------------------------------------------------------------------
(* Lists.                                                                  *)

(* Changing the entries of a list one by one leaves a list of that length. *)
LEMMA MismaForma ==
  ASSUME NEW S, NEW s \in Seq(S), NEW t, t = [i \in DOMAIN s |-> t[i]],
         \A i \in DOMAIN s : t[i] \in S
  PROVE  t \in Seq(S) /\ Len(t) = Len(s) /\ DOMAIN t = DOMAIN s
<1>1. Len(s) \in Nat /\ DOMAIN s = 1 .. Len(s)
  BY LenProperties
<1>2. t \in [1 .. Len(s) -> S]
  BY <1>1
<1>3. t \in Seq(S)
  BY <1>1, <1>2, IsASeq
<1> QED BY <1>1, <1>3, LenProperties

(* The entry given to AlFinal goes to the end and the rest keep their      *)
(* order.                                                                  *)
LEMMA AlFinalProps ==
  ASSUME NEW S, NEW s \in Seq(S), NEW i \in DOMAIN s
  PROVE  /\ AlFinal(s, i) \in Seq(S)
         /\ Len(AlFinal(s, i)) = Len(s)
         /\ \A k \in DOMAIN AlFinal(s, i) : \E j \in DOMAIN s : AlFinal(s, i)[k] = s[j]
<1>1. Len(s) \in Nat /\ DOMAIN s = 1 .. Len(s)
  BY LenProperties
<1>2. \A k \in DOMAIN s : \E j \in DOMAIN s : AlFinal(s, i)[k] = s[j]
  <2> SUFFICES ASSUME NEW k \in DOMAIN s
               PROVE  \E j \in DOMAIN s : AlFinal(s, i)[k] = s[j]
    OBVIOUS
  <2>1. CASE k < i
    BY <2>1 DEF AlFinal
  <2>2. CASE ~(k < i) /\ k < Len(s)
    <3>1. k + 1 \in DOMAIN s /\ AlFinal(s, i)[k] = s[k + 1]
      BY <1>1, <2>2 DEF AlFinal
    <3> QED BY <3>1
  <2>3. CASE ~(k < i) /\ ~(k < Len(s))
    BY <2>3 DEF AlFinal
  <2> QED BY <2>1, <2>2, <2>3
<1>3. \A k \in DOMAIN s : AlFinal(s, i)[k] \in S
  BY <1>2, ElementOfSeq, <1>1
<1>4. AlFinal(s, i) = [k \in DOMAIN s |-> AlFinal(s, i)[k]]
  BY DEF AlFinal
<1>5. /\ AlFinal(s, i) \in Seq(S) /\ Len(AlFinal(s, i)) = Len(s)
      /\ DOMAIN AlFinal(s, i) = DOMAIN s
  BY <1>3, <1>4, MismaForma
<1> QED BY <1>2, <1>5

(* An entry appended, with or without dropping the first.                  *)
LEMMA AgregaProps ==
  ASSUME NEW S, NEW s \in Seq(S), NEW e \in S
  PROVE  /\ /\ Append(s, e) \in Seq(S) /\ Len(Append(s, e)) = Len(s) + 1
            /\ \A k \in DOMAIN Append(s, e) :
                 Append(s, e)[k] = e \/ \E j \in DOMAIN s : Append(s, e)[k] = s[j]
         /\ s # <<>> =>
            /\ Append(Tail(s), e) \in Seq(S) /\ Len(Append(Tail(s), e)) = Len(s)
            /\ \A k \in DOMAIN Append(Tail(s), e) :
                 \/ Append(Tail(s), e)[k] = e
                 \/ \E j \in DOMAIN s : Append(Tail(s), e)[k] = s[j]
<1>0. Len(s) \in Nat /\ DOMAIN s = 1 .. Len(s)
  BY LenProperties
<1>1. /\ Append(s, e) \in Seq(S) /\ Len(Append(s, e)) = Len(s) + 1
      /\ \A k \in DOMAIN Append(s, e) :
           Append(s, e)[k] = e \/ \E j \in DOMAIN s : Append(s, e)[k] = s[j]
  <2>1. /\ Append(s, e) \in Seq(S) /\ Len(Append(s, e)) = Len(s) + 1
        /\ \A i \in 1 .. Len(s) : Append(s, e)[i] = s[i]
        /\ Append(s, e)[Len(s) + 1] = e
    BY AppendProperties
  <2>2. DOMAIN Append(s, e) = 1 .. Len(s) + 1
    BY <2>1, LenProperties
  <2> QED BY <1>0, <2>1, <2>2
<1>2. ASSUME s # <<>>
      PROVE  /\ Append(Tail(s), e) \in Seq(S) /\ Len(Append(Tail(s), e)) = Len(s)
             /\ \A k \in DOMAIN Append(Tail(s), e) :
                  \/ Append(Tail(s), e)[k] = e
                  \/ \E j \in DOMAIN s : Append(Tail(s), e)[k] = s[j]
  <2> DEFINE u == Tail(s)
             a == Append(u, e)
  <2>1. /\ u \in Seq(S) /\ Len(u) = Len(s) - 1
        /\ \A i \in 1 .. Len(u) : u[i] = s[i + 1]
    BY <1>2, HeadTailProperties
  <2> HIDE DEF u
  <2>2. /\ a \in Seq(S) /\ Len(a) = Len(u) + 1
        /\ \A i \in 1 .. Len(u) : a[i] = u[i]
        /\ a[Len(u) + 1] = e
    BY <2>1, AppendProperties
  <2> HIDE DEF a
  <2>3. Len(a) = Len(s) /\ DOMAIN a = 1 .. Len(s)
    BY <1>0, <2>1, <2>2, LenProperties
  <2>4. ASSUME NEW k \in 1 .. Len(s), k # Len(s)
        PROVE  \E j \in DOMAIN s : a[k] = s[j]
    <3>1. k \in 1 .. Len(u) /\ k + 1 \in 1 .. Len(s)
      <4>1. Len(s) \in Nat /\ Len(u) = Len(s) - 1 /\ k # Len(s)
        BY <1>0, <2>1, <2>4
      <4> QED BY <4>1
    <3> QED BY <1>0, <2>1, <2>2, <3>1
  <2>5. a[Len(s)] = e
    BY <1>0, <2>1, <2>2
  <2>6. /\ a \in Seq(S) /\ Len(a) = Len(s)
        /\ \A k \in DOMAIN a : a[k] = e \/ \E j \in DOMAIN s : a[k] = s[j]
    BY <2>2, <2>3, <2>4, <2>5
  <2> QED BY <2>6 DEF a, u
<1> QED BY <1>1, <1>2

(* A set of positions has a last one.                                      *)
LEMMA UltimaEsta ==
  ASSUME NEW n \in Nat, NEW S \in SUBSET (1 .. n), S # {}
  PROVE  \E i \in S : \A j \in S : j <= i
<1> DEFINE D == {n - i : i \in S}
           R == {ss \in Nat \X Nat : ss[1] < ss[2]}
<1>1. D \subseteq Nat /\ D # {}
  <2>1. \A i \in S : n - i \in Nat
    OBVIOUS
  <2> QED BY <2>1
<1>2. IsWellFoundedOn(R, Nat)
  BY NatLessThanWellFounded, Zenon DEF OpToRel
<1>3. \E d \in D : \A e \in D : d <= e
  <2> HIDE DEF D, R
  <2>1. PICK d \in D : \A e \in D : ~(<<e, d>> \in R)
    BY <1>1, <1>2, WFMin
  <2>2. \A e \in D : ~(e < d)
    BY <1>1, <2>1 DEF R
  <2> QED BY <1>1, <2>2
<1>4. PICK i \in S : \A e \in D : n - i <= e
  BY <1>3
<1>5. \A j \in S : n - i <= n - j
  BY <1>4
<1> QED BY <1>5

(* The entry at the hand or the next one of a set: there is one.           *)
LEMMA PrimeraDesdeEsta ==
  ASSUME NEW n \in Nat, n > 0, NEW S \in SUBSET (1 .. n), S # {}, NEW m \in 1 .. n
  PROVE  PrimeraDesde(S, n, m) \in S
<1> DEFINE D == {Distancia(n, m, i) : i \in S}
           R == {ss \in Nat \X Nat : ss[1] < ss[2]}
<1>1. \A i \in S : Distancia(n, m, i) \in Nat
  BY DEF Distancia
<1>2. D \subseteq Nat /\ D # {}
  BY <1>1
<1>3. IsWellFoundedOn(R, Nat)
  BY NatLessThanWellFounded, Zenon DEF OpToRel
<1>4. \E d \in D : \A e \in D : d <= e
  <2> HIDE DEF D, R
  <2>1. PICK d \in D : \A e \in D : ~(<<e, d>> \in R)
    BY <1>2, <1>3, WFMin
  <2>2. \A e \in D : ~(e < d)
    BY <1>2, <2>1 DEF R
  <2> QED BY <1>2, <2>2
<1>5. \E i \in S : \A j \in S : Distancia(n, m, i) <= Distancia(n, m, j)
  BY <1>4
<1> QED BY <1>5 DEF PrimeraDesde
------------------------------------------------------------------------------
(* What the helpers of the MMU give.                                       *)

LEMMA PaginasProps ==
  /\ \A p, n : <<p, n>> \in Paginas => p \in Procesos /\ n \in Nat
  /\ \A x \in Paginas : x = <<x[1], x[2]>> /\ x[1] \in Procesos /\ x[2] \in Nat
<1>1. \A x \in Paginas : \E p \in Procesos : \E k \in 1 .. CantPaginas[p] : x = <<p, k - 1>>
  BY DEF Paginas
<1>2. \A p \in Procesos : CantPaginas[p] \in Nat
  BY ConfigOk
<1>3. ASSUME NEW x \in Paginas
      PROVE  x = <<x[1], x[2]>> /\ x[1] \in Procesos /\ x[2] \in Nat
  BY <1>1, <1>2, <1>3
<1>4. ASSUME NEW p, NEW n, <<p, n>> \in Paginas PROVE p \in Procesos /\ n \in Nat
  <2>1. <<p, n>>[1] \in Procesos /\ <<p, n>>[2] \in Nat
    BY <1>3, <1>4
  <2> QED BY <2>1
<1> QED BY <1>3, <1>4

(* A process only runs on the pages it has.                                *)
LEMMA EjecutaProps ==
  ASSUME TypeOK, NEW c \in CPUs, NEW n, Ejecuta(c, n)
  PROVE  /\ <<corre[c], n>> \in Paginas /\ corre[c] \in Procesos /\ n \in Nat
         /\ tabla[<<corre[c], n>>] \in Marcos
BY PaginasProps DEF TypeOK, Ejecuta

LEMMA MarcoDeTipo ==
  ASSUME TypeOK, NEW p, NEW n
  PROVE  MarcoDe(p, n) \in Marcos \cup {SinMarco}
BY DEF MarcoDe, TypeOK

LEMMA MarcoTipo ==
  ASSUME TypeOK, NEW c \in CPUs, NEW n, <<corre[c], n>> \in Paginas
  PROVE  Marco(tlb[c], corre[c], n) \in Marcos \cup {SinMarco}
<1>1. CASE EnTlb(tlb[c], n) # {}
  <2>1. PICK i \in DOMAIN tlb[c] : Marco(tlb[c], corre[c], n) = tlb[c][i].marco
    BY <1>1 DEF Marco, EnTlb
  <2>2. tlb[c] \in Seq(EntradaTlb)
    BY DEF TypeOK, EntradaTlb
  <2>3. tlb[c][i] \in EntradaTlb
    BY <2>1, <2>2, ElementOfSeq, LenProperties
  <2> QED BY <2>1, <2>3 DEF EntradaTlb
<1>2. CASE EnTlb(tlb[c], n) = {}
  BY <1>2, MarcoDeTipo DEF Marco
<1> QED BY <1>1, <1>2

(* A translation adds to the TLB the frame that memory gives and no other. *)
LEMMA TlbTrasTraducirProps ==
  ASSUME TypeOK, NEW c \in CPUs, NEW n, <<corre[c], n>> \in Paginas
  PROVE  /\ TlbTrasTraducir(c, n) \in Seq(EntradaTlb)
         /\ Len(TlbTrasTraducir(c, n)) <= EntradasTlb[c]
         /\ \A k \in DOMAIN TlbTrasTraducir(c, n) :
              \/ TlbTrasTraducir(c, n)[k] =
                   [pagina |-> n, marco |-> MarcoDe(corre[c], n)]
              \/ \E j \in DOMAIN tlb[c] : TlbTrasTraducir(c, n)[k] = tlb[c][j]
<1> DEFINE t == tlb[c]
           e == [pagina |-> n, marco |-> MarcoDe(corre[c], n)]
<1>1. t \in Seq(EntradaTlb) /\ Len(t) \in Nat /\ Len(t) <= EntradasTlb[c]
  BY LenProperties DEF TypeOK, EntradaTlb
<1>2. e \in EntradaTlb /\ EntradasTlb[c] \in Nat
  BY ConfigOk, PaginasProps, MarcoDeTipo DEF EntradaTlb
<1>3. CASE EnTlb(t, n) # {} /\ ReemplazoTlb[c] = "LRU"
  <2>1. PICK i \in DOMAIN t : TlbTrasTraducir(c, n) = AlFinal(t, i)
    BY <1>3 DEF TlbTrasTraducir, EnTlb
  <2> QED BY <1>1, <2>1, AlFinalProps
<1>4. CASE EnTlb(t, n) # {} /\ ReemplazoTlb[c] # "LRU"
  BY <1>1, <1>4 DEF TlbTrasTraducir
<1>5. CASE EnTlb(t, n) = {} /\ ~(EntradasTlb[c] > 0)
  BY <1>1, <1>5 DEF TlbTrasTraducir
<1>6. CASE EnTlb(t, n) = {} /\ EntradasTlb[c] > 0
  <2>1. TlbTrasTraducir(c, n) = IF Len(t) < EntradasTlb[c] THEN Append(t, e)
                                ELSE Append(Tail(t), e)
    BY <1>6 DEF TlbTrasTraducir, Agrega
  <2>2. CASE Len(t) < EntradasTlb[c]
    <3>1. TlbTrasTraducir(c, n) = Append(t, e)
      BY <2>1, <2>2
    <3> HIDE DEF t, e
    <3>2. /\ Append(t, e) \in Seq(EntradaTlb) /\ Len(Append(t, e)) = Len(t) + 1
          /\ \A k \in DOMAIN Append(t, e) :
               Append(t, e)[k] = e \/ \E j \in DOMAIN t : Append(t, e)[k] = t[j]
      BY <1>1, <1>2, AgregaProps
    <3>3. Len(Append(t, e)) <= EntradasTlb[c]
      BY <1>1, <1>2, <2>2, <3>2
    <3> QED BY <3>1, <3>2, <3>3 DEF t, e
  <2>3. CASE ~(Len(t) < EntradasTlb[c])
    <3>1. TlbTrasTraducir(c, n) = Append(Tail(t), e) /\ t # <<>>
      <4>1. Len(t) > 0
        BY <1>1, <1>2, <1>6, <2>3
      <4> QED BY <2>1, <2>3, <4>1, EmptySeq
    <3> HIDE DEF t, e
    <3>2. /\ Append(Tail(t), e) \in Seq(EntradaTlb) /\ Len(Append(Tail(t), e)) = Len(t)
          /\ \A k \in DOMAIN Append(Tail(t), e) :
               \/ Append(Tail(t), e)[k] = e
               \/ \E j \in DOMAIN t : Append(Tail(t), e)[k] = t[j]
      BY <1>1, <1>2, <3>1, AgregaProps
    <3> QED BY <1>1, <3>1, <3>2 DEF t, e
  <2> QED BY <2>2, <2>3
<1> QED BY <1>3, <1>4, <1>5, <1>6

(* Two entries that differ at most in the bit of use.                      *)
SoloUso(e, d) == /\ e.pagina = d.pagina /\ e.pid = d.pid /\ e.marco = d.marco
                 /\ e.valor = d.valor /\ e.modificado = d.modificado

LEMMA SinUsoProps ==
  ASSUME NEW ch \in Seq(EntradaCache), NEW S
  PROVE  /\ SinUso(ch, S) \in Seq(EntradaCache) /\ Len(SinUso(ch, S)) = Len(ch)
         /\ DOMAIN SinUso(ch, S) = DOMAIN ch
         /\ \A i \in DOMAIN ch : SoloUso(SinUso(ch, S)[i], ch[i])
<1>1. \A i \in DOMAIN ch : ch[i] \in EntradaCache
  BY ElementOfSeq, LenProperties
<1>2. \A i \in DOMAIN ch : SinUso(ch, S)[i] = IF i \in S THEN [ch[i] EXCEPT !.uso = FALSE]
                                            ELSE ch[i]
  BY DEF SinUso
<1>3. ASSUME NEW i \in DOMAIN ch
      PROVE  SinUso(ch, S)[i] \in EntradaCache /\ SoloUso(SinUso(ch, S)[i], ch[i])
  BY <1>1, <1>2 DEF EntradaCache, SoloUso
<1>4. SinUso(ch, S) = [i \in DOMAIN ch |-> SinUso(ch, S)[i]]
  BY DEF SinUso
<1> QED BY <1>3, <1>4, MismaForma

(* Both policies choose an entry of the list, change nothing but bits of   *)
(* use, and drop without sending only what was not modified.               *)
LEMMA EligeProps ==
  ASSUME NEW ch \in Seq(EntradaCache), ch # <<>>, NEW m \in DOMAIN ch, NEW r,
         r = Clock(ch, m) \/ r = ClockM(ch, m)
  PROVE  /\ r.victima \in DOMAIN ch
         /\ r.queda \in Seq(EntradaCache) /\ Len(r.queda) = Len(ch)
         /\ DOMAIN r.queda = DOMAIN ch
         /\ \A i \in DOMAIN ch : SoloUso(r.queda[i], ch[i])
         /\ r.guarda \/ ~ch[r.victima].modificado
<1> DEFINE libres == {i \in DOMAIN ch : ~ch[i].uso}
           limpias == {i \in DOMAIN ch : ~ch[i].modificado}
           Bien(q) == /\ q.victima \in DOMAIN ch
                      /\ \/ q.queda = ch \/ \E S : q.queda = SinUso(ch, S)
                      /\ q.guarda \/ ~ch[q.victima].modificado
<1>1. Len(ch) \in Nat /\ Len(ch) > 0 /\ DOMAIN ch = 1 .. Len(ch)
  BY LenProperties, EmptySeq
<1>2. \A S \in SUBSET (DOMAIN ch) : S # {} => PrimeraDesde(S, Len(ch), m) \in S
  BY <1>1, PrimeraDesdeEsta
<1>3. ASSUME r = Clock(ch, m) PROVE Bien(r)
  <2>1. CASE libres # {}
    <3>1. r = [victima |-> PrimeraDesde(libres, Len(ch), m), queda |-> ch,
               guarda |-> TRUE]
      BY <1>3, <2>1 DEF Clock
    <3> QED BY <1>2, <2>1, <3>1
  <2>2. CASE libres = {}
    <3>1. r = [victima |-> m, queda |-> SinUso(ch, DOMAIN ch), guarda |-> TRUE]
      BY <1>3, <2>2 DEF Clock
    <3> QED BY <3>1
  <2> QED BY <2>1, <2>2
<1>4. ASSUME r = ClockM(ch, m) PROVE Bien(r)
  <2>1. CASE libres \cap limpias # {}
    <3>1. r = [victima |-> PrimeraDesde(libres \cap limpias, Len(ch), m),
               queda |-> ch, guarda |-> FALSE]
      BY <1>4, <2>1 DEF ClockM
    <3> QED BY <1>2, <2>1, <3>1
  <2>2. CASE libres \cap limpias = {} /\ libres # {}
    <3>1. \E S : r = [victima |-> PrimeraDesde(libres, Len(ch), m),
                     queda |-> SinUso(ch, S), guarda |-> TRUE]
      BY <1>4, <2>2 DEF ClockM
    <3> QED BY <1>2, <2>2, <3>1
  <2>3. CASE libres = {} /\ limpias # {}
    <3>1. r = [victima |-> PrimeraDesde(limpias, Len(ch), m),
               queda |-> SinUso(ch, DOMAIN ch), guarda |-> FALSE]
      BY <1>4, <2>3 DEF ClockM
    <3> QED BY <1>2, <2>3, <3>1
  <2>4. CASE libres = {} /\ limpias = {}
    <3>1. r = [victima |-> m, queda |-> SinUso(ch, DOMAIN ch), guarda |-> TRUE]
      BY <1>4, <2>4 DEF ClockM
    <3> QED BY <3>1
  <2> QED BY <2>1, <2>2, <2>3, <2>4
<1>5. Bien(r)
  BY <1>3, <1>4
<1>6. CASE r.queda = ch
  BY <1>5, <1>6 DEF SoloUso
<1>7. ASSUME NEW S, r.queda = SinUso(ch, S)
      PROVE  /\ r.queda \in Seq(EntradaCache) /\ Len(r.queda) = Len(ch)
             /\ DOMAIN r.queda = DOMAIN ch
             /\ \A i \in DOMAIN ch : SoloUso(r.queda[i], ch[i])
  BY <1>7, SinUsoProps
<1> QED BY <1>5, <1>6, <1>7

(* The page that a miss brings.                                            *)
Nueva(c, n) ==
  LET f == Marco(tlb[c], corre[c], n) IN
  [pagina |-> n, pid |-> corre[c], marco |-> f, valor |-> SinFinal[memoria[f]],
   uso |-> TRUE, modificado |-> FALSE]

(* The frame an evicted entry goes to.                                     *)
Vuelve(c, n, e) == Marco(TlbTrasTraducir(c, n), corre[c], e.pagina)

(* Where the page n of a miss is put, and the entry that leaves.           *)
Trajo(c, n, ch, m, k, propia) ==
  /\ k \in DOMAIN ch /\ DOMAIN cache[c] \subseteq DOMAIN ch
  /\ \A i \in DOMAIN ch \ {k} :
       i \in DOMAIN cache[c] /\ SoloUso(ch[i], cache[c][i])
  /\ \/ m = memoria /\ (k \in DOMAIN cache[c] => ~cache[c][k].modificado)
     \/ /\ k \in DOMAIN cache[c]
        /\ m = [memoria EXCEPT ![Vuelve(c, n, cache[c][k])] =
                              SinFinal[cache[c][k].valor]]
        /\ propia => SuMarco(cache[c][k].pid, cache[c][k].pagina,
                            Vuelve(c, n, cache[c][k]))

(* A miss puts the new page in one place of the list, keeps the others     *)
(* and, when it takes the place of an entry, writes that entry to memory   *)
(* unless it was not modified.                                             *)
LEMMA TraeProps ==
  ASSUME Inv, NEW c \in CPUs, NEW n, Ejecuta(c, n), Responde(c, n),
         EntradasCache[c] > 0, NEW r, r = Trae(c, n)
  PROVE  /\ r.cache \in Seq(EntradaCache) /\ Len(r.cache) <= EntradasCache[c]
         /\ r.puntero \in Nat \ {0} /\ r.puntero <= EntradasCache[c]
         /\ r.memoria \in [Marcos -> Datos]
         /\ r.propia \in BOOLEAN
         /\ r.propia => SuMarco(corre[c], n, Marco(tlb[c], corre[c], n))
         /\ \E k : Trajo(c, n, r.cache, r.memoria, k, r.propia) /\ r.cache[k] = Nueva(c, n)
<1> DEFINE ch == cache[c]
           e == Nueva(c, n)
<1>1. /\ ch \in Seq(EntradaCache) /\ Len(ch) \in Nat /\ DOMAIN ch = 1 .. Len(ch)
      /\ Len(ch) <= EntradasCache[c] /\ EntradasCache[c] \in Nat
      /\ \A i \in DOMAIN ch : ch[i] \in EntradaCache
  <2>1. ch \in Seq(EntradaCache) /\ Len(ch) <= EntradasCache[c]
    BY DEF Inv, TypeOK, EntradaCache
  <2>2. EntradasCache[c] \in Nat
    BY ConfigOk
  <2> QED BY <2>1, <2>2, LenProperties, ElementOfSeq
<1>2. e \in EntradaCache
  <2>1. Marco(tlb[c], corre[c], n) \in Marcos /\ corre[c] \in Procesos /\ n \in Nat
    <3>1. EsDe(corre[c], Marco(tlb[c], corre[c], n)) /\ tabla \in [Paginas -> Marcos]
      BY DEF Responde, Inv, TypeOK
    <3>2. Marco(tlb[c], corre[c], n) \in Marcos
      BY <3>1 DEF EsDe
    <3> QED BY <3>2, EjecutaProps DEF Inv
  <2>2. SinFinal[memoria[Marco(tlb[c], corre[c], n)]] \in Datos
    BY <2>1, ConfigOk DEF Inv, TypeOK
  <2> QED BY <2>1, <2>2 DEF Nueva, EntradaCache
<1>3. puntero[c] \in Nat \ {0} /\ puntero[c] <= EntradasCache[c]
  BY DEF Inv, TypeOK, PunteroEnLista
<1>4. memoria \in [Marcos -> Datos]
  BY DEF Inv, TypeOK
<1>5. CASE Len(ch) < EntradasCache[c]
  <2>1. /\ r.cache = Append(ch, e) /\ r.puntero = puntero[c] /\ r.memoria = memoria
        /\ r.propia = SuMarco(corre[c], n, Marco(tlb[c], corre[c], n))
    BY <1>5 DEF Trae, Nueva
  <2>7. SuMarco(corre[c], n, Marco(tlb[c], corre[c], n)) \in BOOLEAN
    BY DEF SuMarco
  <2> HIDE DEF ch, e
  <2>2. /\ Append(ch, e) \in Seq(EntradaCache) /\ Len(Append(ch, e)) = Len(ch) + 1
        /\ \A i \in 1 .. Len(ch) : Append(ch, e)[i] = ch[i]
        /\ Append(ch, e)[Len(ch) + 1] = e
    BY <1>1, <1>2, AppendProperties
  <2>3. DOMAIN Append(ch, e) = 1 .. Len(ch) + 1
    BY <2>2, LenProperties
  <2> DEFINE k == Len(ch) + 1
  <2>4. /\ k \in DOMAIN r.cache /\ r.cache[k] = e /\ k \notin DOMAIN ch
        /\ DOMAIN ch \subseteq DOMAIN r.cache
    BY <1>1, <2>1, <2>2, <2>3
  <2>5. \A i \in DOMAIN r.cache \ {k} : i \in DOMAIN ch /\ SoloUso(r.cache[i], ch[i])
    BY <1>1, <2>1, <2>2, <2>3 DEF SoloUso
  <2>6. Len(r.cache) <= EntradasCache[c]
    BY <1>1, <1>5, <2>1, <2>2
  <2> HIDE DEF k
  <2>8. Trajo(c, n, r.cache, r.memoria, k, r.propia)
    BY <2>1, <2>4, <2>5 DEF Trajo, ch
  <2> QED BY <1>3, <1>4, <2>1, <2>2, <2>4, <2>6, <2>7, <2>8 DEF ch, e
<1>6. CASE ~(Len(ch) < EntradasCache[c])
  <2>1. Len(ch) = EntradasCache[c] /\ ch # <<>> /\ puntero[c] \in DOMAIN ch
    <3>1. Len(ch) = EntradasCache[c]
      BY <1>1, <1>6
    <3> QED BY <1>1, <1>3, <3>1, EmptySeq
  <2> DEFINE q == Elige(c)
             v == ch[q.victima]
  <2>2. /\ r.cache = [q.queda EXCEPT ![q.victima] = e]
        /\ r.puntero = (q.victima % Len(ch)) + 1
        /\ r.memoria = IF q.guarda
                       THEN [memoria EXCEPT ![Vuelve(c, n, v)] = SinFinal[v.valor]]
                       ELSE memoria
        /\ r.propia = (/\ SuMarco(corre[c], n, Marco(tlb[c], corre[c], n))
                       /\ q.guarda => SuMarco(v.pid, v.pagina, Vuelve(c, n, v)))
    BY <1>6 DEF Trae, Nueva, Vuelve
  <2>3. q = Clock(ch, puntero[c]) \/ q = ClockM(ch, puntero[c])
    BY DEF Elige
  <2> HIDE DEF ch, e, q
  <2>4. /\ q.victima \in DOMAIN ch
        /\ q.queda \in Seq(EntradaCache) /\ Len(q.queda) = Len(ch)
        /\ DOMAIN q.queda = DOMAIN ch
        /\ \A i \in DOMAIN ch : SoloUso(q.queda[i], ch[i])
        /\ q.guarda \/ ~ch[q.victima].modificado
    BY <1>1, <2>1, <2>3, EligeProps
  <2>5. /\ r.cache \in Seq(EntradaCache) /\ Len(r.cache) = Len(ch)
        /\ \A i \in DOMAIN ch : r.cache[i] = IF i = q.victima THEN e ELSE q.queda[i]
        /\ DOMAIN r.cache = DOMAIN ch
    <3>1. \A i \in DOMAIN q.queda : q.queda[i] \in EntradaCache
      BY <2>4, ElementOfSeq, LenProperties
    <3>2. /\ r.cache = [i \in DOMAIN q.queda |-> r.cache[i]]
          /\ \A i \in DOMAIN q.queda : r.cache[i] \in EntradaCache
      BY <1>2, <2>2, <2>4, <3>1
    <3>3. r.cache \in Seq(EntradaCache) /\ Len(r.cache) = Len(q.queda)
      BY <2>4, <3>2, MismaForma
    <3> QED BY <2>2, <2>4, <3>2, <3>3
  <2>6. r.puntero \in Nat \ {0} /\ r.puntero <= EntradasCache[c]
    BY <1>1, <2>1, <2>2, <2>4
  <2>7. r.memoria \in [Marcos -> Datos]
    <3>1. SinFinal[v.valor] \in Datos
      BY <1>1, <2>4, ConfigOk DEF EntradaCache
    <3> QED BY <1>4, <2>2, <3>1
  <2>8. \A i \in DOMAIN r.cache \ {q.victima} :
          i \in DOMAIN ch /\ SoloUso(r.cache[i], ch[i])
    BY <2>4, <2>5
  <2>9. \/ r.memoria = memoria /\ ~ch[q.victima].modificado
        \/ /\ r.memoria = [memoria EXCEPT ![Vuelve(c, n, v)] = SinFinal[v.valor]]
           /\ r.propia => SuMarco(v.pid, v.pagina, Vuelve(c, n, v))
    BY <2>2, <2>4
  <2>12. /\ r.propia \in BOOLEAN
         /\ r.propia => SuMarco(corre[c], n, Marco(tlb[c], corre[c], n))
    BY <2>2
  <2>10. /\ q.victima \in DOMAIN r.cache /\ r.cache[q.victima] = e
         /\ DOMAIN ch \subseteq DOMAIN r.cache
         /\ r.cache \in Seq(EntradaCache) /\ Len(r.cache) <= EntradasCache[c]
    BY <1>1, <2>1, <2>4, <2>5
  <2> DEFINE k == q.victima
  <2>11. /\ k \in DOMAIN r.cache /\ r.cache[k] = e
         /\ \A i \in DOMAIN r.cache \ {k} : i \in DOMAIN ch /\ SoloUso(r.cache[i], ch[i])
         /\ DOMAIN ch \subseteq DOMAIN r.cache
         /\ \/ r.memoria = memoria /\ (k \in DOMAIN ch => ~ch[k].modificado)
            \/ /\ k \in DOMAIN ch
               /\ r.memoria = [memoria EXCEPT ![Vuelve(c, n, ch[k])] =
                                             SinFinal[ch[k].valor]]
               /\ r.propia => SuMarco(ch[k].pid, ch[k].pagina, Vuelve(c, n, ch[k]))
    BY <2>4, <2>8, <2>9, <2>10
  <2> HIDE DEF k
  <2>13. Trajo(c, n, r.cache, r.memoria, k, r.propia)
    BY <2>11 DEF Trajo, ch
  <2> QED BY <2>6, <2>7, <2>10, <2>11, <2>12, <2>13 DEF e
<1> QED BY <1>5, <1>6
------------------------------------------------------------------------------
(* Types.                                                                  *)

Listas == /\ Funciones
          /\ \A c \in CPUs :
               /\ tlb[c] \in Seq(EntradaTlb) /\ Len(tlb[c]) <= EntradasTlb[c]
               /\ cache[c] \in Seq(EntradaCache) /\ Len(cache[c]) <= EntradasCache[c]

TipoResto ==
  /\ corre \in [CPUs -> Procesos \cup {Nadie}]
  /\ anterior \in [CPUs -> Procesos \cup {Nadie}]
  /\ colgada \in [CPUs -> BOOLEAN]
  /\ puntero \in [CPUs -> Nat \ {0}] /\ PunteroEnLista
  /\ memoria \in [Marcos -> Datos]
  /\ tabla \in [Paginas -> Marcos]
  /\ vivos \subseteq Procesos /\ bloqueados \subseteq SeSuspenden
  /\ enMemoria \subseteq Procesos
  /\ ultimo \in [Paginas -> Datos]
  /\ guardado \in [Procesos -> BOOLEAN]
  /\ ultima \in [Procesos -> CPUs \cup {Nadie}]
  /\ fiel \in [Procesos -> BOOLEAN]
  /\ vieja \subseteq CPUs /\ sano \in BOOLEAN /\ devuelta \subseteq Paginas

LEMMA InvPartes == Inv <=> Listas /\ TipoResto
BY DEF Inv, TypeOK, Listas, TipoResto, EntradaTlb, EntradaCache

LEMMA ListasFijas == Listas /\ UNCHANGED <<tlb, cache>> => Listas'
BY DEF Listas, Funciones

(* A step changes the lists of one CPU.                                    *)
LEMMA ListasCambian ==
  ASSUME Listas, NEW c \in CPUs,
         NEW t \in Seq(EntradaTlb), Len(t) <= EntradasTlb[c],
         NEW ch \in Seq(EntradaCache), Len(ch) <= EntradasCache[c],
         tlb' = [tlb EXCEPT ![c] = t], cache' = [cache EXCEPT ![c] = ch]
  PROVE  /\ Listas' /\ tlb'[c] = t /\ cache'[c] = ch
         /\ \A d \in CPUs \ {c} : tlb'[d] = tlb[d] /\ cache'[d] = cache[d]
<1>1. /\ DOMAIN tlb = CPUs /\ DOMAIN cache = CPUs
      /\ tlb = [d \in CPUs |-> tlb[d]] /\ cache = [d \in CPUs |-> cache[d]]
  BY DEF Listas, Funciones
<1>2. tlb' = [d \in CPUs |-> IF d = c THEN t ELSE tlb[d]]
  BY <1>1
<1>3. cache' = [d \in CPUs |-> IF d = c THEN ch ELSE cache[d]]
  BY <1>1
<1>4. Funciones'
  BY <1>2, <1>3 DEF Funciones
<1> QED BY <1>2, <1>3, <1>4 DEF Listas

LEMMA CacheCambia ==
  ASSUME Listas, NEW c \in CPUs, tlb' = tlb,
         NEW ch \in Seq(EntradaCache), Len(ch) <= EntradasCache[c],
         cache' = [cache EXCEPT ![c] = ch]
  PROVE  /\ Listas' /\ cache'[c] = ch
         /\ \A d \in CPUs \ {c} : cache'[d] = cache[d]
<1>1. DOMAIN cache = CPUs /\ cache = [d \in CPUs |-> cache[d]]
  BY DEF Listas, Funciones
<1>2. cache' = [d \in CPUs |-> IF d = c THEN ch ELSE cache[d]]
  BY <1>1
<1>3. Funciones'
  BY <1>2 DEF Funciones, Listas
<1> QED BY <1>2, <1>3 DEF Listas

(* An entry of the cache changes its contents.                             *)
LEMMA EntradaCambia ==
  ASSUME Listas, NEW c \in CPUs, NEW i \in DOMAIN cache[c], NEW e \in EntradaCache
  PROVE  /\ [cache[c] EXCEPT ![i] = e] \in Seq(EntradaCache)
         /\ Len([cache[c] EXCEPT ![i] = e]) = Len(cache[c])
         /\ DOMAIN [cache[c] EXCEPT ![i] = e] = DOMAIN cache[c]
         /\ \A j \in DOMAIN cache[c] :
              [cache[c] EXCEPT ![i] = e][j] = IF j = i THEN e ELSE cache[c][j]
<1> DEFINE s == cache[c]
           t == [s EXCEPT ![i] = e]
<1>1. s \in Seq(EntradaCache) /\ \A j \in DOMAIN s : s[j] \in EntradaCache
  BY ElementOfSeq, LenProperties DEF Listas
<1>2. /\ t = [j \in DOMAIN s |-> t[j]] /\ \A j \in DOMAIN s : t[j] \in EntradaCache
      /\ \A j \in DOMAIN s : t[j] = IF j = i THEN e ELSE s[j]
  BY <1>1
<1> HIDE DEF s, t
<1>3. t \in Seq(EntradaCache) /\ Len(t) = Len(s) /\ DOMAIN t = DOMAIN s
  BY <1>1, <1>2, MismaForma
<1> QED BY <1>2, <1>3 DEF s, t

LEMMA EntradaTipo ==
  ASSUME Listas, NEW c \in CPUs
  PROVE  /\ \A i \in DOMAIN cache[c] : cache[c][i] \in EntradaCache
         /\ \A i \in DOMAIN tlb[c] : tlb[c][i] \in EntradaTlb
         /\ EntradasTlb[c] \in Nat /\ EntradasCache[c] \in Nat
         /\ Len(tlb[c]) \in Nat /\ Len(cache[c]) \in Nat
BY ElementOfSeq, LenProperties, ConfigOk DEF Listas

(* A hit changes the bit of use of the page.                               *)
LEMMA LeeDeCacheEfecto ==
  ASSUME Inv, NEW c \in CPUs, NEW n, LeeDeCache(c, n)
  PROVE  /\ Listas' /\ \A d \in CPUs \ {c} : cache'[d] = cache[d]
         /\ DOMAIN cache'[c] = DOMAIN cache[c]
         /\ \A i \in DOMAIN cache[c] : SoloUso(cache'[c][i], cache[c][i])
<1>1. PICK i \in EnCache(c, n) : cache' = [cache EXCEPT ![c][i].uso = TRUE]
  BY DEF LeeDeCache
<1>2. i \in DOMAIN cache[c] /\ Listas
  BY <1>1, InvPartes DEF EnCache
<1> DEFINE e == [cache[c][i] EXCEPT !.uso = TRUE]
           ch == [cache[c] EXCEPT ![i] = e]
<1>3. e \in EntradaCache /\ SoloUso(e, cache[c][i])
  BY <1>2, EntradaTipo DEF EntradaCache, SoloUso
<1>4. cache' = [cache EXCEPT ![c] = ch] /\ tlb' = tlb
  BY <1>1 DEF LeeDeCache
<1> HIDE DEF e
<1>5. /\ ch \in Seq(EntradaCache) /\ Len(ch) = Len(cache[c])
      /\ DOMAIN ch = DOMAIN cache[c]
      /\ \A j \in DOMAIN cache[c] : ch[j] = IF j = i THEN e ELSE cache[c][j]
  BY <1>2, <1>3, EntradaCambia
<1> HIDE DEF ch
<1>6. Len(ch) <= EntradasCache[c]
  BY <1>2, <1>5 DEF Listas
<1>7. /\ Listas' /\ cache'[c] = ch
      /\ \A d \in CPUs \ {c} : cache'[d] = cache[d]
  BY <1>2, <1>4, <1>5, <1>6, CacheCambia
<1> QED BY <1>3, <1>5, <1>7 DEF SoloUso

(* A write that hits changes the page's entry and no other.                *)
LEMMA EscribeEnCacheEfecto ==
  ASSUME Inv, NEW c \in CPUs, NEW n, NEW d \in Datos, EscribeEnCache(c, n, d)
  PROVE  /\ Listas' /\ \A b \in CPUs \ {c} : cache'[b] = cache[b]
         /\ DOMAIN cache'[c] = DOMAIN cache[c]
         /\ \E i \in EnCache(c, n) :
              \A j \in DOMAIN cache[c] :
                cache'[c][j] = IF j = i THEN Escrita(cache[c][i], d) ELSE cache[c][j]
<1>1. PICK i \in EnCache(c, n) : cache' = [cache EXCEPT ![c][i] = Escrita(@, d)]
  BY DEF EscribeEnCache
<1>2. i \in DOMAIN cache[c] /\ Listas
  BY <1>1, InvPartes DEF EnCache
<1> DEFINE e == Escrita(cache[c][i], d)
           ch == [cache[c] EXCEPT ![i] = e]
<1>3. e \in EntradaCache
  <2>1. SinFinal[d] \in Datos /\ cache[c][i] \in EntradaCache
    BY <1>2, EntradaTipo, ConfigOk
  <2> QED BY <2>1 DEF EntradaCache, Escrita
<1>4. cache' = [cache EXCEPT ![c] = ch] /\ tlb' = tlb
  BY <1>1 DEF EscribeEnCache
<1> HIDE DEF e
<1>5. /\ ch \in Seq(EntradaCache) /\ Len(ch) = Len(cache[c])
      /\ DOMAIN ch = DOMAIN cache[c]
      /\ \A j \in DOMAIN cache[c] : ch[j] = IF j = i THEN e ELSE cache[c][j]
  BY <1>2, <1>3, EntradaCambia
<1> HIDE DEF ch
<1>6. Len(ch) <= EntradasCache[c]
  BY <1>2, <1>5 DEF Listas
<1>7. /\ Listas' /\ cache'[c] = ch
      /\ \A b \in CPUs \ {c} : cache'[b] = cache[b]
  BY <1>2, <1>4, <1>5, <1>6, CacheCambia
<1> QED BY <1>1, <1>5, <1>7 DEF e

LEMMA FalloProps ==
  ASSUME Inv, NEW c \in CPUs, NEW n, FalloDeCache(c, n)
  PROVE  /\ tlb' = [tlb EXCEPT ![c] = TlbTrasTraducir(c, n)]
         /\ TlbTrasTraducir(c, n) \in Seq(EntradaTlb)
         /\ Len(TlbTrasTraducir(c, n)) <= EntradasTlb[c]
BY EjecutaProps, TlbTrasTraducirProps DEF FalloDeCache, Inv

(* A read that misses.                                                     *)
LEMMA LeeTrayendoEfecto ==
  ASSUME Inv, NEW c \in CPUs, NEW n, LeeTrayendo(c, n)
  PROVE  /\ Listas' /\ tlb'[c] = TlbTrasTraducir(c, n)
         /\ \A d \in CPUs \ {c} : tlb'[d] = tlb[d] /\ cache'[d] = cache[d]
         /\ puntero' \in [CPUs -> Nat \ {0}] /\ PunteroEnLista'
         /\ memoria' \in [Marcos -> Datos]
         /\ sano' \in BOOLEAN
         /\ sano' => sano /\ SuMarco(corre[c], n, Marco(tlb[c], corre[c], n))
         /\ \E k : /\ Trajo(c, n, cache'[c], memoria', k, sano')
                  /\ cache'[c][k] = Nueva(c, n)
<1> DEFINE r == Trae(c, n)
<1>1. /\ FalloDeCache(c, n) /\ Ejecuta(c, n) /\ EntradasCache[c] > 0
      /\ Responde(c, n) /\ sano' = (sano /\ r.propia)
      /\ cache' = [cache EXCEPT ![c] = r.cache]
      /\ puntero' = [puntero EXCEPT ![c] = r.puntero] /\ memoria' = r.memoria
  BY DEF LeeTrayendo, FalloDeCache
<1> HIDE DEF r
<1>2. /\ r.cache \in Seq(EntradaCache) /\ Len(r.cache) <= EntradasCache[c]
      /\ r.puntero \in Nat \ {0} /\ r.puntero <= EntradasCache[c]
      /\ r.memoria \in [Marcos -> Datos]
      /\ r.propia \in BOOLEAN
      /\ r.propia => SuMarco(corre[c], n, Marco(tlb[c], corre[c], n))
      /\ \E k : Trajo(c, n, r.cache, r.memoria, k, r.propia) /\ r.cache[k] = Nueva(c, n)
  <2>1. r = Trae(c, n)
    BY DEF r
  <2>2. Ejecuta(c, n) /\ EntradasCache[c] > 0 /\ Responde(c, n)
    BY <1>1
  <2> QED BY <2>1, <2>2, TraeProps, Zenon
<1>3. /\ Listas' /\ tlb'[c] = TlbTrasTraducir(c, n) /\ cache'[c] = r.cache
      /\ \A d \in CPUs \ {c} : tlb'[d] = tlb[d] /\ cache'[d] = cache[d]
  BY <1>1, <1>2, FalloProps, InvPartes, ListasCambian
<1>4. puntero' \in [CPUs -> Nat \ {0}] /\ PunteroEnLista'
  BY <1>1, <1>2 DEF Inv, TypeOK, PunteroEnLista
<1>5. \A k : Trajo(c, n, r.cache, r.memoria, k, r.propia) =>
              Trajo(c, n, r.cache, r.memoria, k, sano')
  <2>1. sano' => r.propia
    BY <1>1
  <2> QED BY <2>1 DEF Trajo
<1>6. sano \in BOOLEAN
  BY DEF Inv, TypeOK
<1> QED BY <1>1, <1>2, <1>3, <1>4, <1>5, <1>6

(* A write that misses: the page it brought is then written.               *)
LEMMA EscribeTrayendoEfecto ==
  ASSUME Inv, NEW c \in CPUs, NEW n, NEW d \in Datos, EscribeTrayendo(c, n, d)
  PROVE  /\ Listas' /\ tlb'[c] = TlbTrasTraducir(c, n)
         /\ \A b \in CPUs \ {c} : tlb'[b] = tlb[b] /\ cache'[b] = cache[b]
         /\ puntero' \in [CPUs -> Nat \ {0}] /\ PunteroEnLista'
         /\ memoria' \in [Marcos -> Datos]
         /\ sano' \in BOOLEAN
         /\ sano' => sano /\ SuMarco(corre[c], n, Marco(tlb[c], corre[c], n))
         /\ \E k : /\ Trajo(c, n, cache'[c], memoria', k, sano')
                  /\ cache'[c][k] = Escrita(Nueva(c, n), d)
<1> DEFINE r == Trae(c, n)
           ch == [i \in DOMAIN r.cache |-> IF r.cache[i].pagina = n
                                          THEN Escrita(r.cache[i], d)
                                          ELSE r.cache[i]]
<1>1. /\ FalloDeCache(c, n) /\ Ejecuta(c, n) /\ EntradasCache[c] > 0
      /\ Responde(c, n) /\ sano' = (sano /\ r.propia)
      /\ EnCache(c, n) = {}
      /\ cache' = [cache EXCEPT ![c] = ch]
      /\ puntero' = [puntero EXCEPT ![c] = r.puntero] /\ memoria' = r.memoria
  BY DEF EscribeTrayendo, FalloDeCache
<1> HIDE DEF r
<1>2. /\ r.cache \in Seq(EntradaCache) /\ Len(r.cache) <= EntradasCache[c]
      /\ r.puntero \in Nat \ {0} /\ r.puntero <= EntradasCache[c]
      /\ r.memoria \in [Marcos -> Datos]
      /\ r.propia \in BOOLEAN
      /\ r.propia => SuMarco(corre[c], n, Marco(tlb[c], corre[c], n))
      /\ \E k : Trajo(c, n, r.cache, r.memoria, k, r.propia) /\ r.cache[k] = Nueva(c, n)
  <2>1. r = Trae(c, n)
    BY DEF r
  <2>2. Ejecuta(c, n) /\ EntradasCache[c] > 0 /\ Responde(c, n)
    BY <1>1
  <2> QED BY <2>1, <2>2, TraeProps, Zenon
<1>3. PICK k : Trajo(c, n, r.cache, r.memoria, k, r.propia) /\ r.cache[k] = Nueva(c, n)
  BY <1>2
<1>4. \A i \in DOMAIN r.cache : r.cache[i] \in EntradaCache
  BY <1>2, ElementOfSeq, LenProperties
<1>5. /\ \A i \in DOMAIN r.cache : ch[i] \in EntradaCache
      /\ ch = [i \in DOMAIN r.cache |-> ch[i]]
  BY <1>4, ConfigOk DEF Escrita, EntradaCache
<1>6. ch \in Seq(EntradaCache) /\ Len(ch) = Len(r.cache) /\ DOMAIN ch = DOMAIN r.cache
  <2> HIDE DEF ch
  <2> QED BY <1>2, <1>5, MismaForma
<1>7. ch[k] = Escrita(Nueva(c, n), d)
  <2>1. k \in DOMAIN r.cache /\ r.cache[k].pagina = n
    BY <1>3 DEF Trajo, Nueva
  <2> QED BY <1>3, <2>1
<1>8. \A i \in DOMAIN ch \ {k} : i \in DOMAIN cache[c] /\ SoloUso(ch[i], cache[c][i])
  <2> SUFFICES ASSUME NEW i \in DOMAIN ch \ {k}
               PROVE  i \in DOMAIN cache[c] /\ SoloUso(ch[i], cache[c][i])
    OBVIOUS
  <2>1. i \in DOMAIN cache[c] /\ SoloUso(r.cache[i], cache[c][i])
    BY <1>3, <1>6 DEF Trajo
  <2>2. r.cache[i].pagina # n
    BY <1>1, <2>1 DEF SoloUso, EnCache
  <2> QED BY <1>6, <2>1, <2>2
<1>9. Trajo(c, n, ch, r.memoria, k, sano')
  <2>1. sano' => r.propia
    BY <1>1
  <2> QED BY <1>3, <1>6, <1>8, <2>1 DEF Trajo
<1>13. sano \in BOOLEAN
  BY DEF Inv, TypeOK
<1>10. Len(ch) <= EntradasCache[c]
  BY <1>2, <1>6
<1> HIDE DEF ch
<1>11. /\ Listas' /\ tlb'[c] = TlbTrasTraducir(c, n) /\ cache'[c] = ch
       /\ \A b \in CPUs \ {c} : tlb'[b] = tlb[b] /\ cache'[b] = cache[b]
  BY <1>1, <1>6, <1>2, <1>10, FalloProps, InvPartes, ListasCambian
<1>12. puntero' \in [CPUs -> Nat \ {0}] /\ PunteroEnLista'
  BY <1>1, <1>2 DEF Inv, TypeOK, PunteroEnLista
<1> QED BY <1>1, <1>2, <1>7, <1>9, <1>11, <1>12, <1>13

(* A translation without the cache.                                        *)
LEMMA TraduceEfecto ==
  ASSUME Inv, NEW c \in CPUs, NEW n, Ejecuta(c, n),
         tlb' = [tlb EXCEPT ![c] = TlbTrasTraducir(c, n)], cache' = cache
  PROVE  /\ Listas' /\ tlb'[c] = TlbTrasTraducir(c, n)
         /\ \A d \in CPUs \ {c} : tlb'[d] = tlb[d]
<1>1. /\ TlbTrasTraducir(c, n) \in Seq(EntradaTlb)
      /\ Len(TlbTrasTraducir(c, n)) <= EntradasTlb[c]
  BY EjecutaProps, TlbTrasTraducirProps DEF Inv
<1>2. Listas
  BY InvPartes
<1>3. tlb' = [d \in CPUs |-> IF d = c THEN TlbTrasTraducir(c, n) ELSE tlb[d]]
  BY <1>2 DEF Listas, Funciones
<1>4. Funciones'
  BY <1>2, <1>3 DEF Funciones, Listas
<1> QED BY <1>1, <1>2, <1>3, <1>4 DEF Listas

(* A process arrives: the lists of the CPU stay or are cleared.            *)
LEMMA AtenderDispatchEfecto ==
  ASSUME Inv, NEW c \in CPUs, NEW p \in Procesos, AtenderDispatch(c, p)
  PROVE  /\ Listas'
         /\ \A d \in CPUs \ {c} : tlb'[d] = tlb[d] /\ cache'[d] = cache[d]
         /\ IF Limpia(c, p)
            THEN tlb'[c] = <<>> /\ cache'[c] = <<>>
            ELSE tlb'[c] = tlb[c] /\ cache'[c] = cache[c]
<1> DEFINE t == IF Limpia(c, p) THEN <<>> ELSE tlb[c]
           ch == IF Limpia(c, p) THEN <<>> ELSE cache[c]
<1>1. Listas /\ EntradasTlb[c] \in Nat /\ EntradasCache[c] \in Nat
  BY InvPartes, ConfigOk
<1>2. tlb' = [tlb EXCEPT ![c] = t] /\ cache' = [cache EXCEPT ![c] = ch]
  BY DEF AtenderDispatch
<1>3. /\ t \in Seq(EntradaTlb) /\ Len(t) <= EntradasTlb[c]
      /\ ch \in Seq(EntradaCache) /\ Len(ch) <= EntradasCache[c]
  BY <1>1, EmptySeq DEF Listas
<1> HIDE DEF t, ch
<1>4. /\ Listas' /\ tlb'[c] = t /\ cache'[c] = ch
      /\ \A d \in CPUs \ {c} : tlb'[d] = tlb[d] /\ cache'[d] = cache[d]
  BY <1>1, <1>2, <1>3, ListasCambian
<1> QED BY <1>4 DEF t, ch

(* What is sent to memory when a process leaves for an IO.                 *)
LEMMA EnviarProps ==
  ASSUME Inv, NEW c \in CPUs
  PROVE  /\ MemoriaTrasEnviar(c) \in [Marcos -> Datos]
         /\ \A f \in Marcos :
              \/ /\ \A i \in Modificadas(c) : cache[c][i].marco # f
                 /\ MemoriaTrasEnviar(c)[f] = memoria[f]
              \/ \E i \in Modificadas(c) :
                   /\ cache[c][i].marco = f
                   /\ MemoriaTrasEnviar(c)[f] = SinFinal[cache[c][i].valor]
<1> DEFINE Bien(f) ==
             \/ /\ \A i \in Modificadas(c) : cache[c][i].marco # f
                /\ MemoriaTrasEnviar(c)[f] = memoria[f]
             \/ \E i \in Modificadas(c) :
                  /\ cache[c][i].marco = f
                  /\ MemoriaTrasEnviar(c)[f] = SinFinal[cache[c][i].valor]
<1>1. Listas /\ memoria \in [Marcos -> Datos]
  BY InvPartes DEF TipoResto
<1>2. ASSUME NEW f \in Marcos PROVE Bien(f)
  <2> DEFINE van == {i \in Modificadas(c) : cache[c][i].marco = f}
             u == CHOOSE i \in van : \A j \in van : j <= i
  <2>1. MemoriaTrasEnviar(c)[f] = IF van = {} THEN memoria[f]
                                  ELSE SinFinal[cache[c][u].valor]
    BY DEF MemoriaTrasEnviar
  <2>2. CASE van = {}
    BY <2>1, <2>2
  <2>3. CASE van # {}
    <3>1. van \subseteq 1 .. Len(cache[c]) /\ Len(cache[c]) \in Nat
      BY <1>1, LenProperties DEF Listas, Modificadas
    <3> HIDE DEF van
    <3>2. \E i \in van : \A j \in van : j <= i
      BY <2>3, <3>1, UltimaEsta
    <3>3. u \in van
      BY <3>2
    <3> QED BY <2>1, <2>3, <3>3 DEF van
  <2> QED BY <2>2, <2>3
<1>3. \A f \in Marcos : MemoriaTrasEnviar(c)[f] \in Datos
  <2> SUFFICES ASSUME NEW f \in Marcos PROVE MemoriaTrasEnviar(c)[f] \in Datos
    OBVIOUS
  <2>1. \A i \in Modificadas(c) : SinFinal[cache[c][i].valor] \in Datos
    BY <1>1, EntradaTipo, ConfigOk DEF Modificadas, EntradaCache
  <2> QED BY <1>1, <1>2, <2>1
<1>4. MemoriaTrasEnviar(c) = [f \in Marcos |-> MemoriaTrasEnviar(c)[f]]
  BY DEF MemoriaTrasEnviar
<1> QED BY <1>2, <1>3, <1>4

LEMMA InvInit == Init => Inv
<1> SUFFICES ASSUME Init PROVE Inv
  OBVIOUS
<1>1. Funciones /\ PunteroEnLista
  BY ConfigOk DEF Init, Funciones, PunteroEnLista
<1>2. Listas
  <2>1. \A c \in CPUs : /\ tlb[c] = <<>> /\ cache[c] = <<>>
                        /\ EntradasTlb[c] \in Nat /\ EntradasCache[c] \in Nat
    BY ConfigOk DEF Init
  <2>2. \A S : <<>> \in Seq(S) /\ Len(<<>>) = 0
    BY EmptySeq
  <2>3. ASSUME NEW c \in CPUs
        PROVE  /\ tlb[c] \in Seq(EntradaTlb) /\ Len(tlb[c]) <= EntradasTlb[c]
               /\ cache[c] \in Seq(EntradaCache) /\ Len(cache[c]) <= EntradasCache[c]
    <3>1. Len(<<>>) = 0 /\ <<>> \in Seq(EntradaTlb) /\ <<>> \in Seq(EntradaCache)
      BY <2>2
    <3>2. EntradasTlb[c] >= 0 /\ EntradasCache[c] >= 0
      BY <2>1
    <3> QED BY <2>1, <3>1, <3>2
  <2> QED BY <1>1, <2>3 DEF Listas
<1>3. TipoResto
  BY <1>1, ConfigOk DEF Init, TipoResto, Marcos
<1> QED BY <1>2, <1>3, InvPartes

(* Every action keeps the types, the sizes and the hand.                   *)
LEMMA InvPaso == Inv /\ [Next]_vars => Inv'
<1> SUFFICES ASSUME Inv, [Next]_vars PROVE Listas' /\ TipoResto'
  BY DEF Inv, TypeOK, Listas, TipoResto, EntradaTlb, EntradaCache
<1>0. Listas /\ TipoResto
  BY InvPartes
<1> USE DEF varsCpu, varsMem, varsGuarda, varsHist
<1>1. ASSUME NEW c \in CPUs, NEW n, LeeDeCache(c, n) PROVE Listas' /\ TipoResto'
  BY <1>0, <1>1, LeeDeCacheEfecto DEF LeeDeCache, TipoResto, PunteroEnLista
<1>2. ASSUME NEW c \in CPUs, NEW n, LeeTrayendo(c, n) PROVE Listas' /\ TipoResto'
  BY <1>0, <1>2, LeeTrayendoEfecto DEF LeeTrayendo, TipoResto
<1>3. ASSUME NEW c \in CPUs, NEW n, LeeDeMemoria(c, n) PROVE Listas' /\ TipoResto'
  BY <1>0, <1>3, TraduceEfecto DEF LeeDeMemoria, Accede, TipoResto, PunteroEnLista
<1>4. ASSUME NEW c \in CPUs, NEW n, NEW d \in Datos, EscribeEnCache(c, n, d)
      PROVE  Listas' /\ TipoResto'
  <2>1. Listas'
    BY <1>4, EscribeEnCacheEfecto
  <2>2. ultimo' \in [Paginas -> Datos] /\ devuelta' \subseteq Paginas
    BY <1>0, <1>4 DEF EscribeEnCache, Anota, TipoResto
  <2> QED BY <1>0, <1>4, <2>1, <2>2 DEF EscribeEnCache, TipoResto, PunteroEnLista
<1>5. ASSUME NEW c \in CPUs, NEW n, NEW d \in Datos, EscribeTrayendo(c, n, d)
      PROVE  Listas' /\ TipoResto'
  <2>1. ultimo' \in [Paginas -> Datos] /\ devuelta' \subseteq Paginas
    BY <1>0, <1>5 DEF EscribeTrayendo, Anota, TipoResto
  <2> QED BY <1>0, <1>5, <2>1, EscribeTrayendoEfecto DEF EscribeTrayendo, TipoResto
<1>6. ASSUME NEW c \in CPUs, NEW n, NEW d \in Datos, EscribeEnMemoria(c, n, d)
      PROVE  Listas' /\ TipoResto'
  <2>1. Listas'
    BY <1>6, TraduceEfecto DEF EscribeEnMemoria, Accede
  <2>2. ultimo' \in [Paginas -> Datos] /\ devuelta' \subseteq Paginas
    BY <1>0, <1>6 DEF EscribeEnMemoria, Anota, TipoResto
  <2>3. memoria' \in [Marcos -> Datos]
    BY <1>0, <1>6 DEF EscribeEnMemoria, TipoResto
  <2>4. sano' \in BOOLEAN
    BY <1>0, <1>6 DEF EscribeEnMemoria, SuMarco, TipoResto
  <2> QED BY <1>0, <1>6, <2>1, <2>2, <2>3, <2>4
          DEF EscribeEnMemoria, TipoResto, PunteroEnLista
<1>7. ASSUME NEW c \in CPUs, NEW n, NEW b \in BOOLEAN, SinRespuesta(c, n, b)
      PROVE  Listas' /\ TipoResto'
  <2>1. Listas'
    BY <1>7, TraduceEfecto DEF SinRespuesta, FalloDeCache
  <2> QED BY <1>0, <1>7, <2>1 DEF SinRespuesta, TipoResto, PunteroEnLista
<1>8. ASSUME NEW c \in CPUs, NEW n, LeeFuera(c, n) PROVE Listas' /\ TipoResto'
  <2>1. Listas'
    BY <1>8, TraduceEfecto DEF LeeFuera, Accede
  <2> QED BY <1>0, <1>8, <2>1 DEF LeeFuera, TipoResto, PunteroEnLista
<1>9. ASSUME NEW c \in CPUs, NEW p \in Procesos, AtenderDispatch(c, p)
      PROVE  Listas' /\ TipoResto'
  <2>1. Listas'
    BY <1>9, AtenderDispatchEfecto
  <2>2. fiel' \in [Procesos -> BOOLEAN]
    <3>1. fiel[p] \in BOOLEAN /\ SigueFiel(c, p) \in BOOLEAN
      BY <1>0 DEF TipoResto, SigueFiel
    <3> QED BY <1>0, <1>9, <3>1 DEF AtenderDispatch, Toma, TipoResto
  <2>3. vieja' \subseteq CPUs
    BY <1>0, <1>9 DEF AtenderDispatch, Envejece, TipoResto
  <2>4. /\ corre' \in [CPUs -> Procesos \cup {Nadie}]
        /\ ultima' \in [Procesos -> CPUs \cup {Nadie}]
        /\ bloqueados' \subseteq SeSuspenden
    BY <1>0, <1>9 DEF AtenderDispatch, Toma, TipoResto
  <2> QED BY <1>0, <1>9, <2>1, <2>2, <2>3, <2>4
          DEF AtenderDispatch, Toma, TipoResto, PunteroEnLista
<1>10. ASSUME NEW c \in CPUs, Deja(c)
       PROVE  /\ corre' \in [CPUs -> Procesos \cup {Nadie}]
              /\ anterior' \in [CPUs -> Procesos \cup {Nadie}]
  BY <1>0, <1>10 DEF Deja, TipoResto
<1>11. ASSUME NEW c \in CPUs, SyscallIO(c) PROVE Listas' /\ TipoResto'
  <2>1. memoria' \in [Marcos -> Datos]
    BY <1>11, EnviarProps DEF SyscallIO
  <2>2. bloqueados' \subseteq SeSuspenden /\ guardado' \in [Procesos -> BOOLEAN]
    BY <1>0, <1>11 DEF SyscallIO, SeBloquea, TipoResto
  <2>3. sano' \in BOOLEAN
    BY <1>0, <1>11 DEF SyscallIO, EnvioPropio, TipoResto
  <2> QED BY <1>0, <1>10, <1>11, <2>1, <2>2, <2>3, ListasFijas
          DEF SyscallIO, TipoResto, PunteroEnLista
<1>12. ASSUME NEW c \in CPUs, SyscallIOSinRespuesta(c) PROVE Listas' /\ TipoResto'
  BY <1>0, <1>12, ListasFijas DEF SyscallIOSinRespuesta, TipoResto, PunteroEnLista
<1>13. ASSUME NEW c \in CPUs, SinEnviar(c), bloqueados' \subseteq SeSuspenden
       PROVE  Listas' /\ TipoResto'
  <2>1. guardado' \in [Procesos -> BOOLEAN]
    BY <1>0, <1>13 DEF SinEnviar, TipoResto
  <2> QED BY <1>0, <1>10, <1>13, <2>1, ListasFijas DEF SinEnviar, TipoResto, PunteroEnLista
<1>14. ASSUME NEW c \in CPUs, SyscallDump(c) \/ Desaloja(c) PROVE Listas' /\ TipoResto'
  <2>1. SinEnviar(c)
    BY <1>14 DEF SyscallDump, Desaloja
  <2>2. bloqueados' \subseteq SeSuspenden
    BY <1>0, <1>14 DEF SyscallDump, Desaloja, SeBloquea, TipoResto
  <2> QED BY <1>13, <2>1, <2>2
<1>15. ASSUME NEW c \in CPUs, SyscallExit(c) PROVE Listas' /\ TipoResto'
  BY <1>0, <1>10, <1>15, ListasFijas DEF SyscallExit, TipoResto, PunteroEnLista
<1>16. ASSUME NEW p \in Procesos, EliminaProceso(p) \/ SuspendeProceso(p)
       PROVE  Listas' /\ TipoResto'
  BY <1>0, <1>16, ListasFijas DEF EliminaProceso, SuspendeProceso, TipoResto,
     PunteroEnLista
<1>17. ASSUME NEW p \in Procesos, DesuspendeProceso(p) PROVE Listas' /\ TipoResto'
  <2>1. tabla' \in [Paginas -> Marcos]
    BY <1>0, <1>17 DEF DesuspendeProceso, TipoResto
  <2>2. /\ devuelta' \subseteq Paginas /\ vieja' \subseteq CPUs
        /\ enMemoria' \subseteq Procesos
    BY <1>0, <1>17 DEF DesuspendeProceso, TipoResto
  <2> QED BY <1>0, <1>17, <2>1, <2>2, ListasFijas
          DEF DesuspendeProceso, TipoResto, PunteroEnLista
<1>18. CASE UNCHANGED vars
  BY <1>0, <1>18, ListasFijas DEF vars, TipoResto, PunteroEnLista
<1> QED BY <1>1, <1>2, <1>3, <1>4, <1>5, <1>6, <1>7, <1>8, <1>9, <1>11, <1>12, <1>14,
           <1>15, <1>16, <1>17, <1>18 DEF Next, Instruccion

(* Types of the MMU of every CPU; the TLB and the cache never hold more    *)
(* than the configuration gives them, whatever the policies.               *)
THEOREM TiposSiempre == Spec => []TypeOK
<1>1. Inv => TypeOK
  BY DEF Inv
<1> QED BY <1>1, InvInit, InvPaso, PTL DEF Spec

------------------------------------------------------------------------------
(* Translations.                                                           *)

CacheDe(ch, q) == \A i \in DOMAIN ch : ch[i].pid = q /\ <<q, ch[i].pagina>> \in Paginas

UnaVez(ch) == \A i, j \in DOMAIN ch : ch[i].pagina = ch[j].pagina => i = j

(* What a CPU keeps is of one process, each page once; it has nothing      *)
(* before its first process.                                               *)
Conserva(c) == /\ CacheDe(cache[c], Duenio(c)) /\ UnaVez(cache[c])
               /\ Duenio(c) = Nadie => DOMAIN tlb[c] = {}

Ubicada(l, q) == \A i \in DOMAIN l : SuMarco(q, l[i].pagina, l[i].marco)

Acierta(c) == c \notin vieja /\ BienUbicado(Duenio(c)) =>
                Ubicada(tlb[c], Duenio(c)) /\ Ubicada(cache[c], Duenio(c))

UnaCpu == \A c, d \in CPUs : corre[c] = corre[d] /\ corre[c] # Nadie => c = d

(* What runs is in memory, and waits for nothing.                          *)
Corren == \A c \in CPUs : corre[c] # Nadie =>
            corre[c] \in vivos \cap enMemoria /\ corre[c] \notin bloqueados

(* No two pages in memory share a frame.                                   *)
Inyectiva == \A x, y \in Paginas :
               x[1] \in enMemoria /\ y[1] \in enMemoria /\ tabla[x] = tabla[y] => x = y

Lugares == UnaCpu /\ Corren /\ Inyectiva

Propias == \A c \in CPUs : Conserva(c) /\ Acierta(c)

InvPropia == Inv /\ Lugares /\ Propias

LEMMA EjecutaPropia ==
  ASSUME InvPropia, NEW c \in CPUs, NEW n, Ejecuta(c, n)
  PROVE  /\ Duenio(c) = corre[c] /\ corre[c] # Nadie /\ corre[c] \in enMemoria
         /\ <<corre[c], n>> \in Paginas
         /\ CacheDe(cache[c], corre[c]) /\ UnaVez(cache[c])
         /\ c \notin vieja /\ BienUbicado(corre[c]) =>
              Ubicada(tlb[c], corre[c]) /\ Ubicada(cache[c], corre[c])
<1>1. Duenio(c) = corre[c] /\ corre[c] # Nadie /\ <<corre[c], n>> \in Paginas
  BY DEF Ejecuta, Duenio
<1>2. corre[c] \in enMemoria
  BY <1>1 DEF InvPropia, Lugares, Corren
<1>3. Conserva(c) /\ Acierta(c)
  BY DEF InvPropia, Propias
<1> QED BY <1>1, <1>2, <1>3 DEF Conserva, Acierta

(* Where memory finds the pages of a process by their number, what it      *)
(* answers is the page's frame.                                            *)
LEMMA MarcoDeSuyo ==
  ASSUME NEW p \in enMemoria, BienUbicado(p), NEW n, <<p, n>> \in Paginas
  PROVE  MarcoDe(p, n) = tabla[<<p, n>>]
<1>1. CASE TablaUnica
  <2>1. tabla[<<p, n>>] = n /\ <<p, n>>[1] = p
    BY <1>1 DEF BienUbicado
  <2>2. \E x \in Paginas : x[1] \in enMemoria /\ tabla[x] = n
    BY <2>1
  <2> QED BY <1>1, <2>1, <2>2 DEF MarcoDe
<1>2. CASE ~TablaUnica
  BY <1>2 DEF MarcoDe
<1> QED BY <1>1, <1>2

LEMMA MarcoSuyo ==
  ASSUME NEW p \in enMemoria, BienUbicado(p), NEW t, Ubicada(t, p), NEW n,
         <<p, n>> \in Paginas
  PROVE  Marco(t, p, n) = tabla[<<p, n>>]
<1>1. CASE EnTlb(t, n) # {}
  <2>1. PICK i \in DOMAIN t : t[i].pagina = n /\ Marco(t, p, n) = t[i].marco
    BY <1>1 DEF Marco, EnTlb
  <2> QED BY <2>1 DEF Ubicada, SuMarco
<1>2. CASE EnTlb(t, n) = {}
  BY <1>2, MarcoDeSuyo DEF Marco
<1> QED BY <1>1, <1>2

(* A translation leaves in the TLB of a CPU that keeps nothing old only    *)
(* the process's own frames, and gives it the page's own.                  *)
LEMMA TraducePropia ==
  ASSUME InvPropia, NEW c \in CPUs, NEW n, Ejecuta(c, n),
         c \notin vieja, BienUbicado(corre[c])
  PROVE  /\ Ubicada(TlbTrasTraducir(c, n), corre[c])
         /\ SuMarco(corre[c], n, Marco(tlb[c], corre[c], n))
<1>1. /\ <<corre[c], n>> \in Paginas /\ TypeOK /\ corre[c] \in enMemoria
      /\ Ubicada(tlb[c], corre[c])
  BY EjecutaPropia DEF InvPropia, Inv
<1>2. Ubicada(TlbTrasTraducir(c, n), corre[c])
  <2> DEFINE t == TlbTrasTraducir(c, n)
  <2> SUFFICES ASSUME NEW k \in DOMAIN t
               PROVE  SuMarco(corre[c], t[k].pagina, t[k].marco)
    BY DEF Ubicada
  <2>1. \/ t[k] = [pagina |-> n, marco |-> MarcoDe(corre[c], n)]
        \/ \E j \in DOMAIN tlb[c] : t[k] = tlb[c][j]
    BY <1>1, TlbTrasTraducirProps
  <2> HIDE DEF t
  <2>2. CASE t[k] = [pagina |-> n, marco |-> MarcoDe(corre[c], n)]
    BY <1>1, <2>2, MarcoDeSuyo DEF SuMarco
  <2>3. CASE \E j \in DOMAIN tlb[c] : t[k] = tlb[c][j]
    BY <1>1, <2>3 DEF Ubicada
  <2> QED BY <2>1, <2>2, <2>3
<1> QED BY <1>1, <1>2, MarcoSuyo DEF SuMarco

(* A miss brings a page of the process, once, with the frame that the      *)
(* translation gave.                                                       *)
LEMMA TrajoPropia ==
  ASSUME InvPropia, NEW c \in CPUs, NEW n, FalloDeCache(c, n),
         NEW ch, NEW m, NEW k, NEW s, Trajo(c, n, ch, m, k, s),
         ch[k].pagina = n, ch[k].pid = corre[c],
         ch[k].marco = Marco(tlb[c], corre[c], n)
  PROVE  /\ CacheDe(ch, corre[c]) /\ UnaVez(ch)
         /\ c \notin vieja /\ BienUbicado(corre[c]) => Ubicada(ch, corre[c])
<1>1. Ejecuta(c, n) /\ \A i \in DOMAIN cache[c] : cache[c][i].pagina # n
  BY DEF FalloDeCache, EnCache
<1>2. /\ CacheDe(cache[c], corre[c]) /\ UnaVez(cache[c]) /\ <<corre[c], n>> \in Paginas
      /\ c \notin vieja /\ BienUbicado(corre[c]) => Ubicada(cache[c], corre[c])
  BY <1>1, EjecutaPropia
<1>3. \A i \in DOMAIN ch \ {k} :
        /\ i \in DOMAIN cache[c] /\ ch[i].pagina = cache[c][i].pagina
        /\ ch[i].pid = cache[c][i].pid /\ ch[i].marco = cache[c][i].marco
  BY DEF Trajo, SoloUso
<1>4. CacheDe(ch, corre[c])
  BY <1>2, <1>3 DEF CacheDe
<1>5. UnaVez(ch)
  BY <1>1, <1>2, <1>3 DEF UnaVez
<1>6. ASSUME c \notin vieja, BienUbicado(corre[c]) PROVE Ubicada(ch, corre[c])
  <2>1. SuMarco(corre[c], n, ch[k].marco)
    BY <1>1, <1>6, TraducePropia
  <2> QED BY <1>2, <1>3, <1>6, <2>1 DEF Ubicada
<1> QED BY <1>4, <1>5, <1>6

(* An instruction changes the lists of one CPU, and no process comes or    *)
(* goes.                                                                   *)
LEMMA PropiasDeUna ==
  ASSUME InvPropia, NEW c \in CPUs,
         UNCHANGED <<corre, anterior, varsMem, vieja>>,
         \A d \in CPUs \ {c} : tlb'[d] = tlb[d] /\ cache'[d] = cache[d],
         corre[c] # Nadie, CacheDe(cache'[c], corre[c]), UnaVez(cache'[c]),
         c \notin vieja /\ BienUbicado(corre[c]) =>
           Ubicada(tlb'[c], corre[c]) /\ Ubicada(cache'[c], corre[c])
  PROVE  Lugares' /\ Propias'
<1>1. /\ Duenio(c) = corre[c] /\ \A d \in CPUs : Duenio(d)' = Duenio(d)
      /\ UNCHANGED <<corre, vivos, bloqueados, enMemoria, tabla>>
  BY DEF Duenio, varsMem
<1>2. Lugares'
  BY <1>1 DEF InvPropia, Lugares, UnaCpu, Corren, Inyectiva
<1>3. \A p : BienUbicado(p)' <=> BienUbicado(p)
  BY <1>1 DEF BienUbicado
<1>4. \A l, q : \A i \in DOMAIN l : SuMarco(q, l[i].pagina, l[i].marco)' <=>
                                    SuMarco(q, l[i].pagina, l[i].marco)
  BY <1>1 DEF SuMarco
<1>5. ASSUME NEW d \in CPUs PROVE Conserva(d)'
  <2>1. CASE d = c
    BY <1>1, <2>1 DEF Conserva, CacheDe, UnaVez
  <2>2. CASE d # c
    BY <1>1, <2>2 DEF InvPropia, Propias, Conserva, CacheDe, UnaVez
  <2> QED BY <2>1, <2>2
<1>6. ASSUME NEW d \in CPUs PROVE Acierta(d)'
  <2>1. CASE d = c
    BY <1>1, <1>3, <2>1 DEF Acierta, Ubicada, SuMarco
  <2>2. CASE d # c
    <3>1. Acierta(d)
      BY DEF InvPropia, Propias
    <3> QED BY <1>1, <1>3, <2>2, <3>1 DEF Acierta, Ubicada, SuMarco
  <2> QED BY <2>1, <2>2
<1> QED BY <1>2, <1>5, <1>6 DEF Propias

LEMMA PropiaInstruccion ==
  ASSUME InvPropia, NEW c \in CPUs, NEW n, Instruccion(c, n)
  PROVE  Lugares' /\ Propias'
<1>0. Inv /\ Listas
  BY InvPartes DEF InvPropia
<1> USE DEF varsCpu, varsHist
<1>1. ASSUME LeeDeCache(c, n) PROVE Lugares' /\ Propias'
  <2>1. /\ Ejecuta(c, n) /\ tlb' = tlb
        /\ UNCHANGED <<corre, anterior, varsMem, vieja>>
    BY <1>1 DEF LeeDeCache
  <2>2. /\ corre[c] # Nadie /\ CacheDe(cache[c], corre[c]) /\ UnaVez(cache[c])
        /\ c \notin vieja /\ BienUbicado(corre[c]) =>
             Ubicada(tlb[c], corre[c]) /\ Ubicada(cache[c], corre[c])
    BY <2>1, EjecutaPropia
  <2>3. /\ \A d \in CPUs \ {c} : cache'[d] = cache[d]
        /\ DOMAIN cache'[c] = DOMAIN cache[c]
        /\ \A i \in DOMAIN cache[c] : SoloUso(cache'[c][i], cache[c][i])
    BY <1>0, <1>1, LeeDeCacheEfecto
  <2>4. CacheDe(cache'[c], corre[c]) /\ UnaVez(cache'[c])
    BY <2>2, <2>3 DEF CacheDe, UnaVez, SoloUso
  <2>5. Ubicada(cache[c], corre[c]) => Ubicada(cache'[c], corre[c])
    BY <2>3 DEF Ubicada, SoloUso
  <2> QED BY <2>1, <2>2, <2>3, <2>4, <2>5, PropiasDeUna
<1>2. ASSUME NEW d \in Datos, EscribeEnCache(c, n, d) PROVE Lugares' /\ Propias'
  <2>1. /\ Ejecuta(c, n) /\ tlb' = tlb
        /\ UNCHANGED <<corre, anterior, varsMem, vieja>>
    BY <1>2 DEF EscribeEnCache
  <2>2. /\ corre[c] # Nadie /\ CacheDe(cache[c], corre[c]) /\ UnaVez(cache[c])
        /\ c \notin vieja /\ BienUbicado(corre[c]) =>
             Ubicada(tlb[c], corre[c]) /\ Ubicada(cache[c], corre[c])
    BY <2>1, EjecutaPropia
  <2>3. /\ \A b \in CPUs \ {c} : cache'[b] = cache[b]
        /\ DOMAIN cache'[c] = DOMAIN cache[c]
        /\ \E i \in EnCache(c, n) :
             \A j \in DOMAIN cache[c] :
               cache'[c][j] = IF j = i THEN Escrita(cache[c][i], d) ELSE cache[c][j]
    BY <1>0, <1>2, EscribeEnCacheEfecto
  <2>4. \A i \in DOMAIN cache[c] : cache[c][i] \in EntradaCache
    BY <1>0, EntradaTipo
  <2>5. \A i \in DOMAIN cache[c] :
          /\ cache'[c][i].pagina = cache[c][i].pagina
          /\ cache'[c][i].pid = cache[c][i].pid
          /\ cache'[c][i].marco = cache[c][i].marco
    <3>1. ASSUME NEW e \in EntradaCache
          PROVE  /\ Escrita(e, d).pagina = e.pagina /\ Escrita(e, d).pid = e.pid
                 /\ Escrita(e, d).marco = e.marco
      BY DEF Escrita, EntradaCache
    <3> HIDE DEF EntradaCache
    <3> QED BY <2>3, <2>4, <3>1
  <2>6. CacheDe(cache'[c], corre[c]) /\ UnaVez(cache'[c])
    BY <2>2, <2>3, <2>5 DEF CacheDe, UnaVez
  <2>7. Ubicada(cache[c], corre[c]) => Ubicada(cache'[c], corre[c])
    BY <2>3, <2>5 DEF Ubicada
  <2> QED BY <2>1, <2>2, <2>3, <2>6, <2>7, PropiasDeUna
<1>3. ASSUME FalloDeCache(c, n), UNCHANGED <<corre, anterior, varsMem, vieja>>,
             tlb'[c] = TlbTrasTraducir(c, n),
             \A d \in CPUs \ {c} : tlb'[d] = tlb[d] /\ cache'[d] = cache[d],
             NEW k, Trajo(c, n, cache'[c], memoria', k, sano'),
             cache'[c][k].pagina = n, cache'[c][k].pid = corre[c],
             cache'[c][k].marco = Marco(tlb[c], corre[c], n)
      PROVE  Lugares' /\ Propias'
  <2>1. Ejecuta(c, n) /\ corre[c] # Nadie
    BY <1>3 DEF FalloDeCache, Ejecuta
  <2>2. /\ CacheDe(cache'[c], corre[c]) /\ UnaVez(cache'[c])
        /\ c \notin vieja /\ BienUbicado(corre[c]) => Ubicada(cache'[c], corre[c])
    BY <1>3, TrajoPropia
  <2>3. c \notin vieja /\ BienUbicado(corre[c]) => Ubicada(tlb'[c], corre[c])
    BY <1>3, <2>1, TraducePropia
  <2> QED BY <1>3, <2>1, <2>2, <2>3, PropiasDeUna
<1>4. ASSUME LeeTrayendo(c, n) PROVE Lugares' /\ Propias'
  <2>1. FalloDeCache(c, n) /\ UNCHANGED <<corre, anterior, varsMem, vieja>>
    BY <1>4 DEF LeeTrayendo
  <2>2. /\ tlb'[c] = TlbTrasTraducir(c, n)
        /\ \A d \in CPUs \ {c} : tlb'[d] = tlb[d] /\ cache'[d] = cache[d]
        /\ \E k : /\ Trajo(c, n, cache'[c], memoria', k, sano')
                 /\ cache'[c][k] = Nueva(c, n)
    BY <1>0, <1>4, LeeTrayendoEfecto
  <2>3. PICK k : /\ Trajo(c, n, cache'[c], memoria', k, sano')
                 /\ cache'[c][k] = Nueva(c, n)
    BY <2>2
  <2>4. /\ cache'[c][k].pagina = n /\ cache'[c][k].pid = corre[c]
        /\ cache'[c][k].marco = Marco(tlb[c], corre[c], n)
    BY <2>3 DEF Nueva
  <2> QED BY <1>3, <2>1, <2>2, <2>3, <2>4
<1>5. ASSUME NEW d \in Datos, EscribeTrayendo(c, n, d) PROVE Lugares' /\ Propias'
  <2>1. FalloDeCache(c, n) /\ UNCHANGED <<corre, anterior, varsMem, vieja>>
    BY <1>5 DEF EscribeTrayendo
  <2>2. /\ tlb'[c] = TlbTrasTraducir(c, n)
        /\ \A b \in CPUs \ {c} : tlb'[b] = tlb[b] /\ cache'[b] = cache[b]
        /\ \E k : /\ Trajo(c, n, cache'[c], memoria', k, sano')
                 /\ cache'[c][k] = Escrita(Nueva(c, n), d)
    BY <1>0, <1>5, EscribeTrayendoEfecto
  <2>3. PICK k : /\ Trajo(c, n, cache'[c], memoria', k, sano')
                 /\ cache'[c][k] = Escrita(Nueva(c, n), d)
    BY <2>2
  <2>4. /\ cache'[c][k].pagina = n /\ cache'[c][k].pid = corre[c]
        /\ cache'[c][k].marco = Marco(tlb[c], corre[c], n)
    <3>1. /\ Escrita(Nueva(c, n), d).pagina = n
          /\ Escrita(Nueva(c, n), d).pid = corre[c]
          /\ Escrita(Nueva(c, n), d).marco = Marco(tlb[c], corre[c], n)
      BY DEF Nueva, Escrita
    <3> QED BY <2>3, <3>1
  <2> QED BY <1>3, <2>1, <2>2, <2>3, <2>4
<1>6. ASSUME Ejecuta(c, n), tlb' = [tlb EXCEPT ![c] = TlbTrasTraducir(c, n)],
             UNCHANGED <<corre, anterior, cache, varsMem, vieja>>
      PROVE  Lugares' /\ Propias'
  <2>1. /\ tlb'[c] = TlbTrasTraducir(c, n)
        /\ \A d \in CPUs \ {c} : tlb'[d] = tlb[d]
    BY <1>0, <1>6, TraduceEfecto
  <2>2. /\ corre[c] # Nadie /\ CacheDe(cache[c], corre[c]) /\ UnaVez(cache[c])
        /\ c \notin vieja /\ BienUbicado(corre[c]) => Ubicada(cache[c], corre[c])
    BY <1>6, EjecutaPropia
  <2>3. c \notin vieja /\ BienUbicado(corre[c]) => Ubicada(tlb'[c], corre[c])
    BY <1>6, <2>1, TraducePropia
  <2> QED BY <1>6, <2>1, <2>2, <2>3, PropiasDeUna
<1>7. ASSUME \/ LeeDeMemoria(c, n) \/ LeeFuera(c, n)
             \/ \E d \in Datos : EscribeEnMemoria(c, n, d)
             \/ \E b \in BOOLEAN : SinRespuesta(c, n, b)
      PROVE  Lugares' /\ Propias'
  <2>1. /\ Ejecuta(c, n) /\ tlb' = [tlb EXCEPT ![c] = TlbTrasTraducir(c, n)]
        /\ UNCHANGED <<corre, anterior, cache, varsMem, vieja>>
    BY <1>7 DEF LeeDeMemoria, LeeFuera, EscribeEnMemoria, SinRespuesta, Accede, FalloDeCache
  <2> QED BY <1>6, <2>1
<1> QED BY <1>1, <1>2, <1>4, <1>5, <1>7 DEF Instruccion

(* The CPU that takes a process clears its lists, or keeps those of the    *)
(* same process, or is marked as one that kept what it should have dropped.*)
LEMMA PropiaDispatch ==
  ASSUME InvPropia, NEW c \in CPUs, NEW p \in Procesos, AtenderDispatch(c, p)
  PROVE  Lugares' /\ Propias'
<1>0. Inv /\ Listas
  BY InvPartes DEF InvPropia
<1>1. /\ corre[c] = Nadie /\ p \in vivos \cap enMemoria /\ \A d \in CPUs : corre[d] # p
      /\ corre' = [corre EXCEPT ![c] = p] /\ bloqueados' = bloqueados \ {p}
      /\ UNCHANGED <<anterior, tabla, vivos, enMemoria>> /\ p # Nadie
  BY ConfigOk DEF AtenderDispatch, Toma
<1>2. corre'[c] = p /\ \A d \in CPUs \ {c} : corre'[d] = corre[d]
  BY <1>0, <1>1 DEF Inv, TypeOK
<1>3. /\ Duenio(c) = anterior[c] /\ Duenio(c)' = p
      /\ \A d \in CPUs \ {c} : Duenio(d)' = Duenio(d)
  BY <1>1, <1>2 DEF Duenio
<1>4. /\ \A d \in CPUs \ {c} : tlb'[d] = tlb[d] /\ cache'[d] = cache[d]
      /\ IF Limpia(c, p) THEN tlb'[c] = <<>> /\ cache'[c] = <<>>
                         ELSE tlb'[c] = tlb[c] /\ cache'[c] = cache[c]
  BY <1>0, AtenderDispatchEfecto
<1>5. Lugares'
  <2>1. UnaCpu' /\ Corren'
    BY <1>1, <1>2 DEF InvPropia, Lugares, UnaCpu, Corren
  <2>2. Inyectiva'
    BY <1>1 DEF InvPropia, Lugares, Inyectiva
  <2> QED BY <2>1, <2>2 DEF Lugares
<1>6. \A d \in CPUs \ {c} : d \notin vieja' => d \notin vieja
  BY DEF AtenderDispatch, Envejece
<1>7. DOMAIN <<>> = {}
  <2>1. <<>> \in Seq(EntradaTlb) /\ Len(<<>>) = 0
    BY EmptySeq
  <2>2. DOMAIN <<>> = 1 .. 0
    BY <2>1, LenProperties
  <2> QED BY <2>2
<1>8. \/ anterior[c] = p /\ tlb'[c] = tlb[c] /\ cache'[c] = cache[c]
         /\ (c \notin vieja' => c \notin vieja)
      \/ DOMAIN tlb'[c] = {} /\ DOMAIN cache'[c] = {}
      \/ c \in vieja' /\ DOMAIN cache'[c] = {}
  <2>1. CASE Limpia(c, p)
    BY <1>4, <1>7, <2>1
  <2>2. CASE anterior[c] = p
    BY <1>4, <2>2 DEF AtenderDispatch, Envejece, Limpia
  <2>3. CASE anterior[c] = Nadie
    <3>1. Conserva(c) /\ Duenio(c) = Nadie
      BY <1>3, <2>3 DEF InvPropia, Propias
    <3>2. DOMAIN tlb[c] = {} /\ DOMAIN cache[c] = {}
      BY <3>1, PaginasProps, ConfigOk DEF Conserva, CacheDe
    <3>3. ~Limpia(c, p)
      BY <2>3 DEF Limpia
    <3> QED BY <1>4, <3>2, <3>3
  <2>4. CASE ~Limpia(c, p) /\ anterior[c] \notin {p, Nadie}
    <3>1. Len(cache[c]) = 0 /\ cache[c] \in Seq(EntradaCache)
      BY <1>0, <2>4, EntradaTipo DEF Limpia, Listas
    <3>2. DOMAIN cache'[c] = {}
      BY <1>4, <2>4, <3>1, LenProperties
    <3>3. tlb[c] = <<>> \/ c \in vieja'
      BY <2>4 DEF AtenderDispatch, Envejece
    <3> QED BY <1>4, <1>7, <2>4, <3>2, <3>3
  <2> QED BY <2>1, <2>2, <2>3, <2>4
<1>9. \A q : BienUbicado(q)' <=> BienUbicado(q)
  BY <1>1 DEF BienUbicado
<1>10. Conserva(c)' /\ Acierta(c)'
  <2>1. CASE /\ anterior[c] = p /\ tlb'[c] = tlb[c] /\ cache'[c] = cache[c]
             /\ (c \notin vieja' => c \notin vieja)
    <3>1. Conserva(c) /\ Acierta(c) /\ Duenio(c) = p
      BY <1>3, <2>1 DEF InvPropia, Propias
    <3>2. Conserva(c)'
      BY <1>1, <1>3, <2>1, <3>1 DEF Conserva, CacheDe, UnaVez
    <3>3. Acierta(c)'
      BY <1>1, <1>3, <1>9, <2>1, <3>1 DEF Acierta, Ubicada, SuMarco
    <3> QED BY <3>2, <3>3
  <2>2. CASE DOMAIN cache'[c] = {} /\ (c \in vieja' \/ DOMAIN tlb'[c] = {})
    BY <1>1, <1>3, <2>2 DEF Conserva, CacheDe, UnaVez, Acierta, Ubicada
  <2> QED BY <1>8, <2>1, <2>2
<1>11. ASSUME NEW d \in CPUs \ {c} PROVE Conserva(d)' /\ Acierta(d)'
  <2>1. Conserva(d) /\ Acierta(d)
    BY DEF InvPropia, Propias
  <2>2. Conserva(d)'
    BY <1>3, <1>4, <2>1 DEF Conserva, CacheDe, UnaVez
  <2>3. Acierta(d)'
    BY <1>1, <1>3, <1>4, <1>6, <1>9, <2>1 DEF Acierta, Ubicada, SuMarco
  <2> QED BY <2>2, <2>3
<1> QED BY <1>5, <1>10, <1>11 DEF Propias

LEMMA DejaDuenio ==
  ASSUME Inv, NEW c \in CPUs, Deja(c)
  PROVE  \A d \in CPUs : Duenio(d)' = Duenio(d)
BY DEF Inv, TypeOK, Deja, Duenio

LEMMA PropiasFijas ==
  ASSUME InvPropia, UNCHANGED <<tlb, cache, tabla, vieja>>,
         \A d \in CPUs : Duenio(d)' = Duenio(d)
  PROVE  Propias'
<1> SUFFICES ASSUME NEW d \in CPUs PROVE Conserva(d)' /\ Acierta(d)'
  BY DEF Propias
<1>1. Conserva(d) /\ Acierta(d)
  BY DEF InvPropia, Propias
<1>2. Conserva(d)'
  BY <1>1 DEF Conserva, CacheDe, UnaVez
<1>3. Acierta(d)'
  BY <1>1 DEF Acierta, Ubicada, SuMarco, BienUbicado
<1> QED BY <1>2, <1>3

(* A process leaves its CPU, to wait or to end.                            *)
LEMMA PropiaDeja ==
  ASSUME InvPropia, NEW c \in CPUs, Deja(c),
         UNCHANGED <<tlb, cache, tabla, enMemoria, vieja>>,
         bloqueados' \subseteq bloqueados \cup {corre[c]},
         vivos \ {corre[c]} \subseteq vivos'
  PROVE  Lugares' /\ Propias'
<1>1. /\ corre[c] # Nadie /\ corre' = [corre EXCEPT ![c] = Nadie]
      /\ corre'[c] = Nadie /\ \A d \in CPUs \ {c} : corre'[d] = corre[d]
  BY DEF Deja, InvPropia, Inv, TypeOK
<1>2. UnaCpu'
  BY <1>1 DEF InvPropia, Lugares, UnaCpu
<1>3. Corren'
  <2> SUFFICES ASSUME NEW d \in CPUs, corre'[d] # Nadie
               PROVE  corre'[d] \in vivos' \cap enMemoria' /\ corre'[d] \notin bloqueados'
    BY DEF Corren
  <2>1. d # c /\ corre'[d] = corre[d] /\ corre[d] # corre[c]
    BY <1>1 DEF InvPropia, Lugares, UnaCpu
  <2>2. corre[d] \in vivos \cap enMemoria /\ corre[d] \notin bloqueados
    BY <2>1 DEF InvPropia, Lugares, Corren
  <2> QED BY <2>1, <2>2
<1>4. Inyectiva'
  BY DEF InvPropia, Lugares, Inyectiva
<1>5. Propias'
  BY DejaDuenio, PropiasFijas DEF InvPropia
<1> QED BY <1>2, <1>3, <1>4, <1>5 DEF Lugares

(* A process that has ended or waits loses its frames.                     *)
LEMMA PropiaSinMarcos ==
  ASSUME InvPropia, NEW p \in Procesos, EliminaProceso(p) \/ SuspendeProceso(p)
  PROVE  Lugares' /\ Propias'
<1>1. /\ UNCHANGED <<corre, anterior, tlb, cache, tabla, vivos, bloqueados, vieja>>
      /\ enMemoria' = enMemoria \ {p}
      /\ \/ p \notin vivos
         \/ p \in bloqueados
  BY DEF EliminaProceso, SuspendeProceso, varsCpu, varsHist
<1>2. UnaCpu' /\ Corren' /\ Inyectiva'
  BY <1>1 DEF InvPropia, Lugares, UnaCpu, Corren, Inyectiva
<1>3. Propias'
  BY <1>1, PropiasFijas DEF Duenio
<1> QED BY <1>2, <1>3 DEF Lugares

(* A process that comes back is given frames of nobody; the CPUs that      *)
(* still have something of it have it at its old frames.                   *)
LEMMA PropiaDesuspende ==
  ASSUME InvPropia, NEW p \in Procesos, DesuspendeProceso(p)
  PROVE  Lugares' /\ Propias'
<1> DEFINE suyas == {x \in Paginas : x[1] = p}
           libres == Marcos \ {tabla[x] : x \in {y \in Paginas : y[1] \in enMemoria}}
<1>1. /\ p \in vivos \ enMemoria /\ enMemoria' = enMemoria \cup {p}
      /\ UNCHANGED <<corre, anterior, tlb, cache, vivos, bloqueados>>
      /\ vieja' = vieja \cup {c \in CPUs : /\ Duenio(c) = p
                                           /\ tlb[c] # <<>> \/ cache[c] # <<>>}
  BY DEF DesuspendeProceso, varsCpu
<1>2. PICK h \in [suyas -> libres] :
        /\ \A x, y \in suyas : x[2] < y[2] => h[x] < h[y]
        /\ tabla' = [x \in Paginas |-> IF x \in suyas THEN h[x] ELSE tabla[x]]
  BY DEF DesuspendeProceso
<1>3. UnaCpu' /\ Corren'
  BY <1>1 DEF InvPropia, Lugares, UnaCpu, Corren
<1>4. \A x \in Paginas : tabla'[x] = IF x[1] = p THEN h[x] ELSE tabla[x]
  BY <1>2
<1>5. Inyectiva'
  <2> SUFFICES ASSUME NEW x \in Paginas, NEW y \in Paginas, x[1] \in enMemoria',
                      y[1] \in enMemoria', tabla'[x] = tabla'[y]
               PROVE  x = y
    BY DEF Inyectiva
  <2>1. ASSUME NEW u \in Paginas, u[1] \in enMemoria, NEW v \in suyas
        PROVE  tabla[u] # h[v]
    BY <2>1, <1>2
  <2>2. CASE x[1] = p /\ y[1] = p
    <3>1. x \in suyas /\ y \in suyas /\ h[x] = h[y]
      BY <1>4, <2>2
    <3>2. h[x] \in Int
      BY <1>2, <3>1, ConfigOk DEF Marcos
    <3>3. x[2] \in Nat /\ y[2] \in Nat /\ x = <<x[1], x[2]>> /\ y = <<y[1], y[2]>>
      BY PaginasProps
    <3>4. ~(x[2] < y[2]) /\ ~(y[2] < x[2])
      BY <1>2, <3>1, <3>2
    <3> QED BY <2>2, <3>3, <3>4
  <2>3. CASE x[1] # p /\ y[1] # p
    BY <1>1, <1>4, <2>3 DEF InvPropia, Lugares, Inyectiva
  <2>4. CASE x[1] # p /\ y[1] = p
    BY <1>1, <1>4, <2>1, <2>4
  <2>5. CASE x[1] = p /\ y[1] # p
    BY <1>1, <1>4, <2>1, <2>5
  <2> QED BY <2>2, <2>3, <2>4, <2>5
<1>6. \A d \in CPUs : Duenio(d)' = Duenio(d)
  BY <1>1 DEF Duenio
<1>7. \A q : q # p => BienUbicado(q)' = BienUbicado(q)
  BY <1>4 DEF BienUbicado
<1>8. DOMAIN <<>> = {}
  <2>1. <<>> \in Seq(EntradaTlb) /\ Len(<<>>) = 0
    BY EmptySeq
  <2>2. DOMAIN <<>> = 1 .. 0
    BY <2>1, LenProperties
  <2> QED BY <2>2
<1>9. ASSUME NEW d \in CPUs PROVE Conserva(d)' /\ Acierta(d)'
  <2>1. Conserva(d) /\ Acierta(d)
    BY DEF InvPropia, Propias
  <2>2. Conserva(d)'
    BY <1>1, <1>6, <2>1 DEF Conserva, CacheDe, UnaVez
  <2>3. CASE Duenio(d) = p
    <3>1. d \notin vieja' => tlb[d] = <<>> /\ cache[d] = <<>>
      BY <1>1, <2>3
    <3>2. Acierta(d)'
      BY <1>1, <1>8, <3>1 DEF Acierta, Ubicada
    <3> QED BY <2>2, <3>2
  <2>4. CASE Duenio(d) # p
    <3>1. d \notin vieja' => d \notin vieja
      BY <1>1
    <3>2. \A n, f : SuMarco(Duenio(d), n, f)' <=> SuMarco(Duenio(d), n, f)
      <4>1. \A n : <<Duenio(d), n>>[1] # p
        BY <2>4
      <4> QED BY <1>4, <1>6, <4>1 DEF SuMarco
    <3>3. BienUbicado(Duenio(d))' = BienUbicado(Duenio(d))
      BY <1>4, <1>6, <2>4 DEF BienUbicado
    <3>4. Acierta(d)'
      BY <1>1, <1>6, <2>1, <3>1, <3>2, <3>3 DEF Acierta, Ubicada
    <3> QED BY <2>2, <3>4
  <2> QED BY <2>3, <2>4
<1> QED BY <1>3, <1>5, <1>9 DEF Lugares, Propias

LEMMA PropiaPaso == InvPropia /\ [Next]_vars => InvPropia'
<1> SUFFICES ASSUME InvPropia, [Next]_vars PROVE Lugares' /\ Propias'
  BY InvPaso DEF InvPropia
<1>1. ASSUME NEW c \in CPUs, SyscallIO(c) \/ SyscallDump(c) \/ Desaloja(c)
      PROVE  Lugares' /\ Propias'
  <2>1. /\ Deja(c) /\ UNCHANGED <<tlb, cache, tabla, enMemoria, vieja, vivos>>
        /\ bloqueados' \subseteq bloqueados \cup {corre[c]}
    BY <1>1 DEF SyscallIO, SyscallDump, Desaloja, SinEnviar, SeBloquea
  <2> QED BY <2>1, PropiaDeja
<1>2. ASSUME NEW c \in CPUs, SyscallExit(c) PROVE Lugares' /\ Propias'
  <2>1. /\ Deja(c) /\ UNCHANGED <<tlb, cache, tabla, enMemoria, vieja, bloqueados>>
        /\ vivos' = vivos \ {corre[c]}
    BY <1>2 DEF SyscallExit, varsHist
  <2> QED BY <2>1, PropiaDeja
<1>3. ASSUME UNCHANGED <<corre, anterior, tlb, cache, varsMem, vieja>>
      PROVE  Lugares' /\ Propias'
  <2>1. Lugares'
    BY <1>3 DEF InvPropia, Lugares, UnaCpu, Corren, Inyectiva, varsMem
  <2>2. Propias'
    BY <1>3, PropiasFijas DEF Duenio, varsMem
  <2> QED BY <2>1, <2>2
<1>4. ASSUME NEW c \in CPUs, SyscallIOSinRespuesta(c) PROVE Lugares' /\ Propias'
  BY <1>3, <1>4 DEF SyscallIOSinRespuesta, varsHist
<1>5. CASE UNCHANGED vars
  BY <1>3, <1>5 DEF vars, varsCpu, varsHist
<1> QED BY <1>1, <1>2, <1>4, <1>5, PropiaInstruccion, PropiaDispatch, PropiaSinMarcos,
           PropiaDesuspende
        DEF Next

LEMMA PropiaInit == Init => InvPropia
<1> SUFFICES ASSUME Init PROVE InvPropia
  OBVIOUS
<1>1. \A c \in CPUs : DOMAIN tlb[c] = {} /\ DOMAIN cache[c] = {}
  <2>1. DOMAIN <<>> = {}
    <3>1. <<>> \in Seq(EntradaTlb) /\ Len(<<>>) = 0
      BY EmptySeq
    <3>2. DOMAIN <<>> = 1 .. 0
      BY <3>1, LenProperties
    <3> QED BY <3>2
  <2> QED BY <2>1 DEF Init
<1>2. Lugares
  BY ConfigOk DEF Init, Lugares, UnaCpu, Corren, Inyectiva
<1>3. Propias
  BY <1>1 DEF Propias, Conserva, Acierta, Ubicada, CacheDe, UnaVez
<1> QED BY <1>2, <1>3, InvInit DEF InvPropia

(* TraduccionPropia: through changes of process, of CPU and of frames, the *)
(* cache, looked up by page number alone, only has pages of the process it *)
(* is looked up for; and a CPU that keeps nothing old, with a cache or     *)
(* without, only gives frames of that process, each for its page, as long  *)
(* as memory finds the pages of the process by their number.               *)
THEOREM TraduccionSiempre == Spec => []TraduccionPropia
<1>1. InvPropia => TraduccionPropia
  BY DEF InvPropia, Propias, Conserva, Acierta, CacheDe, Ubicada, TraduccionPropia
<1> QED BY <1>1, PropiaInit, PropiaPaso, PTL DEF Spec

------------------------------------------------------------------------------
(* Contents.                                                               *)

LEMMA IgualProps ==
  /\ \A d, e : Igual(d, e) => Igual(e, d)
  /\ \A d, e, g : Igual(d, e) /\ Igual(e, g) => Igual(d, g)
  /\ \A d \in Datos : SinFinal[d] \in Datos /\ Igual(SinFinal[d], d)
  /\ \A d : Igual(d, d)
BY ConfigOk DEF Igual

(* The list ch and the frame's contents m agree that page n holds u, but   *)
(* for the last byte: what is not in the list, or is there unmodified, is  *)
(* in memory.                                                              *)
Acuerdo(ch, n, m, u) ==
  /\ \A i \in DOMAIN ch :
       ch[i].pagina = n => Igual(ch[i].valor, u) /\ (~ch[i].modificado => Igual(m, u))
  /\ (\A i \in DOMAIN ch : ch[i].pagina # n) => Igual(m, u)

EnMem(x) == memoria[tabla[x]]

Sabe(c, x) == Acuerdo(cache[c], x[2], EnMem(x), ultimo[x])

(* A page in memory that was written since it came from the swap.          *)
Seguida(x) == x[1] \in enMemoria /\ x \notin devuelta

(* A running process's CPU is the last one it was given.                   *)
Hogar == \A c \in CPUs : corre[c] # Nadie => ultima[corre[c]] = c

(* The last CPU a process ran on, while it keeps its pages, and memory     *)
(* together know its last writes.                                          *)
Valores == \A c \in CPUs, x \in Paginas :
             /\ fiel[x[1]] /\ ultima[x[1]] = c /\ Duenio(c) = x[1] /\ Seguida(x)
             => Sabe(c, x)

Guardados == \A x \in Paginas :
               /\ \A c \in CPUs : corre[c] # x[1]
               /\ x[1] \in vivos /\ fiel[x[1]] /\ guardado[x[1]] /\ Seguida(x)
               => Igual(EnMem(x), ultimo[x])

Contenidos == Hogar /\ (sano => Valores /\ Guardados)

InvValores == InvPropia /\ Contenidos

(* An instruction touches only the pages of the process that executes it;  *)
(* if the CPU still knows those, all is as before.                         *)
LEMMA TrasInstruccion ==
  ASSUME InvValores, NEW c \in CPUs, corre[c] # Nadie,
         UNCHANGED <<corre, anterior, varsMem, varsGuarda>>, sano' => sano,
         \A d \in CPUs \ {c} : cache'[d] = cache[d],
         \A x \in Paginas : sano' /\ x[1] # corre[c] /\ Seguida(x) =>
           EnMem(x)' = EnMem(x) /\ ultimo'[x] = ultimo[x],
         \A x \in Paginas : Seguida(x)' /\ x[1] # corre[c] => Seguida(x),
         \A x \in Paginas : /\ sano' /\ x[1] = corre[c] /\ Seguida(x)'
                            /\ Seguida(x) => Sabe(c, x)
                            => Acuerdo(cache'[c], x[2], EnMem(x)', ultimo'[x])
  PROVE  Contenidos'
<1>0. UNCHANGED <<vivos, enMemoria, guardado, ultima, fiel>>
  BY DEF varsMem, varsGuarda
<1>1. Hogar'
  BY <1>0 DEF InvValores, Contenidos, Hogar
<1> SUFFICES ASSUME sano' PROVE Valores' /\ Guardados'
  BY <1>1 DEF Contenidos
<1>2. Valores /\ Guardados
  BY DEF InvValores, Contenidos
<1>3. Duenio(c) = corre[c] /\ \A d \in CPUs : Duenio(d)' = Duenio(d)
  BY DEF Duenio
<1>4. ASSUME NEW d \in CPUs, NEW x \in Paginas,
             fiel[x[1]], ultima[x[1]] = d, Duenio(d) = x[1], Seguida(x)'
      PROVE  Acuerdo(cache'[d], x[2], EnMem(x)', ultimo'[x])
  <2>1. Seguida(x) => Sabe(d, x)
    BY <1>2, <1>4 DEF Valores
  <2>2. CASE d = c
    BY <1>3, <1>4, <2>1, <2>2
  <2>3. CASE d # c
    <3>1. x[1] # corre[c]
      BY <1>4, <2>3 DEF InvValores, Contenidos, Hogar
    <3>2. Seguida(x)
      BY <1>4, <3>1
    <3> QED BY <2>1, <2>3, <3>1, <3>2 DEF Sabe
  <2> QED BY <2>2, <2>3
<1>5. Valores'
  BY <1>0, <1>3, <1>4 DEF Valores, Sabe
<1>6. Guardados'
  <2> SUFFICES ASSUME NEW x \in Paginas, \A d \in CPUs : corre'[d] # x[1],
                      x[1] \in vivos', fiel'[x[1]], guardado'[x[1]], Seguida(x)'
               PROVE  Igual(EnMem(x)', ultimo'[x])
    BY DEF Guardados, Igual
  <2>1. x[1] # corre[c] /\ \A d \in CPUs : corre[d] # x[1]
    OBVIOUS
  <2>2. Seguida(x)
    BY <2>1
  <2>3. Igual(EnMem(x), ultimo[x])
    BY <1>0, <1>2, <2>1, <2>2 DEF Guardados
  <2> QED BY <2>1, <2>2, <2>3
<1> QED BY <1>5, <1>6

(* Two pages in memory do not share a frame.                               *)
LEMMA OtroMarco ==
  ASSUME InvPropia, NEW x \in Paginas, NEW y \in Paginas,
         x[1] \in enMemoria, y[1] \in enMemoria, x # y
  PROVE  tabla[x] # tabla[y] /\ tabla[x] \in Marcos /\ tabla[y] \in Marcos
BY DEF InvPropia, Lugares, Inyectiva, Inv, TypeOK

TrajoBien(c, n, ch, m, k) ==
  /\ \A x \in Paginas : x[1] # corre[c] /\ x[1] \in enMemoria => m[tabla[x]] = EnMem(x)
  /\ \A x \in Paginas : x[1] = corre[c] /\ x[2] # n /\ Sabe(c, x) =>
       Acuerdo(ch, x[2], m[tabla[x]], ultimo[x])
  /\ m[tabla[<<corre[c], n>>]] = EnMem(<<corre[c], n>>)
  /\ \A i \in DOMAIN ch : ch[i].pagina = n => i = k

(* A miss whose victim goes to its own frame: the page that comes is as    *)
(* memory has it, and the one that leaves is in memory as it was in the    *)
(* list.                                                                   *)
LEMMA TrajoSabe ==
  ASSUME InvValores, NEW c \in CPUs, NEW n, FalloDeCache(c, n),
         NEW ch, NEW m, NEW k, Trajo(c, n, ch, m, k, TRUE),
         ch[k].pagina = n, ch[k].pid = corre[c],
         ch[k].marco = Marco(tlb[c], corre[c], n)
  PROVE  TrajoBien(c, n, ch, m, k)
<1> DEFINE p == corre[c]
           sale == k \in DOMAIN cache[c]
           q == cache[c][k].pagina
<1>1. InvPropia /\ memoria \in [Marcos -> Datos] /\ Listas
  BY InvPartes DEF InvValores, InvPropia, Inv, TypeOK
<1>2. /\ Ejecuta(c, n) /\ \A i \in DOMAIN cache[c] : cache[c][i].pagina # n
  BY DEF FalloDeCache, EnCache
<1>3. /\ UnaVez(cache[c]) /\ CacheDe(cache[c], p) /\ UnaVez(ch)
      /\ <<p, n>> \in Paginas /\ p \in enMemoria
  BY <1>1, <1>2, EjecutaPropia, TrajoPropia
<1>4. /\ k \in DOMAIN ch /\ DOMAIN cache[c] \subseteq DOMAIN ch
      /\ \A i \in DOMAIN ch \ {k} :
           /\ i \in DOMAIN cache[c] /\ ch[i].pagina = cache[c][i].pagina
           /\ ch[i].valor = cache[c][i].valor
           /\ ch[i].modificado = cache[c][i].modificado
  BY DEF Trajo, SoloUso
<1>5. \/ m = memoria /\ (sale => ~cache[c][k].modificado)
      \/ /\ sale /\ <<p, q>> \in Paginas
         /\ m = [memoria EXCEPT ![tabla[<<p, q>>]] = SinFinal[cache[c][k].valor]]
  <2>1. sale => cache[c][k].pid = p
    BY <1>3 DEF CacheDe
  <2> QED BY <2>1 DEF Trajo, SuMarco
<1>6. \A x \in Paginas : x = <<x[1], x[2]>>
  BY PaginasProps
(* Memory changes at the page that left, if any.                           *)
<1>7. ASSUME NEW x \in Paginas, x[1] \in enMemoria, ~(sale /\ x = <<p, q>>)
      PROVE  m[tabla[x]] = EnMem(x)
  <2>1. CASE m = memoria
    BY <2>1 DEF EnMem
  <2>2. CASE /\ sale /\ <<p, q>> \in Paginas
             /\ m = [memoria EXCEPT ![tabla[<<p, q>>]] = SinFinal[cache[c][k].valor]]
    <3>1. <<p, q>>[1] \in enMemoria /\ x # <<p, q>>
      BY <1>3, <1>7, <2>2
    <3>2. tabla[x] # tabla[<<p, q>>] /\ tabla[x] \in Marcos
      BY <1>1, <1>7, <2>2, <3>1, OtroMarco
    <3> QED BY <1>1, <2>2, <3>2 DEF EnMem
  <2> QED BY <1>5, <2>1, <2>2
<1>8. m[tabla[<<p, n>>]] = EnMem(<<p, n>>)
  <2>1. sale => <<p, n>> # <<p, q>>
    BY <1>2
  <2>2. <<p, n>>[1] \in enMemoria
    BY <1>3
  <2> QED BY <1>3, <1>7, <2>1, <2>2
<1>9. ASSUME NEW x \in Paginas, x[1] = p, x[2] # n, Sabe(c, x)
      PROVE  Acuerdo(ch, x[2], m[tabla[x]], ultimo[x])
  <2>0. x[1] \in enMemoria /\ x = <<p, x[2]>>
    BY <1>3, <1>6, <1>9
  <2>1. ASSUME NEW i \in DOMAIN ch, ch[i].pagina = x[2]
        PROVE  /\ Igual(ch[i].valor, ultimo[x])
               /\ ~ch[i].modificado => Igual(m[tabla[x]], ultimo[x])
    <3>1. i # k /\ i \in DOMAIN cache[c] /\ cache[c][i].pagina = x[2]
      BY <1>4, <1>9, <2>1
    <3>2. ~(sale /\ q = x[2])
      BY <1>3, <3>1 DEF UnaVez
    <3>3. m[tabla[x]] = EnMem(x)
      <4>1. ~(sale /\ x = <<p, q>>)
        BY <2>0, <3>2
      <4> QED BY <1>7, <2>0, <4>1
    <3> QED BY <1>4, <1>9, <3>1, <3>3 DEF Sabe, Acuerdo
  <2>2. ASSUME \A i \in DOMAIN ch : ch[i].pagina # x[2]
        PROVE  Igual(m[tabla[x]], ultimo[x])
    <3>1. \A i \in DOMAIN cache[c] \ {k} : cache[c][i].pagina # x[2]
      BY <1>4, <2>2
    <3>2. CASE sale /\ q = x[2]
      <4>1. /\ Igual(cache[c][k].valor, ultimo[x])
            /\ ~cache[c][k].modificado => Igual(EnMem(x), ultimo[x])
        BY <1>9, <3>2 DEF Sabe, Acuerdo
      <4>2. CASE m = memoria /\ ~cache[c][k].modificado
        BY <4>1, <4>2 DEF EnMem
      <4>3. CASE m = [memoria EXCEPT ![tabla[<<p, q>>]] = SinFinal[cache[c][k].valor]]
        <5>1. x = <<p, q>> /\ tabla[x] \in Marcos
          BY <1>1, <2>0, <3>2 DEF InvPropia, Inv, TypeOK
        <5>2. m[tabla[x]] = SinFinal[cache[c][k].valor]
          BY <1>1, <4>3, <5>1
        <5>3. cache[c][k].valor \in Datos
          BY <1>1, <3>2, EntradaTipo DEF EntradaCache
        <5>4. Igual(SinFinal[cache[c][k].valor], cache[c][k].valor)
          BY <5>3, IgualProps
        <5> QED BY <4>1, <5>2, <5>4 DEF Igual
      <4> QED BY <1>5, <3>2, <4>2, <4>3
    <3>3. CASE ~(sale /\ q = x[2])
      <4>1. Igual(EnMem(x), ultimo[x])
        BY <1>9, <3>1, <3>3 DEF Sabe, Acuerdo
      <4>2. ~(sale /\ x = <<p, q>>)
        BY <2>0, <3>3
      <4>3. m[tabla[x]] = EnMem(x)
        BY <1>7, <2>0, <4>2
      <4> QED BY <4>1, <4>3
    <3> QED BY <3>2, <3>3
  <2> QED BY <2>1, <2>2 DEF Acuerdo
<1>10. \A i \in DOMAIN ch : ch[i].pagina = n => i = k
  BY <1>3, <1>4 DEF UnaVez
<1>11. ASSUME NEW x \in Paginas, x[1] # p, x[1] \in enMemoria
       PROVE  m[tabla[x]] = EnMem(x)
  <2>1. x # <<p, q>>
    BY <1>11
  <2> QED BY <1>7, <1>11, <2>1
<1> QED BY <1>8, <1>9, <1>10, <1>11 DEF TrajoBien

LEMMA ValoresInstruccion ==
  ASSUME InvValores, NEW c \in CPUs, NEW n, Instruccion(c, n)
  PROVE  Contenidos'
<1>0. /\ InvPropia /\ Inv /\ memoria \in [Marcos -> Datos] /\ ultimo \in [Paginas -> Datos]
      /\ tabla \in [Paginas -> Marcos]
  BY DEF InvValores, InvPropia, Inv, TypeOK
<1>1. ASSUME Ejecuta(c, n)
      PROVE  /\ corre[c] # Nadie /\ <<corre[c], n>> \in Paginas
             /\ <<corre[c], n>>[1] \in enMemoria /\ UnaVez(cache[c])
             /\ \A x \in Paginas : x[1] = corre[c] /\ x[2] = n <=> x = <<corre[c], n>>
  <2>1. \A x \in Paginas : x = <<x[1], x[2]>>
    BY PaginasProps
  <2> QED BY <1>0, <1>1, <2>1, EjecutaPropia
<1>2. ASSUME LeeDeCache(c, n) PROVE Contenidos'
  <2>1. /\ Ejecuta(c, n)
        /\ UNCHANGED <<corre, anterior, memoria, varsMem, varsGuarda, ultimo, sano, devuelta>>
    BY <1>2 DEF LeeDeCache, varsCpu, varsHist
  <2>2. /\ \A d \in CPUs \ {c} : cache'[d] = cache[d]
        /\ DOMAIN cache'[c] = DOMAIN cache[c]
        /\ \A i \in DOMAIN cache[c] : SoloUso(cache'[c][i], cache[c][i])
    BY <1>0, <1>2, LeeDeCacheEfecto
  <2>3. \A x \in Paginas : EnMem(x)' = EnMem(x) /\ (Seguida(x)' <=> Seguida(x))
    BY <2>1 DEF EnMem, Seguida, varsMem
  <2>4. \A x \in Paginas : Sabe(c, x) => Acuerdo(cache'[c], x[2], EnMem(x)', ultimo'[x])
    BY <2>1, <2>2, <2>3 DEF Sabe, Acuerdo, SoloUso
  <2> QED BY <1>1, <2>1, <2>2, <2>3, <2>4, TrasInstruccion
(* What is written in the list is in the list, marked.                     *)
<1>3. ASSUME NEW d \in Datos, EscribeEnCache(c, n, d) PROVE Contenidos'
  <2>1. /\ Ejecuta(c, n) /\ UNCHANGED <<corre, anterior, memoria, varsMem, varsGuarda, sano>>
        /\ ultimo' = [ultimo EXCEPT ![<<corre[c], n>>] = d]
        /\ devuelta' = devuelta \ {<<corre[c], n>>}
    BY <1>3 DEF EscribeEnCache, Anota, varsCpu
  <2>2. /\ \A b \in CPUs \ {c} : cache'[b] = cache[b]
        /\ DOMAIN cache'[c] = DOMAIN cache[c]
        /\ \E i \in EnCache(c, n) :
             \A j \in DOMAIN cache[c] :
               cache'[c][j] = IF j = i THEN Escrita(cache[c][i], d) ELSE cache[c][j]
    BY <1>0, <1>3, EscribeEnCacheEfecto
  <2>3. PICK i \in EnCache(c, n) :
          \A j \in DOMAIN cache[c] :
            cache'[c][j] = IF j = i THEN Escrita(cache[c][i], d) ELSE cache[c][j]
    BY <2>2
  <2>4. /\ i \in DOMAIN cache[c] /\ cache[c][i].pagina = n
        /\ \A j \in DOMAIN cache[c] : cache[c][j].pagina = n => j = i
    BY <1>1, <2>1 DEF EnCache, UnaVez
  <2>5. /\ cache'[c][i].pagina = n /\ cache'[c][i].valor = SinFinal[d]
        /\ cache'[c][i].modificado
    <3>1. cache[c][i] \in EntradaCache
      BY <1>0, <2>4, InvPartes, EntradaTipo
    <3>2. cache'[c][i] = Escrita(cache[c][i], d)
      BY <2>3, <2>4
    <3> QED BY <2>4, <3>1, <3>2 DEF Escrita, EntradaCache
  <2>6. \A j \in DOMAIN cache[c] \ {i} : cache'[c][j] = cache[c][j]
    BY <2>3
  <2>7. \A x \in Paginas : /\ EnMem(x)' = EnMem(x)
                           /\ x # <<corre[c], n>> =>
                                ultimo'[x] = ultimo[x] /\ (Seguida(x)' <=> Seguida(x))
    BY <1>0, <2>1 DEF EnMem, Seguida, varsMem
  <2>8. ASSUME NEW x \in Paginas, x[1] = corre[c], Seguida(x)', Seguida(x) => Sabe(c, x)
        PROVE  Acuerdo(cache'[c], x[2], EnMem(x)', ultimo'[x])
    <3>1. CASE x[2] = n
      <4>1. ultimo'[x] = d /\ Igual(SinFinal[d], d)
        BY <1>0, <1>1, <2>1, <2>8, <3>1, IgualProps
      <4>2. \A j \in DOMAIN cache'[c] : cache'[c][j].pagina = x[2] => j = i
        BY <2>2, <2>4, <2>6, <3>1
      <4> QED BY <2>2, <2>4, <2>5, <3>1, <4>1, <4>2 DEF Acuerdo
    <3>2. CASE x[2] # n
      <4>1. ultimo'[x] = ultimo[x] /\ Sabe(c, x) /\ EnMem(x)' = EnMem(x)
        BY <2>7, <2>8, <3>2
      <4>2. \A j \in DOMAIN cache'[c] :
              cache'[c][j].pagina = x[2] => j # i /\ cache'[c][j] = cache[c][j]
        BY <2>2, <2>5, <2>6, <3>2
      <4>3. (\A j \in DOMAIN cache'[c] : cache'[c][j].pagina # x[2]) =>
              \A j \in DOMAIN cache[c] : cache[c][j].pagina # x[2]
        BY <2>2, <2>4, <2>6, <3>2
      <4> QED BY <2>2, <4>1, <4>2, <4>3 DEF Sabe, Acuerdo
    <3> QED BY <3>1, <3>2
  <2>9. \A x \in Paginas : x[1] # corre[c] => x # <<corre[c], n>>
    BY <1>1, <2>1
  <2> QED BY <1>1, <2>1, <2>2, <2>7, <2>8, <2>9, TrasInstruccion
<1>4. ASSUME LeeTrayendo(c, n) PROVE Contenidos'
  <2>1. /\ FalloDeCache(c, n) /\ Ejecuta(c, n)
        /\ UNCHANGED <<corre, anterior, varsMem, varsGuarda, ultimo, devuelta>>
    BY <1>4 DEF LeeTrayendo, FalloDeCache, varsCpu
  <2>2. /\ \A d \in CPUs \ {c} : cache'[d] = cache[d]
        /\ sano' => sano /\ SuMarco(corre[c], n, Marco(tlb[c], corre[c], n))
        /\ \E k : /\ Trajo(c, n, cache'[c], memoria', k, sano')
                 /\ cache'[c][k] = Nueva(c, n)
    BY <1>0, <1>4, LeeTrayendoEfecto
  <2>3. PICK k : Trajo(c, n, cache'[c], memoria', k, sano') /\ cache'[c][k] = Nueva(c, n)
    BY <2>2
  <2>4. /\ cache'[c][k].pagina = n /\ cache'[c][k].pid = corre[c]
        /\ cache'[c][k].marco = Marco(tlb[c], corre[c], n)
        /\ sano' => cache'[c][k].valor = SinFinal[EnMem(<<corre[c], n>>)]
    BY <2>2, <2>3 DEF Nueva, SuMarco, EnMem
  <2>5. tabla' = tabla /\ \A x \in Paginas : Seguida(x)' <=> Seguida(x)
    BY <2>1 DEF Seguida, varsMem
  <2>6. ASSUME sano'
        PROVE  /\ \A x \in Paginas : x[1] # corre[c] /\ Seguida(x) => EnMem(x)' = EnMem(x)
               /\ \A x \in Paginas : x[1] = corre[c] /\ x[2] # n /\ Sabe(c, x) =>
                    Acuerdo(cache'[c], x[2], EnMem(x)', ultimo[x])
               /\ \A x \in Paginas : x = <<corre[c], n>> => EnMem(x)' = EnMem(x)
               /\ k \in DOMAIN cache'[c]
               /\ \A i \in DOMAIN cache'[c] : cache'[c][i].pagina = n => i = k
    <3>1. Trajo(c, n, cache'[c], memoria', k, TRUE)
      BY <2>3, <2>6 DEF Trajo
    <3>2. TrajoBien(c, n, cache'[c], memoria', k)
      BY <2>1, <2>4, <3>1, TrajoSabe
    <3>3. \A x \in Paginas : EnMem(x)' = memoria'[tabla[x]]
      BY <2>5 DEF EnMem
    <3>4. k \in DOMAIN cache'[c]
      BY <3>1 DEF Trajo
    <3> QED BY <1>1, <2>1, <3>2, <3>3, <3>4 DEF TrajoBien, Seguida
  <2>7. ASSUME NEW x \in Paginas, sano', x[1] = corre[c], Seguida(x)',
               Seguida(x) => Sabe(c, x)
        PROVE  Acuerdo(cache'[c], x[2], EnMem(x)', ultimo'[x])
    <3>1. Sabe(c, x)
      BY <2>5, <2>7
    <3>2. CASE x[2] # n
      BY <2>1, <2>6, <2>7, <3>1, <3>2
    <3>3. CASE x[2] = n
      <4>1. x = <<corre[c], n>> /\ EnMem(x)' = EnMem(x) /\ EnMem(x) \in Datos
        BY <1>0, <1>1, <2>1, <2>6, <2>7, <3>3 DEF EnMem
      <4>2. Igual(EnMem(x), ultimo[x])
        BY <2>1, <3>1, <3>3 DEF Sabe, Acuerdo, FalloDeCache, EnCache
      <4>3. Igual(SinFinal[EnMem(x)], ultimo[x])
        BY <4>1, <4>2, IgualProps DEF Igual
      <4> QED BY <2>1, <2>4, <2>6, <2>7, <3>3, <4>1, <4>2, <4>3 DEF Acuerdo
    <3> QED BY <3>2, <3>3
  <2> QED BY <1>1, <2>1, <2>2, <2>5, <2>6, <2>7, TrasInstruccion
<1>5. ASSUME NEW d \in Datos, EscribeTrayendo(c, n, d) PROVE Contenidos'
  <2>1. /\ FalloDeCache(c, n) /\ Ejecuta(c, n)
        /\ ultimo' = [ultimo EXCEPT ![<<corre[c], n>>] = d]
        /\ devuelta' = devuelta \ {<<corre[c], n>>}
        /\ UNCHANGED <<corre, anterior, varsMem, varsGuarda>>
    BY <1>5 DEF EscribeTrayendo, FalloDeCache, Anota, varsCpu
  <2>2. /\ \A b \in CPUs \ {c} : cache'[b] = cache[b]
        /\ sano' => sano
        /\ \E k : /\ Trajo(c, n, cache'[c], memoria', k, sano')
                 /\ cache'[c][k] = Escrita(Nueva(c, n), d)
    BY <1>0, <1>5, EscribeTrayendoEfecto
  <2>3. PICK k : /\ Trajo(c, n, cache'[c], memoria', k, sano')
                 /\ cache'[c][k] = Escrita(Nueva(c, n), d)
    BY <2>2
  <2>4. /\ cache'[c][k].pagina = n /\ cache'[c][k].pid = corre[c]
        /\ cache'[c][k].marco = Marco(tlb[c], corre[c], n)
        /\ cache'[c][k].valor = SinFinal[d] /\ cache'[c][k].modificado
    <3>1. /\ Escrita(Nueva(c, n), d).pagina = n
          /\ Escrita(Nueva(c, n), d).pid = corre[c]
          /\ Escrita(Nueva(c, n), d).marco = Marco(tlb[c], corre[c], n)
          /\ Escrita(Nueva(c, n), d).valor = SinFinal[d]
          /\ Escrita(Nueva(c, n), d).modificado
      BY DEF Nueva, Escrita
    <3> QED BY <2>3, <3>1
  <2>5. /\ tabla' = tabla
        /\ \A x \in Paginas : x # <<corre[c], n>> =>
             ultimo'[x] = ultimo[x] /\ (Seguida(x)' <=> Seguida(x))
    BY <1>0, <2>1 DEF Seguida, varsMem
  <2>6. ASSUME sano'
        PROVE  /\ \A x \in Paginas : x[1] # corre[c] /\ Seguida(x) => EnMem(x)' = EnMem(x)
               /\ \A x \in Paginas : x[1] = corre[c] /\ x[2] # n /\ Sabe(c, x) =>
                    Acuerdo(cache'[c], x[2], EnMem(x)', ultimo[x])
               /\ k \in DOMAIN cache'[c]
               /\ \A i \in DOMAIN cache'[c] : cache'[c][i].pagina = n => i = k
    <3>1. Trajo(c, n, cache'[c], memoria', k, TRUE)
      BY <2>3, <2>6 DEF Trajo
    <3>2. TrajoBien(c, n, cache'[c], memoria', k)
      BY <2>1, <2>4, <3>1, TrajoSabe
    <3>3. \A x \in Paginas : EnMem(x)' = memoria'[tabla[x]]
      BY <2>5 DEF EnMem
    <3>4. k \in DOMAIN cache'[c]
      BY <3>1 DEF Trajo
    <3> QED BY <1>1, <2>1, <3>2, <3>3, <3>4 DEF TrajoBien, Seguida
  <2>7. ASSUME NEW x \in Paginas, sano', x[1] = corre[c], Seguida(x)',
               Seguida(x) => Sabe(c, x)
        PROVE  Acuerdo(cache'[c], x[2], EnMem(x)', ultimo'[x])
    <3>1. CASE x[2] = n
      <4>1. ultimo'[x] = d /\ Igual(SinFinal[d], d)
        BY <1>0, <1>1, <2>1, <2>7, <3>1, IgualProps
      <4> QED BY <2>4, <2>6, <2>7, <3>1, <4>1 DEF Acuerdo
    <3>2. CASE x[2] # n
      <4>1. ultimo'[x] = ultimo[x] /\ Sabe(c, x)
        BY <2>5, <2>7, <3>2
      <4> QED BY <2>6, <2>7, <3>2, <4>1
    <3> QED BY <3>1, <3>2
  <2>8. \A x \in Paginas : x[1] # corre[c] => x # <<corre[c], n>>
    BY <1>1, <2>1
  <2> QED BY <1>1, <2>1, <2>2, <2>5, <2>6, <2>7, <2>8, TrasInstruccion
<1>6. ASSUME /\ Ejecuta(c, n)
             /\ UNCHANGED <<cache, memoria, ultimo, sano, devuelta, corre, anterior, varsMem,
                            varsGuarda>>
      PROVE  Contenidos'
  <2>1. \A x \in Paginas : EnMem(x)' = EnMem(x) /\ (Seguida(x)' <=> Seguida(x))
    BY <1>6 DEF EnMem, Seguida, varsMem
  <2> QED BY <1>1, <1>6, <2>1, TrasInstruccion DEF Sabe
<1>7. ASSUME NEW d \in Datos, EscribeEnMemoria(c, n, d) PROVE Contenidos'
  <2> DEFINE g == Marco(tlb[c], corre[c], n)
  <2>1. /\ Ejecuta(c, n) /\ EntradasCache[c] = 0 /\ cache' = cache
        /\ memoria' = [f \in Marcos |-> IF f = g THEN d ELSE memoria[f]]
        /\ sano' = (sano /\ SuMarco(corre[c], n, g))
        /\ ultimo' = [ultimo EXCEPT ![<<corre[c], n>>] = d]
        /\ devuelta' = devuelta \ {<<corre[c], n>>}
        /\ UNCHANGED <<corre, anterior, varsMem, varsGuarda>>
    BY <1>7 DEF EscribeEnMemoria, Accede, Anota, varsCpu
  <2> HIDE DEF g
  <2>2. DOMAIN cache[c] = {}
    <3>1. Listas /\ Len(cache[c]) = 0
      BY <1>0, <2>1, InvPartes, EntradaTipo DEF Listas
    <3> QED BY <3>1, LenProperties DEF Listas
  <2>3. \A x \in Paginas : x # <<corre[c], n>> =>
          ultimo'[x] = ultimo[x] /\ (Seguida(x)' <=> Seguida(x))
    BY <1>0, <2>1 DEF Seguida, varsMem
  <2>4. ASSUME NEW x \in Paginas, sano', x # <<corre[c], n>>, Seguida(x)
        PROVE  EnMem(x)' = EnMem(x)
    <3>1. g = tabla[<<corre[c], n>>] /\ <<corre[c], n>> \in Paginas
      BY <2>1, <2>4 DEF SuMarco
    <3>2. tabla[x] # g /\ tabla[x] \in Marcos
      BY <1>0, <1>1, <2>1, <2>4, <3>1, OtroMarco DEF Seguida
    <3> QED BY <2>1, <3>2 DEF EnMem, varsMem
  <2>5. ASSUME sano' PROVE EnMem(<<corre[c], n>>)' = d /\ ultimo'[<<corre[c], n>>] = d
    BY <1>0, <1>1, <2>1, <2>5 DEF EnMem, SuMarco, varsMem
  <2>6. ASSUME NEW x \in Paginas, sano', x[1] = corre[c], Seguida(x)',
               Seguida(x) => Sabe(c, x)
        PROVE  Acuerdo(cache'[c], x[2], EnMem(x)', ultimo'[x])
    <3>1. CASE x = <<corre[c], n>>
      BY <2>1, <2>2, <2>5, <2>6, <3>1, IgualProps DEF Acuerdo
    <3>2. CASE x # <<corre[c], n>>
      <4>1. Sabe(c, x) /\ EnMem(x)' = EnMem(x) /\ ultimo'[x] = ultimo[x]
        BY <2>3, <2>4, <2>6, <3>2
      <4> QED BY <2>1, <4>1 DEF Sabe
    <3> QED BY <3>1, <3>2
  <2>7. \A x \in Paginas : x[1] # corre[c] => x # <<corre[c], n>>
    BY <1>1, <2>1
  <2>8. sano' => sano
    BY <2>1
  <2> QED BY <1>1, <2>1, <2>3, <2>4, <2>6, <2>7, <2>8, TrasInstruccion
<1>8. ASSUME LeeDeMemoria(c, n) \/ LeeFuera(c, n) \/ \E b \in BOOLEAN : SinRespuesta(c, n, b)
      PROVE  Contenidos'
  <2>1. /\ Ejecuta(c, n)
        /\ UNCHANGED <<cache, memoria, ultimo, sano, devuelta, corre, anterior, varsMem,
                       varsGuarda>>
    BY <1>8 DEF LeeDeMemoria, LeeFuera, SinRespuesta, Accede, FalloDeCache, varsCpu, varsHist
  <2> QED BY <1>6, <2>1
<1> QED BY <1>2, <1>3, <1>4, <1>5, <1>7, <1>8 DEF Instruccion

(* A CPU that takes a process either kept its pages since its last turn or *)
(* starts from memory, which has everything the process wrote.             *)
LEMMA ValoresDispatch ==
  ASSUME InvValores, NEW c \in CPUs, NEW p \in Procesos, AtenderDispatch(c, p)
  PROVE  Contenidos'
<1>0. InvPropia /\ Inv /\ Listas
  BY InvPartes DEF InvValores, InvPropia
<1>1. /\ corre[c] = Nadie /\ p \in vivos /\ \A d \in CPUs : corre[d] # p
      /\ corre' = [corre EXCEPT ![c] = p] /\ ultima' = [ultima EXCEPT ![p] = c]
      /\ fiel' = [fiel EXCEPT ![p] = fiel[p] /\ SigueFiel(c, p)]
      /\ UNCHANGED <<anterior, memoria, tabla, enMemoria, ultimo, vivos, guardado, sano,
                     devuelta>>
      /\ p # Nadie
  BY ConfigOk DEF AtenderDispatch, Toma
<1>2. /\ corre'[c] = p /\ \A d \in CPUs \ {c} : corre'[d] = corre[d]
      /\ ultima'[p] = c /\ \A q \in Procesos \ {p} : ultima'[q] = ultima[q]
      /\ fiel'[p] <=> fiel[p] /\ SigueFiel(c, p)
      /\ \A q \in Procesos \ {p} : fiel'[q] = fiel[q]
      /\ \A d \in CPUs : corre[d] \in Procesos \cup {Nadie}
  <2>1. SigueFiel(c, p) \in BOOLEAN
    BY <1>0 DEF SigueFiel, Inv, TypeOK
  <2> QED BY <1>0, <1>1, <2>1 DEF Inv, TypeOK
<1>3. /\ Duenio(c) = anterior[c] /\ Duenio(c)' = p
      /\ \A d \in CPUs \ {c} : Duenio(d)' = Duenio(d)
  BY <1>1, <1>2 DEF Duenio
<1>4. /\ \A d \in CPUs \ {c} : cache'[d] = cache[d]
      /\ IF Limpia(c, p) THEN cache'[c] = <<>> ELSE cache'[c] = cache[c]
  BY <1>0, AtenderDispatchEfecto
<1>5. Hogar'
  BY <1>1, <1>2 DEF InvValores, Contenidos, Hogar
<1> SUFFICES ASSUME sano' PROVE Valores' /\ Guardados'
  BY <1>5 DEF Contenidos
<1>6. Valores /\ Guardados
  BY <1>1 DEF InvValores, Contenidos
<1>7. \A x \in Paginas : /\ x[1] \in Procesos
                         /\ EnMem(x)' = EnMem(x) /\ (Seguida(x)' <=> Seguida(x))
  BY <1>1, PaginasProps DEF EnMem, Seguida
<1>8. ASSUME NEW x \in Paginas, x[1] = p, fiel'[p], Seguida(x)
      PROVE  Acuerdo(cache'[c], x[2], EnMem(x), ultimo[x])
  <2>1. CASE anterior[c] = p /\ EntradasCache[c] > 0
    <3>1. fiel[p] /\ ultima[p] = c
      BY <1>2, <1>8, <2>1 DEF SigueFiel
    <3>2. Sabe(c, x)
      BY <1>3, <1>6, <1>8, <2>1, <3>1 DEF Valores
    <3> QED BY <1>4, <2>1, <3>2 DEF Sabe, Limpia
  <2>2. CASE ~(anterior[c] = p /\ EntradasCache[c] > 0)
    <3>1. fiel[p] /\ guardado[p]
      BY <1>2, <1>8, <2>2 DEF SigueFiel
    <3>2. Igual(EnMem(x), ultimo[x])
      BY <1>1, <1>6, <1>8, <3>1 DEF Guardados
    <3>3. DOMAIN cache'[c] = {}
      <4>1. CASE anterior[c] = Nadie
        <5>1. CacheDe(cache[c], Nadie)
          BY <1>0, <1>3, <4>1 DEF InvPropia, Propias, Conserva
        <5>2. DOMAIN cache[c] = {}
          BY <5>1, PaginasProps, ConfigOk DEF CacheDe
        <5> QED BY <1>4, <4>1, <5>2 DEF Limpia
      <4>2. CASE Limpia(c, p)
        <5>1. <<>> \in Seq(EntradaCache) /\ Len(<<>>) = 0
          BY EmptySeq
        <5>2. DOMAIN <<>> = 1 .. 0
          BY <5>1, LenProperties
        <5> QED BY <1>4, <4>2, <5>2
      <4>3. CASE ~(EntradasCache[c] > 0)
        <5>1. Len(cache[c]) = 0
          BY <1>0, <4>3, EntradaTipo DEF Listas
        <5>2. DOMAIN cache[c] = {}
          BY <1>0, <5>1, LenProperties DEF Listas
        <5> QED BY <1>4, <4>3, <5>2 DEF Limpia
      <4> QED BY <2>2, <4>1, <4>2, <4>3 DEF Limpia
    <3> QED BY <3>2, <3>3 DEF Acuerdo
  <2> QED BY <2>1, <2>2
<1>9. ASSUME NEW d \in CPUs, NEW x \in Paginas, fiel'[x[1]], ultima'[x[1]] = d,
             Duenio(d)' = x[1], Seguida(x)'
      PROVE  Acuerdo(cache'[d], x[2], EnMem(x)', ultimo'[x])
  <2>1. CASE d = c
    BY <1>1, <1>3, <1>7, <1>8, <1>9, <2>1
  <2>2. CASE d # c
    <3>1. x[1] # p
      BY <1>2, <1>9, <2>2
    <3>2. Sabe(d, x)
      BY <1>2, <1>3, <1>6, <1>7, <1>9, <2>2, <3>1 DEF Valores
    <3> QED BY <1>1, <1>4, <1>7, <2>2, <3>2 DEF Sabe
  <2> QED BY <2>1, <2>2
<1>10. Valores'
  BY <1>9 DEF Valores, Sabe
<1>11. Guardados'
  <2> SUFFICES ASSUME NEW x \in Paginas, \A d \in CPUs : corre'[d] # x[1],
                      x[1] \in vivos', fiel'[x[1]], guardado'[x[1]], Seguida(x)'
               PROVE  Igual(EnMem(x)', ultimo'[x])
    BY DEF Guardados, Igual
  <2>1. x[1] # p /\ \A d \in CPUs : corre[d] # x[1]
    BY <1>1, <1>2, <1>7, ConfigOk
  <2>2. Igual(EnMem(x), ultimo[x])
    BY <1>1, <1>2, <1>6, <1>7, <2>1 DEF Guardados
  <2> QED BY <1>1, <1>7, <2>2
<1> QED BY <1>10, <1>11

(* A process leaves its CPU: what the CPU sends, if anything, is what the  *)
(* process wrote last, and goes home while all is well.                    *)
LEMMA ValoresDeja ==
  ASSUME InvValores, NEW c \in CPUs, Deja(c),
         UNCHANGED <<cache, tabla, enMemoria, ultimo, ultima, fiel, devuelta>>,
         vivos' \subseteq vivos, \A q \in Procesos \ {corre[c]} : guardado'[q] = guardado[q],
         sano' => sano,
         \/ memoria' = MemoriaTrasEnviar(c) /\ (sano' => EnvioPropio(c))
         \/ memoria' = memoria
            /\ (corre[c] \in vivos' /\ guardado'[corre[c]] => Modificadas(c) = {})
  PROVE  Contenidos'
<1> DEFINE p == corre[c]
<1>0. /\ InvPropia /\ Inv /\ Listas /\ tabla \in [Paginas -> Marcos]
      /\ \A d \in CPUs : Duenio(d)' = Duenio(d)
  BY DejaDuenio, InvPartes DEF InvValores, InvPropia, Inv, TypeOK
<1>1. /\ p # Nadie /\ p \in Procesos /\ p \in enMemoria
      /\ corre' = [corre EXCEPT ![c] = Nadie]
      /\ corre'[c] = Nadie /\ \A d \in CPUs \ {c} : corre'[d] = corre[d]
      /\ Duenio(c) = p /\ ultima[p] = c
  BY <1>0 DEF Deja, Inv, TypeOK, Duenio, InvValores, InvPropia, Lugares, Corren, Contenidos,
              Hogar
<1>2. Hogar'
  BY <1>1 DEF InvValores, Contenidos, Hogar
<1> SUFFICES ASSUME sano' PROVE Valores' /\ Guardados'
  BY <1>2 DEF Contenidos
<1>3. Valores /\ Guardados
  BY DEF InvValores, Contenidos
<1>4. \A x \in Paginas : /\ x[1] \in Procesos /\ x = <<x[1], x[2]>>
                         /\ EnMem(x)' = memoria'[tabla[x]]
                         /\ (Seguida(x)' <=> Seguida(x))
  BY PaginasProps DEF EnMem, Seguida
<1>5. ASSUME EnvioPropio(c), NEW i \in Modificadas(c)
      PROVE  /\ i \in DOMAIN cache[c] /\ cache[c][i].modificado
             /\ <<p, cache[c][i].pagina>> \in Paginas
             /\ cache[c][i].marco = tabla[<<p, cache[c][i].pagina>>]
             /\ <<p, cache[c][i].pagina>>[1] \in enMemoria
             /\ cache[c][i].valor \in Datos
  <2>2. SuMarco(p, cache[c][i].pagina, cache[c][i].marco)
    BY <1>5 DEF EnvioPropio
  <2>3. i \in DOMAIN cache[c] /\ cache[c][i].modificado
    BY DEF Modificadas
  <2>4. cache[c][i].valor \in Datos
    BY <1>0, <2>3, EntradaTipo DEF EntradaCache
  <2> QED BY <1>1, <2>2, <2>3, <2>4 DEF SuMarco
(* A page that is not sent is as it was.                                   *)
<1>6. ASSUME NEW x \in Paginas, x[1] \in enMemoria, memoria' = MemoriaTrasEnviar(c), EnvioPropio(c),
             \A i \in Modificadas(c) : x # <<p, cache[c][i].pagina>>
      PROVE  EnMem(x)' = EnMem(x)
  <2>1. ASSUME NEW i \in Modificadas(c) PROVE cache[c][i].marco # tabla[x]
    <3> DEFINE y == <<p, cache[c][i].pagina>>
    <3>1. /\ y \in Paginas /\ cache[c][i].marco = tabla[y] /\ y[1] \in enMemoria /\ x # y
      BY <1>5, <1>6
    <3> HIDE DEF y
    <3> QED BY <1>0, <1>6, <3>1, OtroMarco
  <2>2. tabla[x] \in Marcos
    BY <1>0
  <2>3. MemoriaTrasEnviar(c)[tabla[x]] = memoria[tabla[x]]
    BY <1>0, <2>1, <2>2, EnviarProps
  <2> QED BY <1>4, <1>6, <2>3 DEF EnMem
<1>7. ASSUME NEW x \in Paginas, x[1] # p, x[1] \in enMemoria PROVE EnMem(x)' = EnMem(x)
  <2>1. CASE memoria' = memoria
    BY <1>4, <2>1 DEF EnMem
  <2>2. CASE memoria' = MemoriaTrasEnviar(c) /\ EnvioPropio(c)
    <3>1. \A n : x # <<p, n>>
      BY <1>7
    <3> QED BY <1>6, <1>7, <2>2, <3>1
  <2> QED BY <2>1, <2>2
<1>8. ASSUME NEW x \in Paginas, x[1] = p, Sabe(c, x)
      PROVE  /\ Acuerdo(cache[c], x[2], EnMem(x)', ultimo[x])
             /\ p \in vivos' /\ guardado'[p] => Igual(EnMem(x)', ultimo[x])
  <2>1. x = <<p, x[2]>> /\ x[1] \in enMemoria
    BY <1>1, <1>4, <1>8
  <2>2. CASE memoria' = MemoriaTrasEnviar(c) /\ EnvioPropio(c)
    <3>1. CASE \A i \in Modificadas(c) : x # <<p, cache[c][i].pagina>>
      <4>1. EnMem(x)' = EnMem(x)
        BY <1>6, <2>1, <2>2, <3>1
      <4>2. \A i \in DOMAIN cache[c] :
              cache[c][i].pagina = x[2] => ~cache[c][i].modificado
        BY <2>1, <3>1 DEF Modificadas
      <4>3. Igual(EnMem(x), ultimo[x])
        BY <1>8, <4>2 DEF Sabe, Acuerdo
      <4> QED BY <1>8, <4>1, <4>3 DEF Sabe, Acuerdo
    <3>2. CASE \E i \in Modificadas(c) : x = <<p, cache[c][i].pagina>>
      <4>1. PICK i \in Modificadas(c) : x = <<p, cache[c][i].pagina>>
        BY <3>2
      <4>2. cache[c][i].marco = tabla[x] /\ tabla[x] \in Marcos
        BY <1>0, <1>5, <2>2, <4>1
      <4>3. PICK j \in Modificadas(c) :
              /\ cache[c][j].marco = tabla[x]
              /\ MemoriaTrasEnviar(c)[tabla[x]] = SinFinal[cache[c][j].valor]
        BY <1>0, <4>1, <4>2, EnviarProps
      <4>4. /\ j \in DOMAIN cache[c] /\ cache[c][j].valor \in Datos
            /\ cache[c][j].pagina = x[2]
        <5> DEFINE y == <<p, cache[c][j].pagina>>
        <5>1. /\ j \in DOMAIN cache[c] /\ cache[c][j].valor \in Datos
              /\ y \in Paginas /\ tabla[x] = tabla[y] /\ y[1] \in enMemoria
          BY <1>5, <2>2, <4>3
        <5>2. y[2] = cache[c][j].pagina
          OBVIOUS
        <5> HIDE DEF y
        <5>3. x = y
          BY <1>0, <2>1, <5>1, OtroMarco
        <5> QED BY <5>1, <5>2, <5>3
      <4>5. Igual(cache[c][j].valor, ultimo[x])
        BY <1>8, <4>4 DEF Sabe, Acuerdo
      <4>6. EnMem(x)' = SinFinal[cache[c][j].valor]
        BY <1>4, <2>2, <4>3
      <4>7. Igual(SinFinal[cache[c][j].valor], cache[c][j].valor)
        BY <4>4, IgualProps
      <4>8. Igual(EnMem(x)', ultimo[x])
        BY <4>5, <4>6, <4>7 DEF Igual
      <4> QED BY <1>8, <4>8 DEF Sabe, Acuerdo
    <3> QED BY <3>1, <3>2
  <2>3. CASE /\ memoria' = memoria
             /\ (p \in vivos' /\ guardado'[p] => Modificadas(c) = {})
    <3>1. EnMem(x)' = EnMem(x)
      BY <1>4, <2>3 DEF EnMem
    <3> QED BY <1>8, <2>3, <3>1 DEF Sabe, Acuerdo, Modificadas
  <2> QED BY <2>2, <2>3
<1>9. ASSUME NEW d \in CPUs, NEW x \in Paginas,
             fiel[x[1]], ultima[x[1]] = d, Duenio(d) = x[1], Seguida(x)
      PROVE  Acuerdo(cache'[d], x[2], EnMem(x)', ultimo'[x])
  <2>1. Sabe(d, x)
    BY <1>3, <1>9 DEF Valores
  <2>2. CASE x[1] = p
    BY <1>1, <1>8, <1>9, <2>1, <2>2
  <2>3. CASE x[1] # p
    BY <1>7, <1>9, <2>1, <2>3 DEF Sabe, Seguida
  <2> QED BY <2>2, <2>3
<1>10. Valores'
  BY <1>0, <1>4, <1>9 DEF Valores, Sabe
<1>11. Guardados'
  <2> SUFFICES ASSUME NEW x \in Paginas, \A d \in CPUs : corre'[d] # x[1],
                      x[1] \in vivos', fiel[x[1]], guardado'[x[1]], Seguida(x)
               PROVE  Igual(EnMem(x)', ultimo[x])
    BY <1>4 DEF Guardados, Igual
  <2>1. CASE x[1] = p
    <3>1. Sabe(c, x)
      BY <1>1, <1>3, <2>1 DEF Valores
    <3> QED BY <1>8, <2>1, <3>1
  <2>2. CASE x[1] # p
    <3>1. \A d \in CPUs : corre[d] # x[1]
      BY <1>1, <2>2
    <3>2. Igual(EnMem(x), ultimo[x]) /\ x[1] \in enMemoria
      BY <1>3, <1>4, <2>2, <3>1 DEF Guardados, Seguida
    <3> QED BY <1>7, <2>2, <3>2
  <2> QED BY <2>1, <2>2
<1> QED BY <1>10, <1>11

(* Memory takes frames away, or gives others: a page that comes back is    *)
(* followed again when it is written.                                      *)
LEMMA ValoresMarcos ==
  ASSUME InvValores, NEW p \in Procesos,
         EliminaProceso(p) \/ SuspendeProceso(p) \/ DesuspendeProceso(p)
  PROVE  Contenidos'
<1>1. UNCHANGED <<corre, anterior, cache, memoria, vivos, ultimo, guardado, ultima, fiel, sano>>
  BY DEF EliminaProceso, SuspendeProceso, DesuspendeProceso, varsCpu, varsHist, varsGuarda
<1>2. ASSUME NEW x \in Paginas, Seguida(x)'
      PROVE  Seguida(x) /\ tabla'[x] = tabla[x]
  <2>1. CASE EliminaProceso(p) \/ SuspendeProceso(p)
    BY <1>2, <2>1 DEF EliminaProceso, SuspendeProceso, varsHist, Seguida
  <2>2. CASE DesuspendeProceso(p)
    <3>1. /\ enMemoria' = enMemoria \cup {p}
          /\ devuelta' = devuelta \cup {y \in Paginas : y[1] = p}
          /\ x[1] # p => tabla'[x] = tabla[x]
      BY <2>2 DEF DesuspendeProceso
    <3> QED BY <1>2, <3>1 DEF Seguida
  <2> QED BY <2>1, <2>2
<1>3. \A x \in Paginas : Seguida(x)' => Seguida(x) /\ EnMem(x)' = EnMem(x)
  BY <1>1, <1>2 DEF EnMem
<1>4. \A d \in CPUs : Duenio(d)' = Duenio(d)
  BY <1>1 DEF Duenio
<1>5. Hogar'
  BY <1>1 DEF InvValores, Contenidos, Hogar
<1>6. Valores => Valores'
  BY <1>1, <1>3, <1>4 DEF Valores, Sabe
<1>7. Guardados => Guardados'
  BY <1>1, <1>3 DEF Guardados, Igual
<1> QED BY <1>1, <1>5, <1>6, <1>7 DEF InvValores, Contenidos

LEMMA ValoresPaso == InvValores /\ [Next]_vars => InvValores'
<1> SUFFICES ASSUME InvValores, [Next]_vars PROVE Contenidos'
  BY PropiaPaso DEF InvValores
<1>0. guardado \in [Procesos -> BOOLEAN]
  BY DEF InvValores, InvPropia, Inv, TypeOK
<1>1. ASSUME NEW c \in CPUs, SyscallIO(c) PROVE Contenidos'
  <2>1. \A q \in Procesos \ {corre[c]} : guardado'[q] = guardado[q]
    BY <1>0, <1>1 DEF SyscallIO
  <2> QED BY <1>1, <2>1, ValoresDeja DEF SyscallIO
<1>2. ASSUME NEW c \in CPUs, SinEnviar(c) PROVE Contenidos'
  <2>1. /\ corre[c] \in Procesos
        /\ guardado' = [guardado EXCEPT ![corre[c]] = Modificadas(c) = {}]
    BY <1>2 DEF SinEnviar, Deja, InvValores, InvPropia, Inv, TypeOK
  <2>2. /\ \A q \in Procesos \ {corre[c]} : guardado'[q] = guardado[q]
        /\ guardado'[corre[c]] => Modificadas(c) = {}
    BY <1>0, <2>1
  <2> QED BY <1>2, <2>2, ValoresDeja DEF SinEnviar
<1>3. ASSUME NEW c \in CPUs, SyscallExit(c) PROVE Contenidos'
  <2>1. /\ Deja(c) /\ UNCHANGED <<cache, tabla, enMemoria, ultimo, ultima, fiel, devuelta>>
        /\ memoria' = memoria /\ guardado' = guardado /\ sano' = sano
        /\ vivos' \subseteq vivos /\ corre[c] \notin vivos'
    BY <1>3 DEF SyscallExit, varsHist, varsGuarda
  <2> QED BY <2>1, ValoresDeja
<1>4. ASSUME UNCHANGED <<cache, corre, anterior, memoria, tabla, enMemoria, ultimo, vivos,
                         guardado, ultima, fiel, sano, devuelta>>
      PROVE  Contenidos'
  BY <1>4 DEF InvValores, Contenidos, Hogar, Valores, Guardados, Sabe, EnMem, Seguida, Duenio,
              Igual
<1>5. ASSUME NEW c \in CPUs, SyscallIOSinRespuesta(c) PROVE Contenidos'
  BY <1>4, <1>5 DEF SyscallIOSinRespuesta, varsMem, varsHist, varsGuarda
<1>6. CASE UNCHANGED vars
  BY <1>4, <1>6 DEF vars, varsCpu, varsMem, varsHist, varsGuarda
<1> QED BY <1>1, <1>2, <1>3, <1>5, <1>6, ValoresDispatch, ValoresInstruccion, ValoresMarcos
        DEF Next, SyscallDump, Desaloja

LEMMA ValoresInit == Init => InvValores
<1> SUFFICES ASSUME Init PROVE InvValores
  OBVIOUS
<1>1. \A x \in Paginas : x[1] \in Procesos /\ TablaInicial[x] \in Marcos
  BY PaginasProps, ConfigOk
<1>2. \A c \in CPUs : corre[c] = Nadie /\ Duenio(c) = Nadie
  BY DEF Init, Duenio
<1>3. Hogar
  BY <1>2 DEF Hogar
<1>4. Valores
  BY <1>1, <1>2, ConfigOk DEF Valores
<1>5. Guardados
  BY <1>1 DEF Init, Guardados, EnMem, Igual
<1> QED BY <1>3, <1>4, <1>5, PropiaInit DEF InvValores, Contenidos

LEMMA ValoresSiempre == Spec => []InvValores
BY ValoresInit, ValoresPaso, PTL DEF Spec

(* LeeLoQueEscribio: for any number of CPUs, processes, pages and frames,  *)
(* any sizes and both policies, through the cache, its replacements, its   *)
(* write-backs, suspensions and the NUL put at the end of a page.          *)
THEOREM ContenidoSiempre == Spec => []LeeLoQueEscribio
<1>1. InvValores => LeeLoQueEscribio
  <2> SUFFICES ASSUME InvValores, NEW c \in CPUs, NEW x \in Paginas,
                      corre[c] = x[1], sano, fiel[x[1]], x \notin devuelta,
                      EnCache(c, x[2]) # {} \/ Marco(tlb[c], x[1], x[2]) = tabla[x]
               PROVE  Igual(Ve(c, x[2]), ultimo[x])
    BY DEF LeeLoQueEscribio
  <2>1. x[1] # Nadie
    BY PaginasProps, ConfigOk
  <2>2. ultima[x[1]] = c /\ Duenio(c) = x[1] /\ Seguida(x)
    BY <2>1 DEF InvValores, InvPropia, Lugares, Corren, Contenidos, Hogar, Duenio, Seguida
  <2>3. Sabe(c, x)
    BY <2>2 DEF InvValores, Contenidos, Valores
  <2>4. CASE EnCache(c, x[2]) # {}
    BY <2>3, <2>4 DEF Ve, EnCache, Sabe, Acuerdo
  <2>5. CASE EnCache(c, x[2]) = {}
    BY <2>3, <2>5 DEF Ve, EnCache, EnMem, Sabe, Acuerdo
  <2> QED BY <2>4, <2>5
<1> QED BY <1>1, ValoresSiempre, PTL

(* GuardadoTrasIO: what a process wrote before it left its CPU with an IO, *)
(* or with nothing modified, is at its own frames while it is away, so     *)
(* that a dump or the swap has it.                                         *)
THEOREM GuardadoSiempre == Spec => []GuardadoTrasIO
<1>1. InvValores => GuardadoTrasIO
  BY DEF InvValores, Contenidos, Guardados, GuardadoTrasIO, EnMem, Seguida
<1> QED BY <1>1, ValoresSiempre, PTL

------------------------------------------------------------------------------
(* The victim of a replacement.                                            *)

(* No entry of the list is worth less than the one at v: CLOCK looks at    *)
(* the bit of use, CLOCK-M at that one first and then at the other.        *)
PeorPorUso(ch, v) == \A j \in DOMAIN ch : ch[v].uso => ch[j].uso

PeorPorUsoYCambio(ch, v) ==
  \A j \in DOMAIN ch : /\ ch[v].uso => ch[j].uso
                       /\ ch[v].modificado /\ (ch[j].uso => ch[v].uso) => ch[j].modificado

LEMMA ClockJusto ==
  ASSUME NEW ch \in Seq(EntradaCache), ch # <<>>, NEW m \in DOMAIN ch
  PROVE  PeorPorUso(ch, Clock(ch, m).victima)
<1> DEFINE libres == {i \in DOMAIN ch : ~ch[i].uso}
<1>1. Len(ch) \in Nat /\ Len(ch) > 0 /\ DOMAIN ch = 1 .. Len(ch)
  BY LenProperties, EmptySeq
<1>2. CASE libres # {}
  <2>1. Clock(ch, m).victima = PrimeraDesde(libres, Len(ch), m)
    BY <1>2 DEF Clock
  <2>2. PrimeraDesde(libres, Len(ch), m) \in libres
    BY <1>1, <1>2, PrimeraDesdeEsta
  <2> QED BY <2>1, <2>2 DEF PeorPorUso
<1>3. CASE libres = {}
  BY <1>3 DEF PeorPorUso
<1> QED BY <1>2, <1>3

LEMMA ClockMJusto ==
  ASSUME NEW ch \in Seq(EntradaCache), ch # <<>>, NEW m \in DOMAIN ch
  PROVE  PeorPorUsoYCambio(ch, ClockM(ch, m).victima)
<1> DEFINE limpias == {i \in DOMAIN ch : ~ch[i].modificado}
           sinUso == {i \in DOMAIN ch : ~ch[i].uso}
           v == ClockM(ch, m).victima
<1>1. Len(ch) \in Nat /\ Len(ch) > 0 /\ DOMAIN ch = 1 .. Len(ch)
  BY LenProperties, EmptySeq
<1>2. \A S \in SUBSET (DOMAIN ch) : S # {} => PrimeraDesde(S, Len(ch), m) \in S
  BY <1>1, PrimeraDesdeEsta
<1>3. CASE sinUso \cap limpias # {}
  <2>1. v = PrimeraDesde(sinUso \cap limpias, Len(ch), m)
    BY <1>3 DEF ClockM
  <2>2. v \in sinUso \cap limpias
    BY <1>2, <1>3, <2>1
  <2> QED BY <2>2 DEF PeorPorUsoYCambio
<1>4. CASE sinUso \cap limpias = {} /\ sinUso # {}
  <2>1. v = PrimeraDesde(sinUso, Len(ch), m)
    BY <1>4 DEF ClockM
  <2>2. v \in sinUso
    BY <1>2, <1>4, <2>1
  <2>3. \A j \in DOMAIN ch : ~ch[j].uso => ch[j].modificado
    BY <1>4
  <2>4. ~ch[v].uso
    BY <2>2
  <2> QED BY <2>3, <2>4, Zenon DEF PeorPorUsoYCambio
<1>5. CASE sinUso = {} /\ limpias # {}
  <2>1. v = PrimeraDesde(limpias, Len(ch), m)
    BY <1>5 DEF ClockM
  <2>2. v \in limpias
    BY <1>2, <1>5, <2>1
  <2> QED BY <1>5, <2>2 DEF PeorPorUsoYCambio
<1>6. CASE sinUso = {} /\ limpias = {}
  <2> QED BY <1>6 DEF PeorPorUsoYCambio
<1>7. PeorPorUsoYCambio(ch, v)
  BY <1>3, <1>4, <1>5, <1>6
<1> QED BY <1>7

(* In a full list a miss replaces the page of the victim and no other.     *)
LEMMA TraeVictima ==
  ASSUME Inv, NEW c \in CPUs, NEW n, FalloDeCache(c, n),
         Len(cache[c]) = EntradasCache[c]
  PROVE  /\ cache[c] \in Seq(EntradaCache) /\ cache[c] # <<>>
         /\ puntero[c] \in DOMAIN cache[c]
         /\ DOMAIN Trae(c, n).cache = DOMAIN cache[c]
         /\ \A i \in DOMAIN cache[c] : i # Elige(c).victima =>
              Trae(c, n).cache[i].pagina = cache[c][i].pagina
<1> DEFINE ch == cache[c]
           q == Elige(c)
<1>1. ch \in Seq(EntradaCache) /\ Len(ch) \in Nat /\ DOMAIN ch = 1 .. Len(ch)
  BY LenProperties DEF Inv, TypeOK, EntradaCache
<1>2. Len(ch) > 0 /\ ch # <<>> /\ puntero[c] \in DOMAIN ch
  <2>1. EntradasCache[c] > 0 /\ puntero[c] \in Nat \ {0} /\ puntero[c] <= EntradasCache[c]
    BY DEF FalloDeCache, Inv, TypeOK, PunteroEnLista
  <2> QED BY <1>1, <2>1, EmptySeq
<1>3. Trae(c, n).cache = [q.queda EXCEPT ![q.victima] = Nueva(c, n)]
  <2>1. ~(Len(cache[c]) < EntradasCache[c])
    BY <1>1
  <2> QED BY <2>1 DEF Trae, Nueva
<1>4. q = Clock(ch, puntero[c]) \/ q = ClockM(ch, puntero[c])
  BY DEF Elige
<1> HIDE DEF q, ch
<1>5. DOMAIN q.queda = DOMAIN ch /\ \A i \in DOMAIN ch : SoloUso(q.queda[i], ch[i])
  BY <1>1, <1>2, <1>4, EligeProps
<1>6. \A i \in DOMAIN ch : i # q.victima => q.queda[i].pagina = ch[i].pagina
  BY <1>5 DEF SoloUso
<1> QED BY <1>1, <1>2, <1>3, <1>5, <1>6 DEF q, ch

LEMMA ClaseMenor ==
  ASSUME Inv, NEW c \in CPUs, cache[c] \in Seq(EntradaCache), cache[c] # <<>>,
         puntero[c] \in DOMAIN cache[c], NEW j \in DOMAIN cache[c]
  PROVE  Clase(c, cache[c][Elige(c).victima]) <= Clase(c, cache[c][j])
<1> DEFINE v == Elige(c).victima
<1>1. CASE ReemplazoCache[c] = "CLOCK"
  <2>1. PeorPorUso(cache[c], v)
    BY <1>1, ClockJusto DEF Elige
  <2> HIDE DEF v
  <2>2. cache[c][v].uso => cache[c][j].uso
    BY <2>1 DEF PeorPorUso
  <2>3. \A e : Clase(c, e) = IF e.uso THEN 1 ELSE 0
    BY <1>1 DEF Clase
  <2>4. Clase(c, cache[c][v]) <= Clase(c, cache[c][j])
    BY <2>2, <2>3
  <2> QED BY <2>4 DEF v
<1>2. CASE ReemplazoCache[c] # "CLOCK"
  <2>1. PeorPorUsoYCambio(cache[c], v)
    BY <1>2, ClockMJusto DEF Elige
  <2> HIDE DEF v
  <2>2. /\ cache[c][v].uso => cache[c][j].uso
        /\ cache[c][v].modificado /\ (cache[c][j].uso => cache[c][v].uso)
             => cache[c][j].modificado
    BY <2>1 DEF PeorPorUsoYCambio
  <2>3. \A e : Clase(c, e) = (IF e.uso THEN 2 ELSE 0) + (IF e.modificado THEN 1 ELSE 0)
    BY <1>2 DEF Clase
  <2>4. Clase(c, cache[c][v]) <= Clase(c, cache[c][j])
    BY <2>2, <2>3
  <2> QED BY <2>4 DEF v
<1> QED BY <1>1, <1>2

(* A step after which every list has the pages it had, or nothing.         *)
MismasPaginas(c) ==
  \/ \A i \in DOMAIN cache[c] : i \in DOMAIN cache'[c] => cache'[c][i].pagina = cache[c][i].pagina
  \/ DOMAIN cache'[c] = {}

LEMMA SinReemplazo == ASSUME NEW c \in CPUs, MismasPaginas(c) PROVE Reemplazadas(c) = {}
BY DEF MismasPaginas, Reemplazadas

LEMMA ReemplazoTrayendo ==
  ASSUME Inv, NEW c \in CPUs, NEW n, FalloDeCache(c, n),
         \A i \in DOMAIN Trae(c, n).cache :
           cache'[c][i].pagina = Trae(c, n).cache[i].pagina,
         NEW i \in Reemplazadas(c), NEW j \in DOMAIN cache[c]
  PROVE  Clase(c, cache[c][i]) <= Clase(c, cache[c][j])
<1>1. /\ i \in DOMAIN cache[c] /\ cache'[c][i].pagina # cache[c][i].pagina
      /\ Len(cache[c]) = EntradasCache[c]
  BY DEF Reemplazadas
<1>2. i = Elige(c).victima
  BY <1>1, TraeVictima
<1> QED BY <1>1, <1>2, TraeVictima, ClaseMenor

LEMMA VictimaInstruccion ==
  ASSUME Inv, NEW c \in CPUs, NEW n, Instruccion(c, n),
         NEW b \in CPUs, NEW i \in Reemplazadas(b), NEW j \in DOMAIN cache[b]
  PROVE  Clase(b, cache[b][i]) <= Clase(b, cache[b][j])
<1> DEFINE Menor == Clase(b, cache[b][i]) <= Clase(b, cache[b][j])
<1>1. ASSUME MismasPaginas(b) PROVE Menor
  BY <1>1, SinReemplazo
<1>2. ASSUME cache'[b] = cache[b] PROVE Menor
  BY <1>1, <1>2 DEF MismasPaginas
<1>3. CASE LeeDeCache(c, n)
  <2>1. MismasPaginas(b)
    BY <1>3, LeeDeCacheEfecto DEF MismasPaginas, SoloUso
  <2> QED BY <1>1, <2>1
<1>4. ASSUME NEW d \in Datos, EscribeEnCache(c, n, d) PROVE Menor
  <2>1. CASE b = c
    <3>1. PICK k \in EnCache(c, n) :
            \A m \in DOMAIN cache[c] :
              cache'[c][m] = IF m = k THEN Escrita(cache[c][k], d) ELSE cache[c][m]
      BY <1>4, EscribeEnCacheEfecto
    <3>2. Escrita(cache[c][k], d).pagina = cache[c][k].pagina
      <4>1. cache[c][k] \in EntradaCache
        BY <3>1, EntradaTipo, InvPartes DEF EnCache
      <4> QED BY <4>1 DEF Escrita, EntradaCache
    <3>3. MismasPaginas(c)
      BY <3>1, <3>2 DEF MismasPaginas
    <3> QED BY <1>1, <2>1, <3>3
  <2>2. CASE b # c
    BY <1>2, <1>4, <2>2, EscribeEnCacheEfecto
  <2> QED BY <2>1, <2>2
<1>5. CASE LeeTrayendo(c, n)
  <2>1. CASE b = c
    <3>1. cache'[c] = Trae(c, n).cache
      BY <1>5 DEF LeeTrayendo, Inv, Funciones
    <3>2. FalloDeCache(c, n)
      BY <1>5 DEF LeeTrayendo
    <3> QED BY <2>1, <3>1, <3>2, ReemplazoTrayendo
  <2>2. CASE b # c
    BY <1>2, <1>5, <2>2, LeeTrayendoEfecto
  <2> QED BY <2>1, <2>2
<1>6. ASSUME NEW d \in Datos, EscribeTrayendo(c, n, d) PROVE Menor
  <2>1. CASE b = c
    <3> DEFINE r == Trae(c, n)
    <3>1. /\ cache' = [cache EXCEPT ![c] = [k \in DOMAIN r.cache |->
                         IF r.cache[k].pagina = n THEN Escrita(r.cache[k], d)
                                                  ELSE r.cache[k]]]
          /\ FalloDeCache(c, n)
      BY <1>6 DEF EscribeTrayendo
    <3>0. Responde(c, n)
      BY <1>6 DEF EscribeTrayendo
    <3>2. \A k \in DOMAIN r.cache :
            cache'[c][k] = IF r.cache[k].pagina = n THEN Escrita(r.cache[k], d)
                                                    ELSE r.cache[k]
      <4> HIDE DEF r
      <4> QED BY <3>1 DEF Inv, Funciones
    <3>3. \A k \in DOMAIN r.cache : r.cache[k] \in EntradaCache
      <4>1. r.cache \in Seq(EntradaCache)
        BY <3>0, <3>1, TraeProps DEF FalloDeCache
      <4> HIDE DEF r
      <4> QED BY <4>1, ElementOfSeq, LenProperties
    <3>4. \A k \in DOMAIN r.cache : cache'[c][k].pagina = r.cache[k].pagina
      <4> HIDE DEF r
      <4> QED BY <3>2, <3>3 DEF Escrita, EntradaCache
    <3> QED BY <2>1, <3>1, <3>4, ReemplazoTrayendo
  <2>2. CASE b # c
    BY <1>2, <1>6, <2>2, EscribeTrayendoEfecto
  <2> QED BY <2>1, <2>2
<1>7. ASSUME cache' = cache PROVE Menor
  BY <1>2, <1>7
<1> QED BY <1>3, <1>4, <1>5, <1>6, <1>7
        DEF Instruccion, LeeDeMemoria, LeeFuera, EscribeEnMemoria, SinRespuesta

(* VictimaJusta: whatever the order of reads and writes and wherever the   *)
(* hand of CLOCK or CLOCK-M stands, the page that leaves a full cache is   *)
(* of the lowest class of those that are there.                            *)
THEOREM VictimaSiempre == Spec => VictimaJusta
<1> DEFINE Menor(c, i, j) == Clase(c, cache[c][i]) <= Clase(c, cache[c][j])
           Justa == \A c \in CPUs : \A i \in Reemplazadas(c) : \A j \in DOMAIN cache[c] :
                      Menor(c, i, j)
<1>1. Inv /\ Next => Justa
  <2> SUFFICES ASSUME Inv, Next, NEW b \in CPUs, NEW i \in Reemplazadas(b),
                      NEW j \in DOMAIN cache[b]
               PROVE  Menor(b, i, j)
    OBVIOUS
  <2> HIDE DEF Menor
  <2>1. ASSUME MismasPaginas(b) PROVE FALSE
    BY <2>1, SinReemplazo
  <2>2. ASSUME cache'[b] = cache[b] PROVE FALSE
    BY <2>1, <2>2 DEF MismasPaginas
  <2>3. ASSUME NEW c \in CPUs, NEW p \in Procesos, AtenderDispatch(c, p) PROVE FALSE
    BY <2>1, <2>2, <2>3, AtenderDispatchEfecto DEF MismasPaginas
  <2>4. ASSUME NEW c \in CPUs, NEW x \in Paginas, Instruccion(c, x[2]) PROVE Menor(b, i, j)
    BY <2>4, VictimaInstruccion DEF Menor
  <2> QED BY <2>2, <2>3, <2>4
          DEF Next, SyscallIO, SyscallIOSinRespuesta, SyscallDump, Desaloja, SinEnviar,
              SyscallExit, EliminaProceso, SuspendeProceso, DesuspendeProceso
<1>2. Inv /\ [Next]_vars => [Justa]_vars
  BY <1>1
<1>3. VictimaJusta <=> [][Justa]_vars
  BY DEF VictimaJusta
<1> HIDE DEF Justa
<1> QED BY <1>2, <1>3, InvInit, InvPaso, PTL DEF Spec
==============================================================================
