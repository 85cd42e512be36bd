---------------------------- MODULE Desalojo_proof ----------------------------
(***************************************************************************)
(* Who has the turn of each process.  From the moment it is taken to a CPU *)
(* a process is in the hands of one thread or socket at a time, and of one *)
(* CPU; a CPU is LIBRE again only when it has nothing of it.               *)
(***************************************************************************)
EXTENDS Desalojo, SequenceTheorems, FiniteSetTheorems, WellFoundedInduction, TLAPS

Mensajes == [tipo : {"EXIT", "IO", "DUMP", "CONTEXTO"}, p : Procesos]

(* A socket holds one message at most.                                     *)
Breve(s, S) == s = <<>> \/ \E x \in S : s = <<x>>

Tipos ==
  /\ donde \in [Procesos -> {"FUERA", "READY", "EXEC", "EXIT"}]
  /\ cpu \in [Cpus -> [estado : {"LIBRE", "OCUPADA"},
                       id_proceso : Procesos \cup {Nadie}]]
  /\ corto \in [paso : {"cpu", "ready", "elige", "proximo", "saca", "asigna",
                         "envia", "crono"},
                p : Procesos \cup {Nadie}, c : Cpus \cup {Nadie}]
  /\ atiende \in [Cpus -> [paso : {"recibe", "bloquea", "libera", "busca", "verifica"},
                           p : Procesos \cup {Nadie}]]
  /\ vuelca \subseteq Procesos
  /\ nucleo \in [Cpus -> [paso : {"recibe", "ejecuta", "borra", "limpia"},
                          p : Procesos \cup {Nadie}]]
  /\ despacho = [c \in Cpus |-> despacho[c]]
  /\ responde = [c \in Cpus |-> responde[c]]
  /\ \A c \in Cpus : Breve(despacho[c], Procesos) /\ Breve(responde[c], Mensajes)

(* The hands a process may be in.                                          *)
CortoTiene(p) == corto.paso \in {"asigna", "envia"} /\ corto.p = p

Corriendo(c) == nucleo[c].paso \in {"ejecuta", "borra"}

EnCpu(c, p) == \/ despacho[c] = <<p>>
               \/ Corriendo(c) /\ nucleo[c].p = p
               \/ responde[c] # <<>> /\ Head(responde[c]).p = p

HiloTiene(c, p) == /\ atiende[c].paso \in {"bloquea", "libera", "busca"}
                   /\ atiende[c].p = p

(* They are in EXEC, and no two at once.                                   *)
EnExec(p) ==
  /\ CortoTiene(p) \/ p \in vuelca => donde[p] = "EXEC"
  /\ \A c \in Cpus : EnCpu(c, p) \/ HiloTiene(c, p) => donde[p] = "EXEC"

UnaMano(p) ==
  /\ \A c, d \in Cpus : EnCpu(c, p) /\ EnCpu(d, p) => c = d
  /\ \A c, d \in Cpus : HiloTiene(c, p) /\ HiloTiene(d, p) => c = d
  /\ \A c, d \in Cpus : ~(EnCpu(c, p) /\ HiloTiene(d, p))
  /\ \A c \in Cpus : EnCpu(c, p) \/ HiloTiene(c, p) => ~CortoTiene(p) /\ p \notin vuelca
  /\ ~(CortoTiene(p) /\ p \in vuelca)

Turno == \A p \in Procesos : EnExec(p) /\ UnaMano(p)

(* The stages of a CPU's turn exclude each other, and none is left when it *)
(* is LIBRE.                                                               *)
Enviando(c) == corto.paso = "envia" /\ corto.c = c
Cerrando(c) == atiende[c].paso \in {"bloquea", "libera"}

UnaEtapa(c) ==
  /\ cpu[c].estado = "LIBRE" \/ Enviando(c) =>
       despacho[c] = <<>> /\ ~Corriendo(c) /\ responde[c] = <<>> /\ ~Cerrando(c)
  /\ cpu[c].estado = "LIBRE" => ~Enviando(c)
  /\ despacho[c] # <<>> => ~Corriendo(c) /\ responde[c] = <<>> /\ ~Cerrando(c)
  /\ Corriendo(c) => responde[c] = <<>> /\ ~Cerrando(c)
  /\ responde[c] # <<>> => ~Cerrando(c)

Etapas == \A c \in Cpus : UnaEtapa(c)

(* What has no name is in nobody's hands; what the planner chose is still  *)
(* where it was.                                                           *)
Elegidos ==
  /\ \A c \in Cpus : /\ Corriendo(c) => nucleo[c].p \in Procesos
                     /\ atiende[c].paso \in {"bloquea", "busca"} => atiende[c].p \in Procesos
  /\ corto.paso \in {"saca", "asigna", "envia"} => corto.p \in Procesos /\ corto.c \in Cpus
  /\ corto.paso \in {"proximo", "saca", "asigna"} =>
       corto.c \in Cpus /\ cpu[corto.c].estado = "LIBRE"
  /\ corto.paso = "saca" => donde[corto.p] = "READY"

Inv == Tipos /\ Turno /\ Etapas /\ Elegidos

(* While nothing crossed: an OCUPADA CPU is owed to the process it is      *)
(* named after, a process that is on a CPU is the name of that CPU and of  *)
(* none before it, and the CPUs before the one the planner has found are   *)
(* still taken.                                                            *)
Debe(c, p) == \/ Enviando(c) /\ corto.p = p
              \/ EnCpu(c, p)
              \/ atiende[c].paso = "bloquea" /\ atiende[c].p = p
              \/ atiende[c].paso = "libera" /\ (\/ atiende[c].p = p
                                               \/ donde[p] \in {"EXIT", "FUERA"})

NingunaAntes(c, p) == \A d \in Cpus : d < c => cpu[d].id_proceso # p

AntesOcupadas ==
  corto.paso = "proximo" => \A d \in Cpus : d < corto.c => cpu[d].estado = "OCUPADA"

Nombres ==
  ~cruce =>
    /\ \A c \in Cpus, p \in Procesos :
         /\ cpu[c].estado = "OCUPADA" /\ cpu[c].id_proceso = p => Debe(c, p)
         /\ EnCpu(c, p) \/ (Enviando(c) /\ corto.p = p) =>
              cpu[c].id_proceso = p /\ NingunaAntes(c, p)
    /\ AntesOcupadas
    /\ corto.paso \in {"saca", "asigna"} => NingunaAntes(corto.c, corto.p)

------------------------------------------------------------------------------
(* Sequences of one message.                                               *)
LEMMA UnMensaje ==
  ASSUME NEW x
  PROVE  /\ Append(<<>>, x) = <<x>> /\ Head(<<x>>) = x /\ Tail(<<x>>) = <<>>
         /\ <<x>> # <<>> /\ \A y : <<y>> = <<x>> => y = x
OBVIOUS

LEMMA Breves ==
  ASSUME NEW S, NEW s, Breve(s, S), s # <<>>
  PROVE  Head(s) \in S /\ s = <<Head(s)>> /\ Tail(s) = <<>>
BY UnMensaje DEF Breve

(* A CPU and a thread that a step leaves alone.                            *)
LEMMA OtraCpu ==
  ASSUME NEW d, despacho'[d] = despacho[d], responde'[d] = responde[d],
         nucleo'[d] = nucleo[d]
  PROVE  \A p : EnCpu(d, p)' <=> EnCpu(d, p)
BY DEF EnCpu, Corriendo

LEMMA OtroHilo ==
  ASSUME NEW d, atiende'[d] = atiende[d]
  PROVE  \A p : HiloTiene(d, p)' <=> HiloTiene(d, p)
BY DEF HiloTiene

(* A process that no step brings closer to a CPU.                          *)
LEMMA Ajeno ==
  ASSUME NEW p \in Procesos, EnExec(p), UnaMano(p), donde'[p] = donde[p],
         CortoTiene(p)' => CortoTiene(p), p \in vuelca' => p \in vuelca,
         \A c \in Cpus : EnCpu(c, p)' => EnCpu(c, p),
         \A c \in Cpus : HiloTiene(c, p)' => HiloTiene(c, p)
  PROVE  EnExec(p)' /\ UnaMano(p)'
BY DEF EnExec, UnaMano

(* A process in nobody's hands.                                            *)
LEMMA EnNinguna ==
  ASSUME NEW p \in Procesos, ~CortoTiene(p)', p \notin vuelca',
         \A c \in Cpus : ~EnCpu(c, p)' /\ ~HiloTiene(c, p)'
  PROVE  EnExec(p)' /\ UnaMano(p)'
BY DEF EnExec, UnaMano

(* What a CPU has is of one process.                                       *)
LEMMA UnProceso ==
  ASSUME Inv, NEW c \in Cpus, NEW p, NEW q, EnCpu(c, p), EnCpu(c, q)
  PROVE  p = q
<1>1. UnaEtapa(c)
  BY DEF Inv, Etapas
<1> QED BY <1>1, UnMensaje DEF UnaEtapa, EnCpu

LEMMA InvInit == Init => Inv
<1> SUFFICES ASSUME Init PROVE Inv
  OBVIOUS
<1>1. Nadie \notin Procesos \cup Cpus
  BY DesalojoOk
<1>2. Tipos
  BY DEF Init, Tipos, Breve
<1>3. Turno
  BY <1>1 DEF Init, Turno, EnExec, UnaMano, CortoTiene, EnCpu, Corriendo, HiloTiene
<1>4. Etapas
  BY DEF Init, Etapas, UnaEtapa, Enviando, Corriendo, Cerrando
<1>5. Elegidos
  BY DEF Init, Elegidos, Corriendo
<1> QED BY <1>2, <1>3, <1>4, <1>5 DEF Inv

(* Steps that touch none of this.                                          *)
varsTurno == <<donde, cpu, corto, atiende, vuelca, nucleo, despacho, responde>>

LEMMA Quieta == Inv /\ UNCHANGED varsTurno => Inv'
BY DEF Inv, varsTurno, Tipos, Turno, EnExec, UnaMano, CortoTiene, EnCpu, HiloTiene,
       Etapas, UnaEtapa, Enviando, Corriendo, Cerrando, Elegidos

------------------------------------------------------------------------------
(* The instruction cycle: what CPU c has stays what it has.                *)
Conserva == \A d \in Cpus, p \in Procesos : EnCpu(d, p)' <=> EnCpu(d, p)

LEMMA EnLaCpu ==
  ASSUME Inv, NEW c \in Cpus, UNCHANGED <<donde, cpu, corto, atiende, vuelca>>,
         Tipos', UnaEtapa(c)', Corriendo(c)' => nucleo'[c].p \in Procesos,
         \A d \in Cpus \ {c} : /\ despacho'[d] = despacho[d] /\ responde'[d] = responde[d]
                               /\ nucleo'[d] = nucleo[d],
         \A p \in Procesos : EnCpu(c, p)' <=> EnCpu(c, p)
  PROVE  Inv' /\ Conserva
<1>1. Conserva
  BY OtraCpu DEF Conserva
<1>2. \A d \in Cpus, p \in Procesos : HiloTiene(d, p)' => HiloTiene(d, p)
  BY OtroHilo
<1>3. Turno'
  <2> SUFFICES ASSUME NEW p \in Procesos PROVE EnExec(p)' /\ UnaMano(p)'
    BY DEF Turno
  <2>1. CortoTiene(p)' => CortoTiene(p)
    BY DEF CortoTiene
  <2> QED BY <1>1, <1>2, <2>1, Ajeno DEF Inv, Turno, Conserva
<1>4. Etapas'
  <2>1. ASSUME NEW d \in Cpus, d # c PROVE UnaEtapa(d)'
    BY <2>1 DEF Inv, Etapas, UnaEtapa, Enviando, Corriendo, Cerrando
  <2> QED BY <2>1 DEF Etapas
<1>5. Elegidos'
  BY DEF Inv, Elegidos, Corriendo
<1> QED BY <1>1, <1>3, <1>4, <1>5 DEF Inv

LEMMA PasoRecibeProceso == ASSUME Inv, NEW c \in Cpus, RecibeProceso(c) PROVE Inv' /\ Conserva
<1>1. /\ Head(despacho[c]) \in Procesos /\ despacho[c] = <<Head(despacho[c])>>
      /\ Tail(despacho[c]) = <<>> /\ despacho[c] # <<>>
  BY Breves DEF Inv, Tipos, RecibeProceso
<1>2. /\ despacho'[c] = <<>> /\ responde' = responde /\ nucleo'[c].paso = "ejecuta"
      /\ nucleo'[c].p = Head(despacho[c])
      /\ \A d \in Cpus \ {c} : despacho'[d] = despacho[d] /\ nucleo'[d] = nucleo[d]
  BY <1>1 DEF Inv, Tipos, RecibeProceso
<1>3. UnaEtapa(c)
  BY DEF Inv, Etapas
<1>5. UNCHANGED <<donde, cpu, corto, atiende, vuelca>>
  BY DEF RecibeProceso, varsPcb
<1>4. Tipos'
  <2>1. \A d \in Cpus : Breve(despacho'[d], Procesos)
    BY <1>2 DEF Inv, Tipos, Breve
  <2>2. /\ nucleo' \in [Cpus -> [paso : {"recibe", "ejecuta", "borra", "limpia"},
                               p : Procesos \cup {Nadie}]]
        /\ despacho' = [d \in Cpus |-> despacho'[d]]
    BY <1>1 DEF Inv, Tipos, RecibeProceso
  <2> QED BY <1>2, <1>5, <2>1, <2>2 DEF Inv, Tipos
<1>6. UnaEtapa(c)'
  BY <1>1, <1>2, <1>3, <1>5 DEF UnaEtapa, Enviando, Corriendo, Cerrando
<1>7. \A p \in Procesos : EnCpu(c, p)' <=> EnCpu(c, p)
  BY <1>1, <1>2, <1>3, UnMensaje DEF EnCpu, UnaEtapa, Corriendo
<1> QED BY <1>1, <1>2, <1>4, <1>5, <1>6, <1>7, EnLaCpu

(* A message that ends the turn, whatever the cycle does next.             *)
LEMMA PasoContesta ==
  ASSUME Inv, NEW c \in Cpus, NEW tipo \in {"EXIT", "IO", "DUMP", "CONTEXTO"},
         nucleo[c].paso = "ejecuta", Contesta(c, tipo),
         NEW paso \in {"recibe", "limpia"}, NEW q \in Procesos \cup {Nadie},
         nucleo' = [nucleo EXCEPT ![c] = [paso |-> paso, p |-> q]],
         UNCHANGED <<donde, cpu, corto, atiende, vuelca, despacho>>
  PROVE  Inv' /\ Conserva
<1>1. Corriendo(c) /\ nucleo[c].p \in Procesos
  BY DEF Inv, Elegidos, Corriendo
<1>2. UnaEtapa(c) /\ responde[c] = <<>>
  BY <1>1 DEF Inv, Etapas, UnaEtapa
<1>3. /\ responde'[c] = <<[tipo |-> tipo, p |-> nucleo[c].p]>>
      /\ nucleo'[c].paso \notin {"ejecuta", "borra"}
      /\ \A d \in Cpus \ {c} : responde'[d] = responde[d] /\ nucleo'[d] = nucleo[d]
  BY <1>2, UnMensaje DEF Inv, Tipos, Contesta, Corre
<1>4. /\ Head(responde'[c]) = [tipo |-> tipo, p |-> nucleo[c].p]
      /\ responde'[c] # <<>>
  BY <1>3, UnMensaje
<1>5. Tipos'
  <2>1. Breve(responde'[c], Mensajes)
    BY <1>1, <1>3 DEF Breve, Mensajes
  <2> QED BY <1>3, <2>1 DEF Inv, Tipos, Contesta
<1>6. UnaEtapa(c)'
  BY <1>1, <1>2, <1>3, <1>4 DEF UnaEtapa, Enviando, Corriendo, Cerrando
<1>7. \A p \in Procesos : EnCpu(c, p)' <=> EnCpu(c, p)
  BY <1>1, <1>2, <1>3, <1>4 DEF EnCpu, UnaEtapa, Corriendo
<1>8. ~Corriendo(c)'
  BY <1>3 DEF Corriendo
<1> QED BY <1>3, <1>5, <1>6, <1>7, <1>8, EnLaCpu

LEMMA PasoSyscall ==
  ASSUME Inv, NEW c \in Cpus, NEW tipo \in {"EXIT", "IO", "DUMP"}, Syscall(c, tipo)
  PROVE  Inv' /\ Conserva
BY PasoContesta DEF Syscall, Nucleo, varsPcb

LEMMA PasoEnviaContexto == ASSUME Inv, NEW c \in Cpus, EnviaContexto(c) PROVE Inv' /\ Conserva
<1>2. /\ nucleo[c].p \in Procesos \cup {Nadie}
      /\ nucleo[c] \in [paso : {"recibe", "ejecuta", "borra", "limpia"},
                        p : Procesos \cup {Nadie}]
  BY DEF Inv, Tipos
<1>3. [nucleo[c] EXCEPT !.paso = "limpia"] = [paso |-> "limpia", p |-> nucleo[c].p]
  BY <1>2
<1>1. nucleo' = [nucleo EXCEPT ![c] = [paso |-> "limpia", p |-> nucleo[c].p]]
  BY <1>3 DEF EnviaContexto, SigueEn
<1> QED BY <1>1, <1>2, PasoContesta DEF EnviaContexto, Nucleo, varsPcb

(* checkInterrupt without an interrupt.                                    *)
LEMMA PasoCiclo ==
  ASSUME Inv, NEW c \in Cpus, SinInterrupcion(c) \/ BorraPid(c) \/ LimpiaDesalojo(c)
  PROVE  Inv' /\ Conserva
<1>1. /\ nucleo' = [nucleo EXCEPT ![c] = nucleo'[c]]
      /\ Corriendo(c)' <=> Corriendo(c)
      /\ Corriendo(c) => nucleo'[c].p = nucleo[c].p
      /\ nucleo'[c] \in [paso : {"recibe", "ejecuta", "borra", "limpia"},
                         p : Procesos \cup {Nadie}]
  BY DEF Inv, Tipos, SinInterrupcion, BorraPid, LimpiaDesalojo, Nucleo, SigueEn, Corriendo
<1>2. UNCHANGED <<donde, cpu, corto, atiende, vuelca, despacho, responde>>
  BY DEF SinInterrupcion, BorraPid, LimpiaDesalojo, varsPcb
<1>3. \A d \in Cpus \ {c} : nucleo'[d] = nucleo[d]
  BY <1>1 DEF Inv, Tipos
<1>4. Tipos'
  BY <1>1, <1>2 DEF Inv, Tipos
<1>5. UnaEtapa(c)'
  BY <1>1, <1>2 DEF Inv, Etapas, UnaEtapa, Enviando, Cerrando
<1>6. \A p \in Procesos : EnCpu(c, p)' <=> EnCpu(c, p)
  BY <1>1, <1>2 DEF EnCpu
<1>7. Corriendo(c)' => nucleo'[c].p \in Procesos
  BY <1>1 DEF Inv, Elegidos
<1> QED BY <1>2, <1>3, <1>4, <1>5, <1>6, <1>7, EnLaCpu

------------------------------------------------------------------------------
(* The planner.                                                            *)

LEMMA PrimeraEsta ==
  ASSUME NEW s \in SUBSET Cpus, s # {}
  PROVE  Primera(s) \in s /\ \A d \in s : Primera(s) <= d
<1> DEFINE R == {ss \in Nat \X Nat : ss[1] < ss[2]}
<1>1. CantCpus \in Nat /\ s \subseteq Nat
  BY DesalojoOk DEF Cpus
<1>2. IsWellFoundedOn(R, Nat)
  BY NatLessThanWellFounded, Zenon DEF OpToRel
<1>3. \E c \in s : \A d \in s : c <= d
  <2> HIDE DEF R
  <2>1. PICK c \in s : \A d \in s : ~(<<d, c>> \in R)
    BY <1>1, <1>2, WFMin
  <2>2. \A d \in s : ~(d < c)
    BY <1>1, <2>1 DEF R
  <2> QED BY <1>1, <2>2
<1> QED BY <1>3 DEF Primera

LEMMA PrimeraEs ==
  ASSUME NEW s \in SUBSET Cpus, NEW c \in s, \A d \in Cpus : d < c => d \notin s
  PROVE  Primera(s) = c
<1>1. Primera(s) \in s /\ Primera(s) <= c
  BY PrimeraEsta
<1>2. Primera(s) \in Cpus /\ c \in Cpus
  BY <1>1
<1>3. ~(Primera(s) < c)
  BY <1>1, <1>2
<1>4. Primera(s) \in Int /\ c \in Int
  BY <1>2, DesalojoOk DEF Cpus
<1> QED BY <1>1, <1>3, <1>4

TipoCorto == [paso : {"cpu", "ready", "elige", "proximo", "saca", "asigna", "envia", "crono"},
              p : Procesos \cup {Nadie}, c : Cpus \cup {Nadie}]

(* Before it moves the process, or after it is done with it.               *)
LEMMA CortoSinProceso ==
  ASSUME Inv, UNCHANGED <<donde, cpu, atiende, vuelca, nucleo, despacho, responde>>,
         corto' \in TipoCorto, corto'.paso \in {"cpu", "ready", "elige", "proximo", "saca"},
         corto'.paso \in {"proximo", "saca"} => /\ corto'.c \in Cpus
                                                /\ cpu[corto'.c].estado = "LIBRE",
         corto'.paso = "saca" => corto'.p \in Procesos /\ donde[corto'.p] = "READY"
  PROVE  Inv'
<1>1. Tipos'
  BY DEF Inv, Tipos, TipoCorto
<1>2. Turno'
  <2> SUFFICES ASSUME NEW p \in Procesos PROVE EnExec(p)' /\ UnaMano(p)'
    BY DEF Turno
  <2>1. ~CortoTiene(p)'
    BY DEF CortoTiene
  <2>2. \A c \in Cpus : (EnCpu(c, p)' => EnCpu(c, p)) /\ (HiloTiene(c, p)' => HiloTiene(c, p))
    BY OtraCpu, OtroHilo
  <2> QED BY <2>1, <2>2, Ajeno DEF Inv, Turno
<1>3. Etapas'
  BY DEF Inv, Etapas, UnaEtapa, Enviando, Corriendo, Cerrando
<1>4. Elegidos'
  BY DEF Inv, Elegidos, Corriendo
<1> QED BY <1>1, <1>2, <1>3, <1>4 DEF Inv

LEMMA PasoCortoEspera ==
  ASSUME Inv, CortoEsperaCpu \/ CortoEsperaReady \/ CortoCrono PROVE Inv'
<1>1. corto' \in TipoCorto /\ corto'.paso \in {"cpu", "ready", "elige"}
  <2>1. corto \in TipoCorto
    BY DEF Inv, Tipos, TipoCorto
  <2>2. \/ corto' = [corto EXCEPT !.paso = "ready"]
        \/ corto' = [corto EXCEPT !.paso = "elige"]
        \/ corto' = [paso |-> "cpu", p |-> Nadie, c |-> Nadie]
    BY DEF CortoEsperaCpu, CortoEsperaReady, CortoCrono
  <2> QED BY <2>1, <2>2 DEF TipoCorto
<1>2. UNCHANGED <<donde, cpu, atiende, vuelca, nucleo, despacho, responde>>
  BY DEF CortoEsperaCpu, CortoEsperaReady, CortoCrono, varsPcb, varsCpu
<1> QED BY <1>1, <1>2, CortoSinProceso

LEMMA BuscaLibre ==
  ASSUME Inv, CortoBuscaCpu
  PROVE  /\ corto' \in TipoCorto /\ corto'.paso \in {"cpu", "proximo"}
         /\ corto'.paso = "proximo" => /\ corto'.c \in Cpus
                                       /\ cpu[corto'.c].estado = "LIBRE"
                                       /\ \A d \in Cpus : d < corto'.c =>
                                            cpu[d].estado = "OCUPADA"
<1>0. corto \in TipoCorto
  BY DEF Inv, Tipos, TipoCorto
<1>1. CASE Libres = {}
  BY <1>0, <1>1 DEF CortoBuscaCpu, TipoCorto
<1>2. CASE Libres # {}
  <2>2. Primera(Libres) \in Libres /\ \A d \in Libres : Primera(Libres) <= d
    BY <1>2, PrimeraEsta DEF Libres
  <2>0. PICK c \in Libres : c = Primera(Libres)
    BY <2>2
  <2>1. corto' = [corto EXCEPT !.paso = "proximo", !.c = c]
    BY <1>2, <2>0 DEF CortoBuscaCpu
  <2>5. c \in Cpus /\ cpu[c].estado = "LIBRE"
    BY DEF Libres
  <2>3. Cpus \subseteq Int
    BY DesalojoOk DEF Cpus
  <2>4. ASSUME NEW d \in Cpus, d < c PROVE cpu[d].estado = "OCUPADA"
    <3>3. c \in Int /\ d \in Int
      BY <2>3, <2>5
    <3>1. d \notin Libres
      BY <2>0, <2>2, <2>4, <3>3
    <3>2. cpu[d].estado \in {"LIBRE", "OCUPADA"}
      BY DEF Inv, Tipos
    <3> QED BY <3>1, <3>2 DEF Libres
  <2>6. corto'.paso = "proximo" /\ corto'.c = c /\ corto' \in TipoCorto
    BY <1>0, <2>1, <2>5 DEF TipoCorto
  <2> QED BY <2>4, <2>5, <2>6
<1> QED BY <1>1, <1>2

LEMMA EligeDeReady ==
  ASSUME Inv, CortoElige
  PROVE  \/ corto' = corto
         \/ /\ corto' \in TipoCorto /\ corto'.paso = "saca" /\ corto'.c = corto.c
            /\ corto'.p \in Procesos /\ donde[corto'.p] = "READY"
<1>0. corto \in TipoCorto
  BY DEF Inv, Tipos, TipoCorto
<1>1. CASE Lista("READY") = {}
  BY <1>1 DEF CortoElige
<1>2. CASE Lista("READY") # {}
  <2>1. PICK p \in Lista("READY") : corto' = [corto EXCEPT !.paso = "saca", !.p = p]
    BY <1>2 DEF CortoElige
  <2>2. p \in Procesos /\ donde[p] = "READY"
    BY DEF Lista
  <2> QED BY <1>0, <2>1, <2>2 DEF TipoCorto
<1> QED BY <1>1, <1>2

LEMMA PasoCortoElige == ASSUME Inv, CortoBuscaCpu \/ CortoElige PROVE Inv'
<1>1. UNCHANGED <<donde, cpu, atiende, vuelca, nucleo, despacho, responde>>
  BY DEF CortoBuscaCpu, CortoElige, varsPcb, varsCpu
<1>2. CASE CortoBuscaCpu
  BY <1>1, <1>2, BuscaLibre, CortoSinProceso
<1>3. CASE CortoElige
  <2>1. corto.c \in Cpus /\ cpu[corto.c].estado = "LIBRE"
    BY <1>3 DEF Inv, Elegidos, CortoElige, Corto
  <2>2. CASE corto' = corto
    BY <1>1, <2>2, Quieta DEF varsTurno
  <2>3. CASE corto' # corto
    BY <1>1, <1>3, <2>1, <2>3, EligeDeReady, CortoSinProceso
  <2> QED BY <2>2, <2>3
<1> QED BY <1>2, <1>3

LEMMA PasoCortoSaca == ASSUME Inv, CortoSaca PROVE Inv'
<1> DEFINE q == corto.p
<1>1. /\ q \in Procesos /\ corto.c \in Cpus /\ cpu[corto.c].estado = "LIBRE"
      /\ donde[q] = "READY" /\ corto.paso = "saca"
  BY DEF Inv, Elegidos, CortoSaca, Corto
<1>2. /\ corto' = [corto EXCEPT !.paso = "asigna"]
      /\ donde' = [donde EXCEPT ![q] = "EXEC"]
      /\ UNCHANGED <<cpu, atiende, vuelca, nucleo, despacho, responde>>
  BY DEF CortoSaca, varsCpu
<1>3. corto'.paso = "asigna" /\ corto'.p = q /\ corto'.c = corto.c
  BY <1>2 DEF Inv, Tipos
<1>4. donde'[q] = "EXEC" /\ \A p \in Procesos \ {q} : donde'[p] = donde[p]
  BY <1>1, <1>2 DEF Inv, Tipos
<1>5. Tipos'
  <2>1. corto' \in TipoCorto
    BY <1>2 DEF Inv, Tipos, TipoCorto
  <2>2. donde' \in [Procesos -> {"FUERA", "READY", "EXEC", "EXIT"}]
    BY <1>2 DEF Inv, Tipos
  <2> QED BY <1>2, <2>1, <2>2 DEF Inv, Tipos, TipoCorto
<1>6. Turno'
  <2> SUFFICES ASSUME NEW p \in Procesos PROVE EnExec(p)' /\ UnaMano(p)'
    BY DEF Turno
  <2>1. \A c \in Cpus : (EnCpu(c, p)' => EnCpu(c, p)) /\ (HiloTiene(c, p)' => HiloTiene(c, p))
    BY <1>2, OtraCpu, OtroHilo
  <2>2. EnExec(p) /\ UnaMano(p)
    BY DEF Inv, Turno
  <2>3. CASE p # q
    <3>1. ~CortoTiene(p)'
      BY <1>3, <2>3 DEF CortoTiene
    <3> QED BY <1>2, <1>4, <2>1, <2>2, <2>3, <3>1, Ajeno
  <2>4. CASE p = q
    <3>1. p \notin vuelca' /\ \A c \in Cpus : ~EnCpu(c, p)' /\ ~HiloTiene(c, p)'
      BY <1>1, <1>2, <2>1, <2>2, <2>4 DEF EnExec
    <3> QED BY <1>4, <2>4, <3>1 DEF EnExec, UnaMano
  <2> QED BY <2>3, <2>4
<1>7. Etapas'
  BY <1>1, <1>2, <1>3 DEF Inv, Etapas, UnaEtapa, Enviando, Corriendo, Cerrando
<1>8. Elegidos'
  BY <1>1, <1>2, <1>3 DEF Inv, Elegidos, Corriendo
<1> QED BY <1>5, <1>6, <1>7, <1>8 DEF Inv

LEMMA PasoCortoAsigna == ASSUME Inv, CortoAsigna PROVE Inv'
<1>1. /\ corto.p \in Procesos /\ corto.c \in Cpus /\ cpu[corto.c].estado = "LIBRE"
      /\ corto.paso = "asigna"
  BY DEF Inv, Elegidos, CortoAsigna, Corto
<1>2. /\ corto' = [corto EXCEPT !.paso = "envia"]
      /\ cpu' = [cpu EXCEPT ![corto.c] = [estado |-> "OCUPADA", id_proceso |-> corto.p]]
      /\ UNCHANGED <<donde, atiende, vuelca, nucleo, despacho, responde>>
  BY DEF CortoAsigna, varsPcb, varsCpu
<1>3. corto'.paso = "envia" /\ corto'.p = corto.p /\ corto'.c = corto.c
  BY <1>2 DEF Inv, Tipos
<1>4. /\ cpu'[corto.c].estado = "OCUPADA"
      /\ \A c \in Cpus \ {corto.c} : cpu'[c] = cpu[c]
  BY <1>1, <1>2 DEF Inv, Tipos
<1>5. Tipos'
  <2>1. corto' \in TipoCorto
    BY <1>2 DEF Inv, Tipos, TipoCorto
  <2>2. cpu' \in [Cpus -> [estado : {"LIBRE", "OCUPADA"}, id_proceso : Procesos \cup {Nadie}]]
    BY <1>1, <1>2 DEF Inv, Tipos
  <2> QED BY <1>2, <2>1, <2>2 DEF Inv, Tipos, TipoCorto
<1>6. Turno'
  <2> SUFFICES ASSUME NEW p \in Procesos PROVE EnExec(p)' /\ UnaMano(p)'
    BY DEF Turno
  <2>1. \A c \in Cpus : (EnCpu(c, p)' => EnCpu(c, p)) /\ (HiloTiene(c, p)' => HiloTiene(c, p))
    BY <1>2, OtraCpu, OtroHilo
  <2>2. CortoTiene(p)' => CortoTiene(p)
    BY <1>1, <1>3 DEF CortoTiene
  <2> QED BY <1>2, <2>1, <2>2, Ajeno DEF Inv, Turno
<1>7. Etapas'
  <2> SUFFICES ASSUME NEW c \in Cpus PROVE UnaEtapa(c)'
    BY DEF Etapas
  <2>1. UnaEtapa(c)
    BY DEF Inv, Etapas
  <2>2. CASE c = corto.c
    BY <1>1, <1>2, <1>3, <1>4, <2>1, <2>2 DEF UnaEtapa, Enviando, Corriendo, Cerrando
  <2>3. CASE c # corto.c
    BY <1>2, <1>3, <1>4, <2>1, <2>3 DEF UnaEtapa, Enviando, Corriendo, Cerrando
  <2> QED BY <2>2, <2>3
<1>8. Elegidos'
  BY <1>1, <1>2, <1>3 DEF Inv, Elegidos, Corriendo
<1> QED BY <1>5, <1>6, <1>7, <1>8 DEF Inv

LEMMA PasoCortoEnvia == ASSUME Inv, CortoEnvia PROVE Inv'
<1> DEFINE q == corto.p  a == corto.c
<1>1. q \in Procesos /\ a \in Cpus /\ corto.paso = "envia" /\ Enviando(a)
  BY DEF Inv, Elegidos, CortoEnvia, Corto, Enviando
<1>2. /\ corto' = [corto EXCEPT !.paso = "crono"]
      /\ despacho' = [despacho EXCEPT ![a] = Append(@, q)]
      /\ UNCHANGED <<donde, cpu, atiende, vuelca, nucleo, responde>>
  BY DEF CortoEnvia, varsPcb, varsCpu
<1>3. corto'.paso = "crono" /\ corto'.p = q /\ corto'.c = a
  BY <1>2 DEF Inv, Tipos
<1>4. /\ despacho[a] = <<>> /\ ~Corriendo(a) /\ responde[a] = <<>> /\ ~Cerrando(a)
      /\ cpu[a].estado # "LIBRE"
  BY <1>1 DEF Inv, Etapas, UnaEtapa
<1>5. despacho'[a] = <<q>> /\ \A c \in Cpus \ {a} : despacho'[c] = despacho[c]
  BY <1>1, <1>2, <1>4, UnMensaje DEF Inv, Tipos
<1>6. Tipos'
  <2>1. corto' \in TipoCorto
    BY <1>2 DEF Inv, Tipos, TipoCorto
  <2>2. despacho' = [c \in Cpus |-> despacho'[c]]
    BY <1>2 DEF Inv, Tipos
  <2>3. \A c \in Cpus : Breve(despacho'[c], Procesos)
    BY <1>1, <1>5 DEF Inv, Tipos, Breve
  <2> QED BY <1>2, <2>1, <2>2, <2>3 DEF Inv, Tipos, TipoCorto
<1>7. Turno'
  <2> SUFFICES ASSUME NEW p \in Procesos PROVE EnExec(p)' /\ UnaMano(p)'
    BY DEF Turno
  <2>1. \A c \in Cpus \ {a} : EnCpu(c, p)' => EnCpu(c, p)
    BY <1>2, <1>5, OtraCpu
  <2>2. EnCpu(a, p)' => p = q
    BY <1>2, <1>4, <1>5, UnMensaje DEF EnCpu, Corriendo
  <2>3. \A c \in Cpus : HiloTiene(c, p)' => HiloTiene(c, p)
    BY <1>2, OtroHilo
  <2>4. EnExec(p) /\ UnaMano(p) /\ ~CortoTiene(p)'
    BY <1>3 DEF Inv, Turno, CortoTiene
  <2>5. CASE p # q
    BY <1>2, <2>1, <2>2, <2>3, <2>4, <2>5, Ajeno
  <2>6. CASE p = q
    <3>1. CortoTiene(p)
      BY <1>1, <2>6 DEF CortoTiene
    <3>2. p \notin vuelca' /\ \A c \in Cpus : ~HiloTiene(c, p)' /\ (EnCpu(c, p)' => c = a)
      BY <1>2, <2>1, <2>3, <2>4, <3>1 DEF UnaMano
    <3>3. donde'[p] = "EXEC"
      BY <1>2, <2>4, <3>1 DEF EnExec
    <3> QED BY <2>4, <3>2, <3>3 DEF EnExec, UnaMano
  <2> QED BY <2>5, <2>6
<1>8. Etapas'
  <2> SUFFICES ASSUME NEW c \in Cpus PROVE UnaEtapa(c)'
    BY DEF Etapas
  <2>1. UnaEtapa(c)
    BY DEF Inv, Etapas
  <2>2. CASE c = a
    BY <1>2, <1>3, <1>4, <1>5, <2>2 DEF UnaEtapa, Enviando, Corriendo, Cerrando
  <2>3. CASE c # a
    BY <1>2, <1>3, <1>5, <2>1, <2>3 DEF UnaEtapa, Enviando, Corriendo, Cerrando
  <2> QED BY <2>2, <2>3
<1>9. Elegidos'
  BY <1>1, <1>2, <1>3 DEF Inv, Elegidos, Corriendo
<1> QED BY <1>6, <1>7, <1>8, <1>9 DEF Inv

------------------------------------------------------------------------------
(* The thread that serves a CPU.                                           *)

TipoAtiende == [paso : {"recibe", "bloquea", "libera", "busca", "verifica"},
                p : Procesos \cup {Nadie}]

(* The message thread c takes, and what is then left of the CPU's turn.    *)
LEMMA Toma ==
  ASSUME Inv, NEW c \in Cpus, atiende[c].paso = "recibe", responde[c] # <<>>, Consume(c)
  PROVE  /\ De(c) \in Procesos /\ EnCpu(c, De(c)) /\ donde[De(c)] = "EXEC"
         /\ cpu[c].estado = "OCUPADA" /\ ~Enviando(c)
         /\ responde'[c] = <<>> /\ despacho[c] = <<>> /\ ~Corriendo(c)
         /\ responde' = [d \in Cpus |-> responde'[d]]
         /\ \A d \in Cpus \ {c} : responde'[d] = responde[d]
         /\ \A d \in Cpus : Breve(responde'[d], Mensajes)
<1>1. Head(responde[c]) \in Mensajes /\ Tail(responde[c]) = <<>>
  <2>1. Breve(responde[c], Mensajes)
    BY DEF Inv, Tipos
  <2> QED BY <2>1, Breves
<1>2. De(c) \in Procesos
  BY <1>1 DEF De, Mensajes
<1>3. EnCpu(c, De(c))
  BY DEF EnCpu, De
<1>4. donde[De(c)] = "EXEC"
  BY <1>2, <1>3 DEF Inv, Turno, EnExec
<1>5. UnaEtapa(c) /\ cpu[c].estado \in {"LIBRE", "OCUPADA"}
  BY DEF Inv, Etapas, Tipos
<1>6. cpu[c].estado = "OCUPADA" /\ ~Enviando(c) /\ despacho[c] = <<>> /\ ~Corriendo(c)
  BY <1>5 DEF UnaEtapa
<1>7. /\ responde'[c] = <<>> /\ \A d \in Cpus \ {c} : responde'[d] = responde[d]
      /\ responde' = [d \in Cpus |-> responde'[d]]
  BY <1>1 DEF Inv, Tipos, Consume
<1>8. \A d \in Cpus : Breve(responde'[d], Mensajes)
  BY <1>7 DEF Inv, Tipos, Breve
<1> QED BY <1>2, <1>3, <1>4, <1>6, <1>7, <1>8

(* It passes from the CPU to the hands of the thread, or out of EXEC.      *)
LEMMA PasoToma ==
  ASSUME Inv, NEW c \in Cpus, atiende[c].paso = "recibe", responde[c] # <<>>, Consume(c),
         UNCHANGED <<corto, vuelca, nucleo, despacho>>,
         NEW paso \in {"bloquea", "libera", "busca"}, NEW q \in {De(c), Nadie},
         atiende' = [atiende EXCEPT ![c] = [paso |-> paso, p |-> q]],
         paso # "libera" => q = De(c),
         IF paso = "busca" THEN cpu' = [cpu EXCEPT ![c].estado = "LIBRE"]
                           ELSE cpu' = cpu,
         IF q = De(c) THEN donde' = donde ELSE donde' = [donde EXCEPT ![De(c)] = "EXIT"]
  PROVE  Inv'
<1> DEFINE r == De(c)
<1>1. /\ r \in Procesos /\ EnCpu(c, r) /\ donde[r] = "EXEC"
      /\ cpu[c].estado = "OCUPADA" /\ ~Enviando(c)
      /\ responde'[c] = <<>> /\ despacho[c] = <<>> /\ ~Corriendo(c)
      /\ responde' = [d \in Cpus |-> responde'[d]]
      /\ \A d \in Cpus \ {c} : responde'[d] = responde[d]
      /\ \A d \in Cpus : Breve(responde'[d], Mensajes)
  BY Toma
<1> HIDE DEF r
<1>2. Nadie \notin Procesos
  BY DesalojoOk
<1>3. /\ atiende'[c].paso = paso /\ atiende'[c].p = q
      /\ \A d \in Cpus \ {c} : atiende'[d] = atiende[d]
      /\ atiende' \in [Cpus -> TipoAtiende]
  <2>1. atiende \in [Cpus -> TipoAtiende] /\ q \in Procesos \cup {Nadie}
    BY <1>1 DEF Inv, Tipos, TipoAtiende, r
  <2> QED BY <2>1 DEF TipoAtiende
<1>4. /\ cpu' \in [Cpus -> [estado : {"LIBRE", "OCUPADA"}, id_proceso : Procesos \cup {Nadie}]]
      /\ \A d \in Cpus \ {c} : cpu'[d] = cpu[d]
      /\ cpu'[c].estado = "LIBRE" => paso = "busca"
  <2>1. cpu \in [Cpus -> [estado : {"LIBRE", "OCUPADA"}, id_proceso : Procesos \cup {Nadie}]]
    BY DEF Inv, Tipos
  <2> QED BY <1>1, <2>1
<1>5. /\ donde' \in [Procesos -> {"FUERA", "READY", "EXEC", "EXIT"}]
      /\ \A p \in Procesos \ {r} : donde'[p] = donde[p]
      /\ q = r => donde'[r] = "EXEC"
  <2>1. donde \in [Procesos -> {"FUERA", "READY", "EXEC", "EXIT"}]
    BY DEF Inv, Tipos
  <2> QED BY <1>1, <2>1 DEF r
<1>6. Tipos'
  BY <1>1, <1>3, <1>4, <1>5 DEF Inv, Tipos, TipoAtiende
<1>7. Turno'
  <2> SUFFICES ASSUME NEW p \in Procesos PROVE EnExec(p)' /\ UnaMano(p)'
    BY DEF Turno
  <2>1. \A d \in Cpus \ {c} : /\ EnCpu(d, p)' <=> EnCpu(d, p)
                              /\ HiloTiene(d, p)' <=> HiloTiene(d, p)
    BY <1>1, <1>3, OtraCpu, OtroHilo
  <2>2. ~EnCpu(c, p)'
    BY <1>1, UnMensaje DEF EnCpu, Corriendo
  <2>3. HiloTiene(c, p)' => p = q
    BY <1>3 DEF HiloTiene
  <2>4. EnExec(p) /\ UnaMano(p) /\ (CortoTiene(p)' <=> CortoTiene(p))
    BY DEF Inv, Turno, CortoTiene
  <2>5. CASE p # r
    <3>1. ~HiloTiene(c, p)'
      BY <1>2, <2>3, <2>5 DEF r
    <3> QED BY <1>5, <2>1, <2>2, <2>4, <2>5, <3>1, Ajeno
  <2>6. CASE p = r
    <3>1. /\ ~CortoTiene(p)' /\ p \notin vuelca'
          /\ \A d \in Cpus : ~EnCpu(d, p)' /\ (HiloTiene(d, p)' => d = c)
      BY <1>1, <2>1, <2>2, <2>4, <2>6 DEF UnaMano
    <3>2. CASE q = r
      BY <1>5, <2>6, <3>1, <3>2 DEF EnExec, UnaMano
    <3>3. CASE q # r
      <4>1. ~HiloTiene(c, p)'
        BY <2>3, <2>6, <3>3
      <4> QED BY <3>1, <4>1, EnNinguna
    <3> QED BY <3>2, <3>3
  <2> QED BY <2>5, <2>6
<1>8. Etapas'
  <2> SUFFICES ASSUME NEW d \in Cpus PROVE UnaEtapa(d)'
    BY DEF Etapas
  <2>1. UnaEtapa(d)
    BY DEF Inv, Etapas
  <2>2. CASE d = c
    BY <1>1, <1>3, <1>4, <2>2 DEF UnaEtapa, Enviando, Corriendo, Cerrando
  <2>3. CASE d # c
    BY <1>1, <1>3, <1>4, <2>1, <2>3 DEF UnaEtapa, Enviando, Corriendo, Cerrando
  <2> QED BY <2>2, <2>3
<1>9. Elegidos'
  <2>1. \A d \in Cpus : /\ Corriendo(d)' => nucleo'[d].p \in Procesos
                        /\ atiende'[d].paso \in {"bloquea", "busca"} => atiende'[d].p \in Procesos
    BY <1>1, <1>3 DEF Inv, Elegidos, Corriendo, r
  <2>2. /\ corto'.paso \in {"saca", "asigna", "envia"} => corto'.p \in Procesos /\ corto'.c \in Cpus
        /\ corto'.paso \in {"proximo", "saca", "asigna"} =>
             corto'.c \in Cpus /\ cpu'[corto'.c].estado = "LIBRE"
    BY <1>1, <1>4 DEF Inv, Elegidos
  <2>3. corto'.paso = "saca" => donde'[corto'.p] = "READY"
    BY <1>1, <1>5 DEF Inv, Elegidos
  <2> QED BY <2>1, <2>2, <2>3 DEF Elegidos
<1> QED BY <1>6, <1>7, <1>8, <1>9 DEF Inv

LEMMA PasoAtiende ==
  ASSUME Inv, NEW c \in Cpus,
         AtiendeExit(c) \/ AtiendeIO(c) \/ AtiendeDump(c) \/ AtiendeContexto(c)
  PROVE  Inv'
<1>1. ASSUME AtiendeExit(c) PROVE Inv'
  <2>1. De(c) # Nadie
    <3>1. Head(responde[c]) \in Mensajes
      BY <1>1, Breves DEF Inv, Tipos, AtiendeExit, Recibe
    <3> QED BY <3>1, DesalojoOk DEF De, Mensajes
  <2> QED BY <1>1, <2>1, PasoToma DEF AtiendeExit, Recibe, Atiende, varsCpu
<1>2. ASSUME AtiendeIO(c) PROVE Inv'
  BY <1>2, PasoToma DEF AtiendeIO, Recibe, Atiende, varsCpu
<1>3. ASSUME AtiendeDump(c) PROVE Inv'
  BY <1>3, PasoToma DEF AtiendeDump, Recibe, Atiende, varsCpu
<1>4. ASSUME AtiendeContexto(c) PROVE Inv'
  BY <1>4, PasoToma DEF AtiendeContexto, Recibe, Atiende, LiberaCpu, varsCpu, varsPcb
<1> QED BY <1>1, <1>2, <1>3, <1>4

(* What the kernel does with a process that is on no CPU: out of the hands *)
(* of its threads.                                                         *)
LEMMA Suelta ==
  ASSUME Inv, UNCHANGED <<cpu, corto, nucleo, despacho, responde>>,
         donde' \in [Procesos -> {"FUERA", "READY", "EXEC", "EXIT"}],
         atiende' \in [Cpus -> TipoAtiende], vuelca' \subseteq vuelca,
         \A d \in Cpus : Cerrando(d)' => Cerrando(d),
         \A d \in Cpus : atiende'[d].paso \in {"bloquea", "busca"} => atiende'[d].p \in Procesos,
         NEW S \in SUBSET Procesos,
         \A q \in Procesos \ S : donde'[q] = donde[q],
         \A q \in Procesos, d \in Cpus : HiloTiene(d, q)' => HiloTiene(d, q) /\ q \notin S,
         \A q \in S : /\ q \notin vuelca' /\ ~CortoTiene(q)
                      /\ \A d \in Cpus : ~EnCpu(d, q)
                      /\ donde[q] # "READY"
  PROVE  Inv'
<1>1. Tipos'
  BY DEF Inv, Tipos, TipoAtiende
<1>2. Turno'
  <2> SUFFICES ASSUME NEW p \in Procesos PROVE EnExec(p)' /\ UnaMano(p)'
    BY DEF Turno
  <2>1. \A d \in Cpus : EnCpu(d, p)' => EnCpu(d, p)
    BY OtraCpu
  <2>2. CortoTiene(p)' => CortoTiene(p)
    BY DEF CortoTiene
  <2>3. CASE p \notin S
    BY <2>1, <2>2, <2>3, Ajeno DEF Inv, Turno
  <2>4. CASE p \in S
    BY <2>1, <2>2, <2>4, EnNinguna
  <2> QED BY <2>3, <2>4
<1>3. Etapas'
  <2> SUFFICES ASSUME NEW d \in Cpus PROVE UnaEtapa(d)'
    BY DEF Etapas
  <2>1. UnaEtapa(d) /\ (Cerrando(d)' => Cerrando(d))
    BY DEF Inv, Etapas
  <2>2. (Enviando(d)' <=> Enviando(d)) /\ (Corriendo(d)' <=> Corriendo(d))
    BY DEF Enviando, Corriendo
  <2> QED BY <2>1, <2>2 DEF UnaEtapa
<1>4. Elegidos'
  <2>1. corto.paso = "saca" => corto.p \in Procesos \ S
    BY DEF Inv, Elegidos
  <2> QED BY <2>1 DEF Inv, Elegidos, Corriendo
<1> QED BY <1>1, <1>2, <1>3, <1>4 DEF Inv

LEMMA PasoLlega == ASSUME Inv, NEW p \in Procesos, Llega(p) PROVE Inv'
<1>1. /\ donde[p] = "FUERA" /\ donde' = [donde EXCEPT ![p] = "READY"]
      /\ UNCHANGED <<cpu, corto, nucleo, despacho, responde, atiende, vuelca>>
  BY DEF Llega, varsCpu
<1>2. /\ donde' \in [Procesos -> {"FUERA", "READY", "EXEC", "EXIT"}]
      /\ \A q \in Procesos \ {p} : donde'[q] = donde[q]
      /\ atiende' \in [Cpus -> TipoAtiende]
  BY <1>1 DEF Inv, Tipos, TipoAtiende
<1>3. EnExec(p)
  BY DEF Inv, Turno
<1>4. /\ p \notin vuelca /\ ~CortoTiene(p)
      /\ \A d \in Cpus : ~EnCpu(d, p) /\ ~HiloTiene(d, p)
  BY <1>1, <1>3 DEF EnExec
<1>5. \A q \in Procesos, d \in Cpus : HiloTiene(d, q)' => HiloTiene(d, q) /\ q \notin {p}
  BY <1>1, <1>4, OtroHilo
<1>6. \A d \in Cpus : /\ Cerrando(d)' => Cerrando(d)
                      /\ atiende'[d].paso \in {"bloquea", "busca"} => atiende'[d].p \in Procesos
  BY <1>1 DEF Cerrando, Inv, Elegidos
<1>7. {p} \in SUBSET Procesos
  BY <1>1
<1>8. vuelca' \subseteq vuelca
  BY <1>1
<1>9. \A q \in {p} : /\ q \notin vuelca' /\ ~CortoTiene(q)
                     /\ \A d \in Cpus : ~EnCpu(d, q)
                     /\ donde[q] # "READY"
  BY <1>1, <1>4
<1> QED BY <1>1, <1>2, <1>4, <1>5, <1>6, <1>7, <1>8, <1>9, Suelta

LEMMA PasoBloquea == ASSUME Inv, NEW c \in Cpus, Bloquea(c) PROVE Inv'
<1> DEFINE p == atiende[c].p
<1>1. /\ p \in Procesos /\ HiloTiene(c, p) /\ Cerrando(c)
      /\ donde' = [donde EXCEPT ![p] = "FUERA"]
      /\ atiende' = [atiende EXCEPT ![c] = [paso |-> "libera", p |-> Nadie]]
      /\ UNCHANGED <<cpu, corto, nucleo, despacho, responde, vuelca>>
  BY DEF Bloquea, Atiende, varsCpu, Inv, Elegidos, HiloTiene, Cerrando
<1>2. /\ donde' \in [Procesos -> {"FUERA", "READY", "EXEC", "EXIT"}]
      /\ \A q \in Procesos \ {p} : donde'[q] = donde[q]
      /\ atiende' \in [Cpus -> TipoAtiende]
      /\ atiende'[c].paso = "libera" /\ atiende'[c].p = Nadie
      /\ \A d \in Cpus \ {c} : atiende'[d] = atiende[d]
  BY <1>1 DEF Inv, Tipos, TipoAtiende
<1> HIDE DEF p
<1>3. EnExec(p) /\ UnaMano(p)
  BY <1>1 DEF Inv, Turno
<1>4. /\ p \notin vuelca /\ ~CortoTiene(p) /\ donde[p] = "EXEC"
      /\ \A d \in Cpus : ~EnCpu(d, p) /\ (d # c => ~HiloTiene(d, p))
  BY <1>1, <1>3 DEF EnExec, UnaMano
<1>5. ASSUME NEW q \in Procesos, NEW d \in Cpus, HiloTiene(d, q)'
      PROVE  HiloTiene(d, q) /\ q \notin {p}
  <2>1. d # c
    BY <1>2, <1>5, DesalojoOk DEF HiloTiene
  <2> QED BY <1>2, <1>4, <1>5, <2>1, OtroHilo
<1>6. \A d \in Cpus : /\ Cerrando(d)' => Cerrando(d)
                      /\ atiende'[d].paso \in {"bloquea", "busca"} => atiende'[d].p \in Procesos
  BY <1>1, <1>2 DEF Cerrando, Inv, Elegidos
<1>7. {p} \in SUBSET Procesos
  BY <1>1
<1>8. vuelca' \subseteq vuelca
  BY <1>1
<1>9. \A q \in {p} : /\ q \notin vuelca' /\ ~CortoTiene(q)
                     /\ \A d \in Cpus : ~EnCpu(d, q)
                     /\ donde[q] # "READY"
  BY <1>1, <1>4
<1> QED BY <1>1, <1>2, <1>4, <1>5, <1>6, <1>7, <1>8, <1>9, Suelta

LEMMA PasoVuelca == ASSUME Inv, NEW p \in Procesos, Vuelca(p) PROVE Inv'
<1>1. /\ p \in vuelca /\ donde' = [donde EXCEPT ![p] = "FUERA"] /\ vuelca' = vuelca \ {p}
      /\ UNCHANGED <<cpu, corto, nucleo, despacho, responde, atiende>>
  BY DEF Vuelca, varsCpu
<1>2. /\ donde' \in [Procesos -> {"FUERA", "READY", "EXEC", "EXIT"}]
      /\ \A q \in Procesos \ {p} : donde'[q] = donde[q]
      /\ atiende' \in [Cpus -> TipoAtiende]
  BY <1>1 DEF Inv, Tipos, TipoAtiende
<1>3. EnExec(p) /\ UnaMano(p)
  BY DEF Inv, Turno
<1>4. /\ p \notin vuelca' /\ ~CortoTiene(p) /\ donde[p] = "EXEC"
      /\ \A d \in Cpus : ~EnCpu(d, p) /\ ~HiloTiene(d, p)
  BY <1>1, <1>3 DEF EnExec, UnaMano
<1>5. \A q \in Procesos, d \in Cpus : HiloTiene(d, q)' => HiloTiene(d, q) /\ q \notin {p}
  BY <1>1, <1>4, OtroHilo
<1>6. \A d \in Cpus : /\ Cerrando(d)' => Cerrando(d)
                      /\ atiende'[d].paso \in {"bloquea", "busca"} => atiende'[d].p \in Procesos
  BY <1>1 DEF Cerrando, Inv, Elegidos
<1>7. {p} \in SUBSET Procesos
  BY <1>1
<1>8. vuelca' \subseteq vuelca
  BY <1>1
<1>9. \A q \in {p} : /\ q \notin vuelca' /\ ~CortoTiene(q)
                     /\ \A d \in Cpus : ~EnCpu(d, q)
                     /\ donde[q] # "READY"
  BY <1>1, <1>4
<1> QED BY <1>1, <1>2, <1>4, <1>5, <1>6, <1>7, <1>8, <1>9, Suelta

LEMMA PasoDevuelve == ASSUME Inv, NEW c \in Cpus, Devuelve(c) PROVE Inv'
<1> DEFINE p == atiende[c].p
<1>1. /\ p \in Procesos /\ HiloTiene(c, p)
      /\ UNCHANGED <<cpu, corto, nucleo, despacho, responde, vuelca>>
  BY DEF Devuelve, Atiende, varsCpu, Inv, Elegidos, HiloTiene
<1>2. \/ /\ donde' = [donde EXCEPT ![p] = "READY"]
         /\ atiende' = [atiende EXCEPT ![c].paso = "verifica"]
      \/ /\ donde' = donde
         /\ atiende' = [atiende EXCEPT ![c] = [paso |-> "recibe", p |-> Nadie]]
  BY DEF Devuelve
<1>3. /\ donde' \in [Procesos -> {"FUERA", "READY", "EXEC", "EXIT"}]
      /\ \A q \in Procesos \ {p} : donde'[q] = donde[q]
  BY <1>1, <1>2 DEF Inv, Tipos
<1>4. /\ atiende' \in [Cpus -> TipoAtiende]
      /\ atiende'[c].paso \in {"verifica", "recibe"}
      /\ \A d \in Cpus \ {c} : atiende'[d] = atiende[d]
  <2>1. atiende \in [Cpus -> TipoAtiende]
    BY DEF Inv, Tipos, TipoAtiende
  <2> QED BY <1>2, <2>1 DEF TipoAtiende
<1> HIDE DEF p
<1>5. EnExec(p) /\ UnaMano(p)
  BY <1>1 DEF Inv, Turno
<1>6. /\ p \notin vuelca /\ ~CortoTiene(p) /\ donde[p] = "EXEC"
      /\ \A d \in Cpus : ~EnCpu(d, p) /\ (d # c => ~HiloTiene(d, p))
  BY <1>1, <1>5 DEF EnExec, UnaMano
<1>7. ASSUME NEW q \in Procesos, NEW d \in Cpus, HiloTiene(d, q)'
      PROVE  HiloTiene(d, q) /\ q \notin {p}
  <2>1. d # c
    BY <1>4, <1>7 DEF HiloTiene
  <2> QED BY <1>4, <1>6, <1>7, <2>1, OtroHilo
<1>8. \A d \in Cpus : /\ Cerrando(d)' => Cerrando(d)
                      /\ atiende'[d].paso \in {"bloquea", "busca"} => atiende'[d].p \in Procesos
  BY <1>4 DEF Cerrando, Inv, Elegidos
<1> QED BY <1>1, <1>3, <1>4, <1>6, <1>7, <1>8, Suelta

LEMMA PasoDesmarca == ASSUME Inv, NEW c \in Cpus, Desmarca(c) PROVE Inv'
<1>1. /\ atiende' = [atiende EXCEPT ![c] = [paso |-> "recibe", p |-> Nadie]]
      /\ UNCHANGED <<donde, cpu, corto, nucleo, despacho, responde, vuelca>>
  BY DEF Desmarca, varsCpu
<1>2. /\ atiende' \in [Cpus -> TipoAtiende] /\ atiende'[c].paso = "recibe"
      /\ \A d \in Cpus \ {c} : atiende'[d] = atiende[d]
      /\ donde' \in [Procesos -> {"FUERA", "READY", "EXEC", "EXIT"}]
  BY <1>1 DEF Inv, Tipos, TipoAtiende
<1>3. \A q \in Procesos, d \in Cpus : HiloTiene(d, q)' => HiloTiene(d, q) /\ q \notin {}
  BY <1>2, OtroHilo DEF HiloTiene
<1>4. \A d \in Cpus : /\ Cerrando(d)' => Cerrando(d)
                      /\ atiende'[d].paso \in {"bloquea", "busca"} => atiende'[d].p \in Procesos
  BY <1>2 DEF Cerrando, Inv, Elegidos
<1>5. {} \in SUBSET Procesos /\ \A q \in {} : FALSE
  OBVIOUS
<1> QED BY <1>1, <1>2, <1>3, <1>4, <1>5, Suelta

LEMMA PasoLibera == ASSUME Inv, NEW c \in Cpus, Libera(c) PROVE Inv'
<1> DEFINE r == atiende[c].p
<1>1. /\ atiende[c].paso = "libera"
      /\ cpu' = [cpu EXCEPT ![c].estado = "LIBRE"]
      /\ vuelca' = vuelca \cup ({r} \ {Nadie})
      /\ atiende' = [atiende EXCEPT ![c] = [paso |-> "recibe", p |-> Nadie]]
      /\ UNCHANGED <<donde, corto, nucleo, despacho, responde>>
  BY DEF Libera, LiberaCpu, Atiende, varsPcb, varsCpu
<1>2. /\ atiende' \in [Cpus -> TipoAtiende] /\ atiende'[c].paso = "recibe"
      /\ \A d \in Cpus \ {c} : atiende'[d] = atiende[d]
      /\ r \in Procesos \cup {Nadie}
  BY <1>1 DEF Inv, Tipos, TipoAtiende
<1>3. /\ cpu' \in [Cpus -> [estado : {"LIBRE", "OCUPADA"}, id_proceso : Procesos \cup {Nadie}]]
      /\ \A d \in Cpus \ {c} : cpu'[d] = cpu[d]
  BY <1>1 DEF Inv, Tipos
<1>8. cpu'[c].estado = "LIBRE"
  BY <1>1 DEF Inv, Tipos
<1>4. Tipos'
  BY <1>1, <1>2, <1>3 DEF Inv, Tipos, TipoAtiende
<1>5. Turno'
  <2> SUFFICES ASSUME NEW p \in Procesos PROVE EnExec(p)' /\ UnaMano(p)'
    BY DEF Turno
  <2>1. \A d \in Cpus : EnCpu(d, p)' <=> EnCpu(d, p)
    BY <1>1, OtraCpu
  <2>2. /\ ~HiloTiene(c, p)'
        /\ \A d \in Cpus : HiloTiene(d, p)' => HiloTiene(d, p)
    BY <1>2, OtroHilo DEF HiloTiene
  <2>3. CortoTiene(p)' <=> CortoTiene(p)
    BY <1>1 DEF CortoTiene
  <2>4. EnExec(p) /\ UnaMano(p)
    BY DEF Inv, Turno
  <2>5. CASE p # r
    BY <1>1, <2>1, <2>2, <2>3, <2>4, <2>5, Ajeno
  <2>6. CASE p = r
    <3>1. HiloTiene(c, p)
      BY <1>1, <2>6 DEF HiloTiene
    <3>2. /\ donde'[p] = "EXEC" /\ ~CortoTiene(p)'
          /\ \A d \in Cpus : ~EnCpu(d, p)' /\ ~HiloTiene(d, p)'
      BY <1>1, <2>1, <2>2, <2>3, <2>4, <3>1 DEF EnExec, UnaMano
    <3> QED BY <3>2 DEF EnExec, UnaMano
  <2> QED BY <2>5, <2>6
<1>6. Etapas'
  <2> SUFFICES ASSUME NEW d \in Cpus PROVE UnaEtapa(d)'
    BY DEF Etapas
  <2>1. UnaEtapa(d)
    BY DEF Inv, Etapas
  <2>2. CASE d = c
    <3>1. Cerrando(c)
      BY <1>1 DEF Cerrando
    <3>2. /\ ~Enviando(c) /\ despacho[c] = <<>> /\ ~Corriendo(c) /\ responde[c] = <<>>
      BY <2>1, <2>2, <3>1 DEF UnaEtapa
    <3> QED BY <1>1, <1>2, <2>2, <3>2 DEF UnaEtapa, Enviando, Corriendo, Cerrando
  <2>3. CASE d # c
    BY <1>1, <1>2, <1>3, <2>1, <2>3 DEF UnaEtapa, Enviando, Corriendo, Cerrando
  <2> QED BY <2>2, <2>3
<1>7. Elegidos'
  <2>1. \A d \in Cpus : /\ Corriendo(d)' => nucleo'[d].p \in Procesos
                        /\ atiende'[d].paso \in {"bloquea", "busca"} => atiende'[d].p \in Procesos
    BY <1>1, <1>2 DEF Inv, Elegidos, Corriendo
  <2>2. \A d \in Cpus : cpu[d].estado = "LIBRE" => cpu'[d].estado = "LIBRE"
    BY <1>3, <1>8
  <2> QED BY <1>1, <2>1, <2>2 DEF Inv, Elegidos
<1> QED BY <1>4, <1>5, <1>6, <1>7 DEF Inv

------------------------------------------------------------------------------
(* The whole step.                                                         *)

LEMMA PasoVerificacion == ASSUME Inv, NEW t \in Hilos, Verificacion(t) PROVE Inv'
<1>1. UNCHANGED varsTurno
  BY DEF Verificacion, MiraCpus, NadieMasLargo, MasLargo, ComparaSinCrono, PideDesalojo,
         PideANinguna, Cae, Marca, varsTurno, varsPcb, varsCpu
<1> QED BY <1>1, Quieta

LEMMA PasoCortoPlazo == ASSUME Inv, CortoPlazo PROVE Inv'
BY PasoCortoEspera, PasoCortoElige, PasoCortoSaca, PasoCortoAsigna, PasoCortoEnvia
   DEF CortoPlazo

LEMMA PasoCpu == ASSUME Inv, NEW c \in Cpus, Cpu(c) \/ TerminaTurno(c) PROVE Inv'
<1>1. ASSUME LeeInterrupcion(c) \/ MarcaInterrupcion(c) PROVE Inv'
  <2>1. UNCHANGED varsTurno
    BY <1>1 DEF LeeInterrupcion, MarcaInterrupcion, varsTurno, varsPcb
  <2> QED BY <2>1, Quieta
<1> QED BY <1>1, PasoRecibeProceso, PasoCiclo, PasoEnviaContexto, PasoSyscall
        DEF Cpu, TerminaTurno

LEMMA PasoHiloCpu == ASSUME Inv, NEW c \in Cpus, HiloCpu(c) PROVE Inv'
BY PasoAtiende, PasoBloquea, PasoLibera, PasoDevuelve, PasoDesmarca DEF HiloCpu

LEMMA InvPaso == Inv /\ [Next]_vars => Inv'
<1> SUFFICES ASSUME Inv, [Next]_vars PROVE Inv'
  OBVIOUS
<1>1. ASSUME NEW p \in Procesos, Llega(p) \/ Avisa(p) \/ Vuelca(p) PROVE Inv'
  <2>1. ASSUME Avisa(p) PROVE Inv'
    BY <2>1, Quieta DEF Avisa, varsTurno, varsPcb, varsCpu
  <2> QED BY <1>1, <2>1, PasoLlega, PasoVuelca
<1>2. CASE UNCHANGED vars
  BY <1>2, Quieta DEF vars, varsTurno, varsPcb, varsCpu
<1> QED BY <1>1, <1>2, PasoVerificacion, PasoCortoPlazo, PasoCpu, PasoHiloCpu DEF Next

(* A CPU that waits for a process has none.                                *)
Ociosas == \A c \in Cpus : nucleo[c].paso = "recibe" => nucleo[c].p = Nadie

LEMMA OciosasPaso == Inv /\ Ociosas /\ [Next]_vars => Ociosas'
<1> SUFFICES ASSUME Inv, Ociosas, [Next]_vars PROVE Ociosas'
  OBVIOUS
<1>1. ASSUME nucleo' = nucleo PROVE Ociosas'
  BY <1>1 DEF Ociosas
<1>2. ASSUME NEW c \in Cpus, NEW q,
             \/ nucleo' = [nucleo EXCEPT ![c] = [paso |-> "recibe", p |-> Nadie]]
             \/ nucleo' = [nucleo EXCEPT ![c] = [paso |-> "ejecuta", p |-> q]]
             \/ nucleo' = [nucleo EXCEPT ![c].paso = "ejecuta"]
             \/ nucleo' = [nucleo EXCEPT ![c].paso = "borra"]
             \/ nucleo' = [nucleo EXCEPT ![c].paso = "limpia"]
      PROVE  Ociosas'
  <2>1. nucleo \in [Cpus -> [paso : {"recibe", "ejecuta", "borra", "limpia"},
                            p : Procesos \cup {Nadie}]]
    BY DEF Inv, Tipos
  <2>2. /\ \A d \in Cpus \ {c} : nucleo'[d] = nucleo[d]
        /\ nucleo'[c].paso = "recibe" => nucleo'[c].p = Nadie
    BY <1>2, <2>1
  <2> QED BY <2>2 DEF Ociosas
<1>3. ASSUME NEW p \in Procesos, Llega(p) \/ Avisa(p) \/ Vuelca(p) PROVE Ociosas'
  BY <1>1, <1>3 DEF Llega, Avisa, Vuelca, varsCpu
<1>4. ASSUME NEW t \in Hilos, Verificacion(t) PROVE Ociosas'
  BY <1>1, <1>4 DEF Verificacion, MiraCpus, NadieMasLargo, MasLargo, ComparaSinCrono,
                    PideDesalojo, PideANinguna, Cae, Marca, varsCpu
<1>5. ASSUME CortoPlazo PROVE Ociosas'
  BY <1>1, <1>5 DEF CortoPlazo, CortoEsperaCpu, CortoEsperaReady, CortoBuscaCpu, CortoElige,
                    CortoSaca, CortoAsigna, CortoEnvia, CortoCrono, varsCpu
<1>6. ASSUME NEW c \in Cpus, Cpu(c) \/ TerminaTurno(c) PROVE Ociosas'
  <2>1. ASSUME LeeInterrupcion(c) \/ MarcaInterrupcion(c) PROVE Ociosas'
    BY <1>1, <2>1 DEF LeeInterrupcion, MarcaInterrupcion
  <2>2. ASSUME RecibeProceso(c) \/ LimpiaDesalojo(c) PROVE Ociosas'
    BY <1>2, <2>2 DEF RecibeProceso, LimpiaDesalojo
  <2>3. ASSUME SinInterrupcion(c) \/ BorraPid(c) \/ EnviaContexto(c) PROVE Ociosas'
    BY <1>2, <2>3 DEF SinInterrupcion, BorraPid, EnviaContexto, SigueEn
  <2>4. ASSUME TerminaTurno(c) PROVE Ociosas'
    BY <1>2, <2>4 DEF TerminaTurno, Syscall
  <2> QED BY <1>6, <2>1, <2>2, <2>3, <2>4 DEF Cpu
<1>7. ASSUME NEW c \in Cpus, HiloCpu(c) PROVE Ociosas'
  BY <1>1, <1>7 DEF HiloCpu, AtiendeExit, AtiendeIO, Bloquea, AtiendeDump, Libera,
                    AtiendeContexto, Devuelve, Desmarca, varsCpu
<1>8. CASE UNCHANGED vars
  BY <1>1, <1>8 DEF vars, varsCpu
<1> QED BY <1>3, <1>4, <1>5, <1>6, <1>7, <1>8 DEF Next

(* Each process is in one pair of hands and each CPU at one stage of its   *)
(* turn, in every reachable state: planificacion_corto, the cycle and the  *)
(* threads of the CPUs pass a turn on and never copy it.                   *)
THEOREM InvSiempre == Spec => [](Inv /\ Ociosas)
<1>1. Init => Inv /\ Ociosas
  BY InvInit DEF Init, Ociosas
<1>2. Inv /\ Ociosas /\ [Next]_vars => (Inv /\ Ociosas)'
  BY InvPaso, OciosasPaso
<1> QED BY <1>1, <1>2, PTL DEF Spec

------------------------------------------------------------------------------
(* What a socket holds is its first message.                               *)
LEMMA TieneEnCpu ==
  ASSUME Inv, Ociosas, NEW c \in Cpus, NEW p \in Procesos, Tiene(c, p)
  PROVE  EnCpu(c, p)
<1>1. Breve(despacho[c], Procesos) /\ Breve(responde[c], Mensajes)
  BY DEF Inv, Tipos
<1>2. ASSUME NEW i \in DOMAIN despacho[c], despacho[c][i] = p PROVE EnCpu(c, p)
  <2>1. PICK q \in Procesos : despacho[c] = <<q>>
    BY <1>1, <1>2 DEF Breve
  <2> QED BY <1>2, <2>1 DEF EnCpu
<1>3. ASSUME NEW i \in DOMAIN responde[c], responde[c][i].p = p PROVE EnCpu(c, p)
  <2>1. PICK m \in Mensajes : responde[c] = <<m>>
    BY <1>1, <1>3 DEF Breve
  <2>2. responde[c] # <<>> /\ Head(responde[c]) = m /\ responde[c][i] = m
    BY <1>3, <2>1, UnMensaje
  <2> QED BY <1>3, <2>2 DEF EnCpu
<1>4. ASSUME nucleo[c].p = p, nucleo[c].paso # "limpia" PROVE EnCpu(c, p)
  <2>1. nucleo[c].paso # "recibe"
    BY <1>4, DesalojoOk DEF Ociosas
  <2>2. Corriendo(c)
    BY <1>4, <2>1 DEF Inv, Tipos, Corriendo
  <2> QED BY <1>4, <2>2 DEF EnCpu
<1> QED BY <1>2, <1>3, <1>4 DEF Tiene

LEMMA UnoSolo ==
  ASSUME NEW S, \A a, b \in S : a = b
  PROVE  Cardinality(S) <= 1
<1>1. CASE S = {}
  BY <1>1, FS_EmptySet
<1>2. CASE S # {}
  <2>1. PICK a \in S : TRUE
    BY <1>2
  <2>2. S = {a}
    BY <2>1
  <2> QED BY <2>2, FS_Singleton
<1> QED BY <1>1, <1>2

(* EnUnaCpu, for any number of CPUs and of processes and however the       *)
(* requests to preempt arrive: planificacion_corto, the instruction cycle  *)
(* and espera_rta_cpu never leave a process on two CPUs or two on one.     *)
THEOREM EnUnaCpuSiempre == Spec => []EnUnaCpu
<1>1. Inv /\ Ociosas => EnUnaCpu
  <2> SUFFICES ASSUME Inv, Ociosas PROVE EnUnaCpu
    OBVIOUS
  <2>1. ASSUME NEW p \in Procesos PROVE Cardinality({c \in Cpus : Tiene(c, p)}) <= 1
    <3>1. ASSUME NEW c \in Cpus, NEW d \in Cpus, Tiene(c, p), Tiene(d, p) PROVE c = d
      BY <3>1, TieneEnCpu DEF Inv, Turno, UnaMano
    <3> QED BY <3>1, UnoSolo
  <2>2. ASSUME NEW c \in Cpus PROVE Cardinality({p \in Procesos : Tiene(c, p)}) <= 1
    <3>1. ASSUME NEW p \in Procesos, NEW q \in Procesos, Tiene(c, p), Tiene(c, q) PROVE p = q
      BY <3>1, TieneEnCpu, UnProceso
    <3> QED BY <3>1, UnoSolo
  <2> QED BY <2>1, <2>2 DEF EnUnaCpu
<1> QED BY <1>1, InvSiempre, PTL

(* MensajeEnExec: the process an answer names is in the list where the     *)
(* thread that reads it looks for it.                                      *)
THEOREM MensajeEnExecSiempre == Spec => []MensajeEnExec
<1>1. Inv /\ Ociosas => MensajeEnExec
  <2> SUFFICES ASSUME Inv, Ociosas, NEW c \in Cpus
               PROVE  /\ \A i \in DOMAIN responde[c] : donde[responde[c][i].p] = "EXEC"
                      /\ atiende[c].paso = "busca" => donde[atiende[c].p] = "EXEC"
    BY DEF MensajeEnExec
  <2>1. ASSUME NEW i \in DOMAIN responde[c] PROVE donde[responde[c][i].p] = "EXEC"
    <3>1. responde[c][i].p \in Procesos
      BY UnMensaje DEF Inv, Tipos, Breve, Mensajes
    <3>2. Tiene(c, responde[c][i].p)
      BY DEF Tiene
    <3> QED BY <3>1, <3>2, TieneEnCpu DEF Inv, Turno, EnExec
  <2>2. ASSUME atiende[c].paso = "busca" PROVE donde[atiende[c].p] = "EXEC"
    BY <2>2 DEF Inv, Turno, EnExec, Elegidos, HiloTiene
  <2> QED BY <2>1, <2>2
<1> QED BY <1>1, InvSiempre, PTL

------------------------------------------------------------------------------
(* Names of the CPUs.                                                      *)

(* A step that renames no CPU and takes nothing a CPU owes to its name.    *)
LEMMA Nombran ==
  ASSUME Nombres, cruce => cruce',
         \A d \in Cpus : /\ cpu'[d].id_proceso = cpu[d].id_proceso
                         /\ cpu'[d].estado = "OCUPADA" => cpu[d].estado = "OCUPADA",
         ~cruce' => AntesOcupadas',
         ~cruce' /\ corto'.paso \in {"saca", "asigna"} => NingunaAntes(corto'.c, corto'.p),
         \A d \in Cpus, p \in Procesos :
           /\ EnCpu(d, p)' \/ (Enviando(d) /\ corto.p = p)' =>
                EnCpu(d, p) \/ (Enviando(d) /\ corto.p = p)
           /\ /\ ~cruce' /\ cpu'[d].estado = "OCUPADA" /\ cpu[d].id_proceso = p
              /\ Debe(d, p)
              => Debe(d, p)'
  PROVE  Nombres'
<1> SUFFICES ASSUME ~cruce' PROVE Nombres'
  BY DEF Nombres
<1>1. \A c, p : NingunaAntes(c, p)' <=> NingunaAntes(c, p)
  BY DEF NingunaAntes
<1>2. ASSUME NEW c \in Cpus, NEW p \in Procesos
      PROVE  /\ cpu[c].estado = "OCUPADA" /\ cpu[c].id_proceso = p => Debe(c, p)
             /\ EnCpu(c, p) \/ (Enviando(c) /\ corto.p = p) =>
                  cpu[c].id_proceso = p /\ NingunaAntes(c, p)
  BY DEF Nombres
<1>3. ASSUME NEW c \in Cpus, NEW p \in Procesos
      PROVE  cpu'[c].estado = "OCUPADA" /\ cpu'[c].id_proceso = p => Debe(c, p)'
  BY <1>2
<1>4. ASSUME NEW c \in Cpus, NEW p \in Procesos,
             EnCpu(c, p)' \/ (Enviando(c) /\ corto.p = p)'
      PROVE  cpu'[c].id_proceso = p /\ NingunaAntes(c, p)'
  BY <1>1, <1>2, <1>4
<1>5. corto'.paso \in {"saca", "asigna"} => NingunaAntes(corto.c, corto.p)'
  BY DEF NingunaAntes
<1> QED BY <1>3, <1>4, <1>5 DEF Nombres

(* One that moves nothing between the threads.                             *)
LEMMA NombresQuietos ==
  ASSUME Nombres, Conserva, cruce' = cruce, UNCHANGED <<donde, cpu, corto, atiende>>
  PROVE  Nombres'
<1>1. \A d \in Cpus, p \in Procesos :
           /\ EnCpu(d, p)' \/ (Enviando(d) /\ corto.p = p)' =>
                EnCpu(d, p) \/ (Enviando(d) /\ corto.p = p)
           /\ Debe(d, p) => Debe(d, p)'
  BY DEF Conserva, Enviando, Debe
<1>2. ~cruce' /\ corto'.paso \in {"saca", "asigna"} => NingunaAntes(corto'.c, corto'.p)
  BY DEF Nombres
<1>3. ~cruce' => AntesOcupadas'
  BY DEF Nombres, AntesOcupadas
<1> QED BY <1>1, <1>2, <1>3, Nombran

LEMMA NombresCpu ==
  ASSUME Inv, Nombres, NEW c \in Cpus, Cpu(c) \/ TerminaTurno(c) PROVE Nombres'
<1>1. Conserva
  <2>1. ASSUME LeeInterrupcion(c) \/ MarcaInterrupcion(c) PROVE Conserva
    BY <2>1, OtraCpu DEF LeeInterrupcion, MarcaInterrupcion, Conserva
  <2> QED BY <2>1, PasoRecibeProceso, PasoCiclo, PasoEnviaContexto, PasoSyscall
          DEF Cpu, TerminaTurno
<1>2. cruce' = cruce /\ UNCHANGED <<donde, cpu, corto, atiende>>
  BY DEF Cpu, TerminaTurno, RecibeProceso, Syscall, SinInterrupcion, BorraPid, EnviaContexto,
         LimpiaDesalojo, LeeInterrupcion, MarcaInterrupcion, varsPcb
<1> QED BY <1>1, <1>2, NombresQuietos

LEMMA NombresQuieta ==
  ASSUME Nombres, UNCHANGED varsTurno, cruce' = cruce PROVE Nombres'
<1>1. Conserva
  BY OtraCpu DEF Conserva, varsTurno
<1> QED BY <1>1, NombresQuietos DEF varsTurno

(* The planner finds the first free CPU, and those before it are still     *)
(* taken when it chooses the process: they are owed to others, because     *)
(* that process is in READY.                                               *)
LEMMA ReadySinNombre ==
  ASSUME Inv, Nombres, ~cruce, NEW p \in Procesos, donde[p] = "READY",
         NEW d \in Cpus, cpu[d].estado = "OCUPADA", ~Enviando(d)
  PROVE  cpu[d].id_proceso # p
<1> SUFFICES ASSUME cpu[d].id_proceso = p PROVE FALSE
  OBVIOUS
<1>1. Debe(d, p)
  BY DEF Nombres
<1>2. EnExec(p)
  BY DEF Inv, Turno
<1>3. ~EnCpu(d, p) /\ ~HiloTiene(d, p)
  BY <1>2 DEF EnExec
<1> QED BY <1>1, <1>3 DEF Debe, HiloTiene

LEMMA NombresCortoBuscaCpu == ASSUME Inv, Nombres, CortoBuscaCpu PROVE Nombres'
<1>1. /\ corto.paso = "elige" /\ corto'.paso \in {"cpu", "proximo"} /\ cruce' = cruce
      /\ UNCHANGED <<donde, cpu, atiende, vuelca, nucleo, despacho, responde>>
  BY BuscaLibre DEF CortoBuscaCpu, Corto, varsPcb, varsCpu
<1>2. \A d \in Cpus : ~Enviando(d) /\ ~Enviando(d)'
  BY <1>1 DEF Enviando
<1>3. AntesOcupadas'
  BY <1>1, BuscaLibre DEF AntesOcupadas
<1>4. \A d \in Cpus, p \in Procesos : /\ EnCpu(d, p)' <=> EnCpu(d, p)
                                      /\ Debe(d, p) => Debe(d, p)'
  BY <1>1, <1>2, OtraCpu DEF Debe
<1> QED BY <1>1, <1>2, <1>3, <1>4, Nombran

LEMMA NombresCortoElige == ASSUME Inv, Nombres, CortoElige PROVE Nombres'
<1>1. /\ corto.paso = "proximo" /\ cruce' = cruce
      /\ UNCHANGED <<donde, cpu, atiende, vuelca, nucleo, despacho, responde>>
  BY DEF CortoElige, Corto, varsPcb, varsCpu
<1>2. CASE corto' = corto
  BY <1>1, <1>2, NombresQuieta DEF varsTurno
<1>3. CASE corto' # corto
  <2>1. /\ corto'.paso = "saca" /\ corto'.c = corto.c
        /\ corto'.p \in Procesos /\ donde[corto'.p] = "READY"
    BY <1>3, EligeDeReady
  <2>2. \A d \in Cpus : ~Enviando(d) /\ ~Enviando(d)'
    BY <1>1, <2>1 DEF Enviando
  <2>3. ASSUME ~cruce PROVE NingunaAntes(corto'.c, corto'.p)
    <3>1. \A d \in Cpus : d < corto'.c => cpu[d].estado = "OCUPADA"
      BY <1>1, <2>1, <2>3 DEF Nombres, AntesOcupadas
    <3> QED BY <2>1, <2>2, <2>3, <3>1, ReadySinNombre DEF NingunaAntes
  <2>4. \A d \in Cpus, p \in Procesos : /\ EnCpu(d, p)' <=> EnCpu(d, p)
                                        /\ Debe(d, p) => Debe(d, p)'
    BY <1>1, <2>2, OtraCpu DEF Debe
  <2>5. AntesOcupadas'
    BY <2>1 DEF AntesOcupadas
  <2> QED BY <1>1, <2>1, <2>2, <2>3, <2>4, <2>5, Nombran
<1> QED BY <1>2, <1>3

LEMMA NombresCortoEspera ==
  ASSUME Inv, Nombres, CortoEsperaCpu \/ CortoEsperaReady \/ CortoCrono PROVE Nombres'
<1>1. /\ corto.paso \in {"cpu", "ready", "crono"} /\ corto'.paso \in {"cpu", "ready", "elige"}
      /\ cruce' = cruce
      /\ UNCHANGED <<donde, cpu, atiende, vuelca, nucleo, despacho, responde>>
  <2>1. corto \in TipoCorto
    BY DEF Inv, Tipos, TipoCorto
  <2> QED BY <2>1 DEF CortoEsperaCpu, CortoEsperaReady, CortoCrono, Corto, TipoCorto,
                      varsPcb, varsCpu
<1>2. \A d \in Cpus : ~Enviando(d) /\ ~Enviando(d)'
  BY <1>1 DEF Enviando
<1>3. \A d \in Cpus, p \in Procesos : /\ EnCpu(d, p)' <=> EnCpu(d, p)
                                      /\ Debe(d, p) => Debe(d, p)'
  BY <1>1, <1>2, OtraCpu DEF Debe
<1>4. AntesOcupadas'
  BY <1>1 DEF AntesOcupadas
<1> QED BY <1>1, <1>2, <1>3, <1>4, Nombran

LEMMA NombresCortoSaca == ASSUME Inv, Nombres, CortoSaca PROVE Nombres'
<1>1. /\ corto.paso = "saca" /\ corto.p \in Procesos /\ donde[corto.p] = "READY"
      /\ donde' = [donde EXCEPT ![corto.p] = "EXEC"] /\ cruce' = cruce
      /\ UNCHANGED <<cpu, atiende, vuelca, nucleo, despacho, responde>>
  BY DEF Inv, Elegidos, CortoSaca, Corto, varsCpu
<1>2. corto'.paso = "asigna" /\ corto'.p = corto.p /\ corto'.c = corto.c
  BY DEF Inv, Tipos, CortoSaca
<1>3. \A d \in Cpus : ~Enviando(d) /\ ~Enviando(d)'
  BY <1>1, <1>2 DEF Enviando
<1>4. \A p \in Procesos : donde[p] \in {"EXIT", "FUERA"} => donde'[p] \in {"EXIT", "FUERA"}
  BY <1>1 DEF Inv, Tipos
<1>5. \A d \in Cpus, p \in Procesos : /\ EnCpu(d, p)' <=> EnCpu(d, p)
                                      /\ Debe(d, p) => Debe(d, p)'
  BY <1>1, <1>3, <1>4, OtraCpu DEF Debe
<1>6. ~cruce => NingunaAntes(corto.c, corto.p)
  BY <1>1 DEF Nombres
<1>7. AntesOcupadas'
  BY <1>2 DEF AntesOcupadas
<1> QED BY <1>1, <1>2, <1>3, <1>5, <1>6, <1>7, Nombran

(* The one step that gives a CPU a name.                                   *)
LEMMA NombresCortoAsigna == ASSUME Inv, Nombres, CortoAsigna PROVE Nombres'
<1>0. PICK a \in Cpus, q \in Procesos : corto.p = q /\ corto.c = a
  BY DEF Inv, Elegidos, CortoAsigna, Corto
<1>1. /\ cpu[a].estado = "LIBRE" /\ corto.paso = "asigna"
      /\ cruce' = cruce
      /\ cpu' = [cpu EXCEPT ![a] = [estado |-> "OCUPADA", id_proceso |-> q]]
      /\ UNCHANGED <<donde, atiende, vuelca, nucleo, despacho, responde>>
  BY <1>0 DEF Inv, Elegidos, CortoAsigna, Corto, varsPcb, varsCpu
<1>2. corto'.paso = "envia" /\ corto'.p = q /\ corto'.c = a
  BY <1>0 DEF Inv, Tipos, CortoAsigna
<1>3. /\ cpu'[a].id_proceso = q
      /\ \A d \in Cpus \ {a} : cpu'[d] = cpu[d]
  BY <1>1 DEF Inv, Tipos
<1> SUFFICES ASSUME ~cruce PROVE Nombres'
  BY <1>1 DEF Nombres
<1>4. \A d \in Cpus : ~Enviando(d) /\ (Enviando(d)' <=> d = a)
  BY <1>1, <1>2 DEF Enviando
<1>5. \A d \in Cpus, p \in Procesos : EnCpu(d, p)' <=> EnCpu(d, p)
  BY <1>1, OtraCpu
<1>6. NingunaAntes(a, q)
  BY <1>0, <1>1 DEF Nombres
<1>7. ASSUME NEW c \in Cpus, NEW p \in Procesos,
             cpu'[c].estado = "OCUPADA", cpu'[c].id_proceso = p
      PROVE  Debe(c, p)'
  <2>1. CASE c = a
    BY <1>2, <1>3, <1>4, <1>7, <2>1 DEF Debe
  <2>2. CASE c # a
    <3>1. Debe(c, p)
      BY <1>3, <1>7, <2>2 DEF Nombres
    <3> QED BY <1>1, <1>4, <1>5, <3>1 DEF Debe
  <2> QED BY <2>1, <2>2
<1>8. ASSUME NEW c \in Cpus, NEW p \in Procesos, EnCpu(c, p)'
      PROVE  cpu'[c].id_proceso = p /\ NingunaAntes(c, p)'
  <2>1. EnCpu(c, p) /\ cpu[c].id_proceso = p /\ NingunaAntes(c, p)
    BY <1>5, <1>8 DEF Nombres
  <2>2. c # a
    <3>1. UnaEtapa(a)
      BY <1>1 DEF Inv, Etapas
    <3> QED BY <1>1, <2>1, <3>1 DEF UnaEtapa, EnCpu
  <2>3. p # q
    <3>1. UnaMano(p) /\ (p = q => CortoTiene(p))
      BY <1>0, <1>1 DEF Inv, Turno, CortoTiene
    <3> QED BY <2>1, <3>1 DEF UnaMano
  <2> QED BY <1>3, <2>1, <2>2, <2>3 DEF NingunaAntes
<1>9. cpu'[a].id_proceso = q /\ NingunaAntes(a, q)'
  <2>1. \A d \in Cpus : d < a => d # a
    BY DesalojoOk DEF Cpus
  <2> QED BY <1>3, <1>6, <2>1 DEF NingunaAntes
<1> QED BY <1>2, <1>4, <1>7, <1>8, <1>9 DEF Nombres, AntesOcupadas

LEMMA NombresCortoEnvia == ASSUME Inv, Nombres, CortoEnvia PROVE Nombres'
<1>0. PICK a \in Cpus, q \in Procesos : corto.p = q /\ corto.c = a
  BY DEF Inv, Elegidos, CortoEnvia, Corto
<1>1. /\ corto.paso = "envia" /\ cruce' = cruce
      /\ despacho' = [despacho EXCEPT ![a] = Append(@, q)]
      /\ UNCHANGED <<donde, cpu, atiende, vuelca, nucleo, responde>>
  BY <1>0 DEF Inv, Elegidos, CortoEnvia, Corto, varsPcb, varsCpu
<1>2. corto'.paso = "crono"
  BY DEF Inv, Tipos, CortoEnvia
<1>3. \A d \in Cpus : (Enviando(d) <=> d = a) /\ ~Enviando(d)'
  BY <1>0, <1>1, <1>2 DEF Enviando
<1>4. /\ despacho[a] = <<>> /\ ~Corriendo(a) /\ responde[a] = <<>>
  BY <1>1, <1>3 DEF Inv, Etapas, UnaEtapa
<1>5. despacho'[a] = <<q>> /\ \A d \in Cpus \ {a} : despacho'[d] = despacho[d]
  BY <1>1, <1>4, UnMensaje DEF Inv, Tipos
<1>6. \A p \in Procesos : EnCpu(a, p)' <=> p = q
  BY <1>1, <1>4, <1>5, UnMensaje DEF EnCpu, Corriendo
<1>7. \A d \in Cpus \ {a}, p \in Procesos : EnCpu(d, p)' <=> EnCpu(d, p)
  BY <1>1, <1>5, OtraCpu
<1>9. \A p \in Procesos : ~EnCpu(a, p)
  BY <1>4, UnMensaje DEF EnCpu
<1>8. ASSUME NEW d \in Cpus, NEW p \in Procesos
      PROVE  /\ EnCpu(d, p)' \/ (Enviando(d) /\ corto.p = p)' =>
                  EnCpu(d, p) \/ (Enviando(d) /\ corto.p = p)
             /\ Debe(d, p) => Debe(d, p)'
  <2>1. CASE d = a
    BY <1>0, <1>1, <1>3, <1>6, <1>9, <2>1 DEF Debe
  <2>2. CASE d # a
    BY <1>0, <1>1, <1>3, <1>7, <2>2 DEF Debe
  <2> QED BY <2>1, <2>2
<1>10. AntesOcupadas'
  BY <1>2 DEF AntesOcupadas
<1> QED BY <1>1, <1>2, <1>8, <1>10, Nombran

(* The thread of a CPU takes the answer of the process the CPU is named    *)
(* after, and owes it until the CPU is freed.                              *)
LEMMA NombresToma ==
  ASSUME Inv, Nombres, NEW c \in Cpus, atiende[c].paso = "recibe", responde[c] # <<>>,
         Consume(c), UNCHANGED <<corto, vuelca, nucleo, despacho>>, cruce => cruce',
         NEW paso \in {"bloquea", "libera", "busca"}, NEW q \in {De(c), Nadie},
         atiende' = [atiende EXCEPT ![c] = [paso |-> paso, p |-> q]],
         paso # "libera" => q = De(c),
         IF paso = "busca" THEN /\ cpu' = [cpu EXCEPT ![c].estado = "LIBRE"]
                                /\ corto.paso = "proximo" /\ c < corto.c => cruce'
                           ELSE cpu' = cpu,
         IF q = De(c) THEN donde' = donde ELSE donde' = [donde EXCEPT ![De(c)] = "EXIT"]
  PROVE  Nombres'
<1>0. PICK r \in Procesos : r = De(c)
  BY Toma
<1>1. /\ EnCpu(c, r) /\ cpu[c].estado = "OCUPADA" /\ ~Enviando(c)
      /\ responde'[c] = <<>> /\ despacho[c] = <<>> /\ ~Corriendo(c)
      /\ \A d \in Cpus \ {c} : responde'[d] = responde[d]
  BY <1>0, Toma
<1>2. /\ atiende'[c].paso = paso /\ atiende'[c].p = q
      /\ \A d \in Cpus \ {c} : atiende'[d] = atiende[d]
  BY DEF Inv, Tipos
<1>3. \A d \in Cpus : /\ cpu'[d].id_proceso = cpu[d].id_proceso
                      /\ cpu'[d].estado = "OCUPADA" => cpu[d].estado = "OCUPADA"
  <2>1. cpu \in [Cpus -> [estado : {"LIBRE", "OCUPADA"}, id_proceso : Procesos \cup {Nadie}]]
    BY DEF Inv, Tipos
  <2>2. CASE paso = "busca"
    BY <1>1, <2>1, <2>2
  <2>3. CASE paso # "busca"
    BY <2>3
  <2> QED BY <2>2, <2>3
<1>4. cpu'[c].estado = "OCUPADA" => paso # "busca"
  BY DEF Inv, Tipos
<1>5. /\ \A p \in Procesos : donde[p] \in {"EXIT", "FUERA"} => donde'[p] \in {"EXIT", "FUERA"}
      /\ q # r => donde'[r] = "EXIT"
  BY <1>0 DEF Inv, Tipos
<1>6. \A p \in Procesos : ~EnCpu(c, p)'
  BY <1>1, UnMensaje DEF EnCpu, Corriendo
<1>7. \A d \in Cpus \ {c}, p \in Procesos : EnCpu(d, p)' <=> EnCpu(d, p)
  BY <1>1, OtraCpu
<1>8. \A d \in Cpus : Enviando(d)' <=> Enviando(d)
  BY DEF Enviando
<1>9. ASSUME NEW d \in Cpus, NEW p \in Procesos, ~cruce, cpu'[d].estado = "OCUPADA",
             cpu[d].id_proceso = p, Debe(d, p)
      PROVE  Debe(d, p)'
  <2>1. CASE d # c
    BY <1>2, <1>5, <1>7, <1>8, <1>9, <2>1 DEF Debe
  <2>2. CASE d = c
    <3>1. p = r
      BY <1>1, <1>9, <2>2 DEF Nombres
    <3>2. paso \in {"bloquea", "libera"} /\ (paso = "bloquea" => q = r)
      BY <1>0, <1>4, <1>9, <2>2
    <3>3. q = r \/ (paso = "libera" /\ donde'[r] \in {"EXIT", "FUERA"})
      BY <1>5, <3>2
    <3> QED BY <1>2, <2>2, <3>1, <3>2, <3>3 DEF Debe
  <2> QED BY <2>1, <2>2
<1>10. ~cruce' /\ corto'.paso \in {"saca", "asigna"} => NingunaAntes(corto'.c, corto'.p)
  BY DEF Nombres
<1>11. \A d \in Cpus, p \in Procesos :
         EnCpu(d, p)' \/ (Enviando(d) /\ corto.p = p)' =>
           EnCpu(d, p) \/ (Enviando(d) /\ corto.p = p)
  BY <1>6, <1>7, <1>8
<1>12. ~cruce' => AntesOcupadas'
  <2>1. \A d \in Cpus \ {c} : cpu'[d] = cpu[d]
    BY DEF Inv, Tipos
  <2>2. corto.paso = "proximo" /\ c < corto.c /\ ~cruce' => cpu' = cpu
    OBVIOUS
  <2> QED BY <2>1, <2>2 DEF Nombres, AntesOcupadas
<1> QED BY <1>3, <1>9, <1>10, <1>11, <1>12, Nombran

LEMMA NombresAtiende ==
  ASSUME Inv, Nombres, NEW c \in Cpus,
         AtiendeExit(c) \/ AtiendeIO(c) \/ AtiendeDump(c) \/ AtiendeContexto(c)
  PROVE  Nombres'
<1>1. ASSUME AtiendeExit(c) PROVE Nombres'
  <2>1. De(c) # Nadie
    <3>1. Head(responde[c]) \in Mensajes
      BY <1>1, Breves DEF Inv, Tipos, AtiendeExit, Recibe
    <3> QED BY <3>1, DesalojoOk DEF De, Mensajes
  <2> QED BY <1>1, <2>1, NombresToma DEF AtiendeExit, Recibe, Atiende, varsCpu
<1>2. ASSUME AtiendeIO(c) PROVE Nombres'
  BY <1>2, NombresToma DEF AtiendeIO, Recibe, Atiende, varsCpu
<1>3. ASSUME AtiendeDump(c) PROVE Nombres'
  BY <1>3, NombresToma DEF AtiendeDump, Recibe, Atiende, varsCpu
<1>4. ASSUME AtiendeContexto(c) PROVE Nombres'
  BY <1>4, NombresToma DEF AtiendeContexto, Recibe, Atiende, LiberaCpu, varsCpu, varsPcb
<1> QED BY <1>1, <1>2, <1>3, <1>4

(* The steps that leave what is on the CPUs alone: what a CPU owes is kept *)
(* if its thread and the lists let it.                                     *)
LEMMA NombresFuera ==
  ASSUME Nombres, UNCHANGED <<corto, nucleo, despacho, responde>>, cruce => cruce',
         \A d \in Cpus : /\ cpu'[d].id_proceso = cpu[d].id_proceso
                         /\ cpu'[d].estado = "OCUPADA" => cpu[d].estado = "OCUPADA"
                         /\ \/ cpu'[d] = cpu[d]
                            \/ corto.paso = "proximo" /\ d < corto.c => cruce',
         \A d \in Cpus, p \in Procesos :
           /\ ~cruce' /\ cpu'[d].estado = "OCUPADA" /\ cpu[d].id_proceso = p
           /\ Debe(d, p)
           => Debe(d, p)'
  PROVE  Nombres'
<1>1. \A d \in Cpus, p \in Procesos : EnCpu(d, p)' <=> EnCpu(d, p)
  BY OtraCpu
<1>2. \A d \in Cpus : Enviando(d)' <=> Enviando(d)
  BY DEF Enviando
<1>3. ~cruce' /\ corto'.paso \in {"saca", "asigna"} => NingunaAntes(corto'.c, corto'.p)
  BY DEF Nombres
<1>4. ~cruce' => AntesOcupadas'
  BY DEF Nombres, AntesOcupadas
<1> QED BY <1>1, <1>2, <1>3, <1>4, Nombran

LEMMA DebeIgual ==
  ASSUME NEW d \in Cpus, NEW p \in Procesos, Debe(d, p),
         UNCHANGED <<corto, nucleo, despacho, responde>>,
         \/ atiende'[d] = atiende[d]
         \/ atiende[d].paso \notin {"bloquea", "libera"},
         atiende[d].paso = "libera" /\ donde[p] \in {"EXIT", "FUERA"} =>
           donde'[p] \in {"EXIT", "FUERA"}
  PROVE  Debe(d, p)'
BY OtraCpu DEF Debe, Enviando

LEMMA NombresLlega == ASSUME Inv, Nombres, NEW p \in Procesos, Llega(p) PROVE Nombres'
<1>1. /\ donde' = [donde EXCEPT ![p] = "READY"]
      /\ cruce' = (cruce \/ \E c \in Cpus : /\ atiende[c].paso = "libera"
                                             /\ cpu[c].id_proceso = p)
      /\ UNCHANGED <<cpu, corto, nucleo, despacho, responde, atiende, vuelca>>
  BY DEF Llega, varsCpu
<1>2. \A q \in Procesos \ {p} : donde'[q] = donde[q]
  BY <1>1 DEF Inv, Tipos
<1>3. ASSUME NEW d \in Cpus, NEW q \in Procesos, ~cruce', cpu[d].id_proceso = q, Debe(d, q)
      PROVE  Debe(d, q)'
  <2>1. atiende[d].paso = "libera" => q # p
    BY <1>1, <1>3
  <2> QED BY <1>1, <1>2, <1>3, <2>1, DebeIgual
<1> QED BY <1>1, <1>3, NombresFuera

LEMMA NombresBloquea == ASSUME Inv, Nombres, NEW c \in Cpus, Bloquea(c) PROVE Nombres'
<1>0. PICK p \in Procesos : p = atiende[c].p
  BY DEF Inv, Elegidos, Bloquea, Atiende
<1>1. /\ donde' = [donde EXCEPT ![p] = "FUERA"] /\ atiende[c].paso = "bloquea"
      /\ atiende' = [atiende EXCEPT ![c] = [paso |-> "libera", p |-> Nadie]]
      /\ UNCHANGED <<cpu, corto, nucleo, despacho, responde, cruce>>
  BY <1>0 DEF Bloquea, Atiende, varsCpu
<1>2. /\ donde'[p] = "FUERA" /\ \A q \in Procesos \ {p} : donde'[q] = donde[q]
      /\ atiende'[c].paso = "libera"
      /\ \A d \in Cpus \ {c} : atiende'[d] = atiende[d]
  BY <1>1 DEF Inv, Tipos
<1>3. ASSUME NEW d \in Cpus, NEW q \in Procesos, Debe(d, q) PROVE Debe(d, q)'
  <2>1. CASE d # c
    <3>1. donde[q] \in {"EXIT", "FUERA"} => donde'[q] \in {"EXIT", "FUERA"}
      BY <1>2
    <3> QED BY <1>1, <1>2, <1>3, <2>1, <3>1, DebeIgual
  <2>2. CASE d = c
    <3>1. \/ (Enviando(c) /\ corto.p = q) \/ EnCpu(c, q) \/ q = p
      BY <1>0, <1>1, <1>3, <2>2 DEF Debe
    <3>2. CASE q = p
      BY <1>2, <2>2, <3>2 DEF Debe
    <3> QED BY <1>1, <2>2, <3>1, <3>2, OtraCpu DEF Debe, Enviando
  <2> QED BY <2>1, <2>2
<1> QED BY <1>1, <1>3, NombresFuera

LEMMA NombresVuelca == ASSUME Inv, Nombres, NEW p \in Procesos, Vuelca(p) PROVE Nombres'
<1>1. /\ donde' = [donde EXCEPT ![p] = "FUERA"]
      /\ UNCHANGED <<cpu, corto, nucleo, despacho, responde, atiende, cruce>>
  BY DEF Vuelca, varsCpu
<1>2. \A q \in Procesos : donde[q] \in {"EXIT", "FUERA"} => donde'[q] \in {"EXIT", "FUERA"}
  BY <1>1 DEF Inv, Tipos
<1>3. \A d \in Cpus, q \in Procesos : Debe(d, q) => Debe(d, q)'
  BY <1>1, <1>2, DebeIgual
<1> QED BY <1>1, <1>3, NombresFuera

(* It returns to READY a process that was in EXEC: no CPU owed its exit.   *)
LEMMA NombresDevuelve == ASSUME Inv, Nombres, NEW c \in Cpus, Devuelve(c) PROVE Nombres'
<1>1. /\ atiende[c].paso = "busca" /\ donde[atiende[c].p] = "EXEC"
      /\ donde' = [donde EXCEPT ![atiende[c].p] = "READY"] \/ donde' = donde
      /\ \A d \in Cpus \ {c} : atiende'[d] = atiende[d]
      /\ UNCHANGED <<cpu, corto, nucleo, despacho, responde, cruce>>
  BY DEF Devuelve, Atiende, varsCpu, Inv, Tipos
<1>2. \A q \in Procesos : donde[q] \in {"EXIT", "FUERA"} => donde'[q] \in {"EXIT", "FUERA"}
  BY <1>1 DEF Inv, Tipos
<1>3. \A d \in Cpus, q \in Procesos : Debe(d, q) => Debe(d, q)'
  BY <1>1, <1>2, DebeIgual
<1> QED BY <1>1, <1>3, NombresFuera

LEMMA NombresDesmarca == ASSUME Inv, Nombres, NEW c \in Cpus, Desmarca(c) PROVE Nombres'
<1>1. /\ atiende[c].paso = "verifica"
      /\ \A d \in Cpus \ {c} : atiende'[d] = atiende[d]
      /\ UNCHANGED <<donde, cpu, corto, nucleo, despacho, responde, cruce>>
  BY DEF Desmarca, Atiende, varsCpu, Inv, Tipos
<1>2. \A d \in Cpus, q \in Procesos : Debe(d, q) => Debe(d, q)'
  BY <1>1, DebeIgual
<1> QED BY <1>1, <1>2, NombresFuera

LEMMA NombresLibera == ASSUME Inv, Nombres, NEW c \in Cpus, Libera(c) PROVE Nombres'
<1>1. /\ cpu' = [cpu EXCEPT ![c].estado = "LIBRE"]
      /\ \A d \in Cpus \ {c} : atiende'[d] = atiende[d]
      /\ cruce' = (cruce \/ (corto.paso = "proximo" /\ c < corto.c))
      /\ UNCHANGED <<donde, corto, nucleo, despacho, responde>>
  BY DEF Libera, LiberaCpu, varsCpu, varsPcb, Inv, Tipos
<1>2. /\ cpu'[c].estado = "LIBRE"
      /\ \A d \in Cpus : /\ cpu'[d].id_proceso = cpu[d].id_proceso
                         /\ cpu'[d].estado = "OCUPADA" => cpu[d].estado = "OCUPADA"
                         /\ d # c => cpu'[d] = cpu[d]
  BY <1>1 DEF Inv, Tipos
<1>3. \A d \in Cpus, q \in Procesos : cpu'[d].estado = "OCUPADA" /\ Debe(d, q) => Debe(d, q)'
  BY <1>1, <1>2, DebeIgual
<1> QED BY <1>1, <1>2, <1>3, NombresFuera

LEMMA NombresPaso == Inv /\ Nombres /\ [Next]_vars => Nombres'
<1> SUFFICES ASSUME Inv, Nombres, [Next]_vars PROVE Nombres'
  OBVIOUS
<1>1. ASSUME NEW p \in Procesos, Llega(p) \/ Avisa(p) \/ Vuelca(p) PROVE Nombres'
  <2>1. ASSUME Avisa(p) PROVE Nombres'
    BY <2>1, NombresQuieta DEF Avisa, varsTurno, varsPcb, varsCpu
  <2> QED BY <1>1, <2>1, NombresLlega, NombresVuelca
<1>2. ASSUME NEW t \in Hilos, Verificacion(t) PROVE Nombres'
  <2>1. UNCHANGED varsTurno /\ cruce' = cruce
    BY <1>2 DEF Verificacion, MiraCpus, NadieMasLargo, MasLargo, ComparaSinCrono,
                PideDesalojo, PideANinguna, Cae, Marca, varsTurno, varsPcb, varsCpu
  <2> QED BY <2>1, NombresQuieta
<1>3. CASE CortoPlazo
  BY <1>3, NombresCortoEspera, NombresCortoBuscaCpu, NombresCortoElige, NombresCortoSaca,
     NombresCortoAsigna, NombresCortoEnvia DEF CortoPlazo
<1>4. ASSUME NEW c \in Cpus, HiloCpu(c) PROVE Nombres'
  BY <1>4, NombresAtiende, NombresBloquea, NombresLibera, NombresDevuelve, NombresDesmarca
     DEF HiloCpu
<1>5. CASE UNCHANGED vars
  BY <1>5, NombresQuieta DEF vars, varsTurno, varsPcb, varsCpu
<1> QED BY <1>1, <1>2, <1>3, <1>4, <1>5, NombresCpu DEF Next

(* PedidoBienDirigido: desalojar_proceso takes the first CPU that carries  *)
(* the name of the victim, and that is the CPU the victim is on, while no  *)
(* process was back before the CPU it left was freed and no CPU was freed  *)
(* between buscar_cpu_libre and buscar_proximo_proceso.                    *)
THEOREM PedidoBienDirigidoSiempre == Spec => []PedidoBienDirigido
<1>1. Init => Nombres
  BY DesalojoOk DEF Init, Nombres, AntesOcupadas, EnCpu, Corriendo, Enviando
<1>2. Inv /\ Ociosas /\ Nombres => PedidoBienDirigido
  <2> SUFFICES ASSUME Inv, Ociosas, Nombres, ~cruce, NEW c \in Cpus, NEW p \in Procesos,
                      Tiene(c, p)
               PROVE  Suyas(p) # {} /\ Primera(Suyas(p)) = c
    BY DEF PedidoBienDirigido
  <2>1. cpu[c].id_proceso = p /\ NingunaAntes(c, p)
    BY TieneEnCpu DEF Nombres
  <2>2. Suyas(p) \in SUBSET Cpus /\ c \in Suyas(p)
    BY <2>1 DEF Suyas
  <2>3. \A d \in Cpus : d < c => d \notin Suyas(p)
    BY <2>1 DEF Suyas, NingunaAntes
  <2> QED BY <2>2, <2>3, PrimeraEs
<1>3. Nombres /\ Inv /\ [Next]_vars => Nombres'
  BY NombresPaso
<1> QED BY <1>1, <1>2, <1>3, InvSiempre, PTL DEF Spec

------------------------------------------------------------------------------
(* The variables that the turn does not depend on: the threads that look   *)
(* for a longer process, the requests and what each CPU knows of them.     *)
TiposHilos ==
  /\ hilo \in [Hilos -> [paso : {"no", "verifica", "compara", "pide", "marca", "vuelve"},
                         victima : Procesos \cup {Nadie}]]
  /\ \A t \in Hilos : hilo[t].paso \in {"pide", "marca"} => hilo[t].victima \in Procesos

TiposPcb ==
  /\ vueltas \in [Procesos -> Nat] /\ \A p \in Procesos : vueltas[p] <= MaxVueltas[p]
  /\ desalojado \in [Procesos -> BOOLEAN] /\ crono \in [Procesos -> BOOLEAN]
  /\ cruce \in BOOLEAN /\ caido \in BOOLEAN

TiposAviso ==
  /\ interrumpe \in [Cpus -> Seq(Procesos)]
  /\ aviso \in [Cpus -> {"lee", "marca"}]
  /\ pid_a_desalojar \in [Cpus -> Procesos \cup {Nadie}]
  /\ hay_desalojo \in [Cpus -> BOOLEAN]
  /\ saldo \in [Procesos -> Int]

LEMMA HilosPaso == Inv /\ TiposHilos /\ [Next]_vars => TiposHilos'
<1> SUFFICES ASSUME Inv, TiposHilos, [Next]_vars PROVE TiposHilos'
  OBVIOUS
<1>1. ASSUME hilo' = hilo PROVE TiposHilos'
  BY <1>1 DEF TiposHilos
<1>2. ASSUME NEW t \in Hilos,
             \/ \E a \in {"verifica", "compara", "vuelve"} :
                  hilo' = [hilo EXCEPT ![t].paso = a]
             \/ hilo' = [hilo EXCEPT ![t] = Quieto]
             \/ hilo' = [hilo EXCEPT ![t] = [paso |-> "vuelve", victima |-> Nadie]]
             \/ hilo[t].paso = "pide" /\ hilo' = [hilo EXCEPT ![t].paso = "marca"]
             \/ \E v \in Procesos : hilo' = [hilo EXCEPT ![t] = [paso |-> "pide", victima |-> v]]
      PROVE  TiposHilos'
  BY <1>2 DEF TiposHilos, Quieto
<1>3. ASSUME NEW p \in Procesos, Llega(p) \/ Avisa(p) \/ Vuelca(p) PROVE TiposHilos'
  <2>1. p \in Hilos
    BY DEF Hilos
  <2> QED BY <1>1, <1>2, <1>3, <2>1 DEF Llega, Avisa, Vuelca
<1>4. ASSUME NEW t \in Hilos, Verificacion(t) PROVE TiposHilos'
  <2>1. Candidatos \subseteq Procesos
    BY DEF Candidatos, Lista
  <2> QED BY <1>1, <1>2, <1>4, <2>1
          DEF Verificacion, MiraCpus, NadieMasLargo, MasLargo, ComparaSinCrono,
              PideDesalojo, PideANinguna, Cae, Marca, En
<1>5. CASE CortoPlazo
  BY <1>1, <1>5 DEF CortoPlazo, CortoEsperaCpu, CortoEsperaReady, CortoBuscaCpu, CortoElige,
                    CortoSaca, CortoAsigna, CortoEnvia, CortoCrono
<1>6. ASSUME NEW c \in Cpus, Cpu(c) \/ TerminaTurno(c) PROVE TiposHilos'
  BY <1>1, <1>6 DEF Cpu, TerminaTurno, Syscall, RecibeProceso, SinInterrupcion, BorraPid,
                    EnviaContexto, LimpiaDesalojo, LeeInterrupcion, MarcaInterrupcion
<1>7. ASSUME NEW c \in Cpus, HiloCpu(c) PROVE TiposHilos'
  <2>1. c \in Hilos
    BY DEF Hilos
  <2> QED BY <1>1, <1>2, <1>7, <2>1
          DEF HiloCpu, AtiendeExit, AtiendeIO, Bloquea, AtiendeDump, Libera,
              AtiendeContexto, Devuelve, Desmarca
<1>8. CASE UNCHANGED vars
  BY <1>1, <1>8 DEF vars
<1> QED BY <1>3, <1>4, <1>5, <1>6, <1>7, <1>8 DEF Next

LEMMA PcbPaso == Inv /\ TiposHilos /\ TiposPcb /\ [Next]_vars => TiposPcb'
<1> SUFFICES ASSUME Inv, TiposHilos, TiposPcb, [Next]_vars PROVE TiposPcb'
  OBVIOUS
<1>0. cruce \in BOOLEAN
  BY DEF TiposPcb
<1>1. ASSUME vueltas' = vueltas, desalojado' \in [Procesos -> BOOLEAN],
             crono' \in [Procesos -> BOOLEAN], cruce' \in BOOLEAN, caido' \in BOOLEAN
      PROVE  TiposPcb'
  BY <1>1 DEF TiposPcb
<1>2. ASSUME UNCHANGED <<vueltas, desalojado, crono, cruce>>, caido' \in {caido, TRUE}
      PROVE  TiposPcb'
  BY <1>2 DEF TiposPcb
<1>3. ASSUME NEW p \in Procesos, Llega(p) PROVE TiposPcb'
  <2>1. /\ vueltas' = [vueltas EXCEPT ![p] = @ + 1] /\ vueltas[p] < MaxVueltas[p]
        /\ UNCHANGED <<desalojado, crono, caido>> /\ MaxVueltas[p] \in Nat
    BY <1>3, DesalojoOk DEF Llega
  <2>2. cruce' \in BOOLEAN
    BY <1>3 DEF TiposPcb, Llega
  <2> QED BY <2>1, <2>2 DEF TiposPcb
<1>4. ASSUME NEW p \in Procesos, Avisa(p) \/ Vuelca(p) PROVE TiposPcb'
  BY <1>2, <1>4 DEF Avisa, Vuelca, varsPcb
<1>5. ASSUME NEW t \in Hilos, Verificacion(t) PROVE TiposPcb'
  <2>1. CASE Marca(t)
    BY <1>0, <1>1, <2>1 DEF TiposPcb, Marca
  <2> QED BY <1>2, <1>5, <2>1
          DEF Verificacion, MiraCpus, NadieMasLargo, MasLargo, ComparaSinCrono,
              PideDesalojo, PideANinguna, Cae, varsPcb
<1>6. CASE CortoPlazo
  <2>1. CASE CortoSaca
    BY <1>2, <2>1 DEF CortoSaca
  <2>2. CASE CortoCrono
    BY <1>0, <1>1, <2>2 DEF CortoCrono, TiposPcb
  <2> QED BY <1>2, <1>6, <2>1, <2>2
          DEF CortoPlazo, CortoEsperaCpu, CortoEsperaReady, CortoBuscaCpu, CortoElige,
              CortoAsigna, CortoEnvia, varsPcb
<1>7. ASSUME NEW c \in Cpus, Cpu(c) \/ TerminaTurno(c) PROVE TiposPcb'
  BY <1>2, <1>7 DEF Cpu, TerminaTurno, Syscall, RecibeProceso, SinInterrupcion, BorraPid,
                    EnviaContexto, LimpiaDesalojo, LeeInterrupcion, MarcaInterrupcion,
                    varsPcb
<1>8. ASSUME NEW c \in Cpus, HiloCpu(c) PROVE TiposPcb'
  <2>1. CASE AtiendeIO(c) \/ AtiendeDump(c) \/ Desmarca(c)
    BY <1>0, <1>1, <2>1 DEF AtiendeIO, AtiendeDump, Desmarca, DestruyeCrono, TiposPcb
  <2>2. CASE Libera(c) \/ AtiendeContexto(c)
    <3>1. UNCHANGED <<vueltas, desalojado, crono, caido>>
      BY <2>2 DEF Libera, AtiendeContexto, varsPcb
    <3>2. cruce' \in BOOLEAN
      BY <1>0, <2>2 DEF Libera, AtiendeContexto, LiberaCpu
    <3> QED BY <3>1, <3>2 DEF TiposPcb
  <2> QED BY <1>2, <1>8, <2>1, <2>2
          DEF HiloCpu, AtiendeExit, Bloquea, Devuelve, varsPcb
<1>9. CASE UNCHANGED vars
  BY <1>2, <1>9 DEF vars, varsPcb
<1> QED BY <1>3, <1>4, <1>5, <1>6, <1>7, <1>8, <1>9 DEF Next

LEMMA AvisoPaso == Inv /\ TiposHilos /\ TiposAviso /\ [Next]_vars => TiposAviso'
<1> SUFFICES ASSUME Inv, TiposHilos, TiposAviso, [Next]_vars PROVE TiposAviso'
  OBVIOUS
<1>1. ASSUME UNCHANGED <<interrumpe, aviso, pid_a_desalojar, hay_desalojo, saldo>>
      PROVE  TiposAviso'
  BY <1>1 DEF TiposAviso
<1>2. ASSUME NEW p \in Procesos, Llega(p) \/ Avisa(p) \/ Vuelca(p) PROVE TiposAviso'
  BY <1>1, <1>2 DEF Llega, Avisa, Vuelca, varsCpu
<1>3. ASSUME NEW t \in Hilos, Verificacion(t) PROVE TiposAviso'
  <2>1. CASE PideDesalojo(t)
    <3> DEFINE v == hilo[t].victima
               c == Primera(Suyas(v))
    <3>1. v \in Procesos /\ UNCHANGED <<aviso, pid_a_desalojar, hay_desalojo>>
      BY <2>1 DEF PideDesalojo, TiposHilos, En, varsCpu
    <3>2. /\ interrumpe' = [interrumpe EXCEPT ![c] = Append(@, v)]
          /\ saldo' = [saldo EXCEPT ![v] = @ + 1]
      BY <2>1 DEF PideDesalojo
    <3>3. \A s \in Seq(Procesos) : Append(s, v) \in Seq(Procesos)
      BY <3>1, AppendProperties
    <3> HIDE DEF v, c
    <3>4. saldo' \in [Procesos -> Int]
      BY <3>1, <3>2 DEF TiposAviso
    <3>5. \A d \in Cpus : interrumpe'[d] \in Seq(Procesos)
      <4>1. \A d \in Cpus : interrumpe'[d] = IF d = c THEN Append(interrumpe[d], v)
                                                     ELSE interrumpe[d]
        BY <3>2 DEF TiposAviso
      <4> QED BY <3>3, <4>1 DEF TiposAviso
    <3>6. interrumpe' \in [Cpus -> Seq(Procesos)]
      BY <3>2, <3>5 DEF TiposAviso
    <3> QED BY <3>1, <3>4, <3>6 DEF TiposAviso
  <2> QED BY <1>1, <1>3, <2>1
          DEF Verificacion, MiraCpus, NadieMasLargo, MasLargo, ComparaSinCrono,
              PideANinguna, Cae, Marca, varsCpu
<1>4. CASE CortoPlazo
  BY <1>1, <1>4 DEF CortoPlazo, CortoEsperaCpu, CortoEsperaReady, CortoBuscaCpu, CortoElige,
                    CortoSaca, CortoAsigna, CortoEnvia, CortoCrono, varsCpu
<1>5. ASSUME NEW c \in Cpus, Cpu(c) \/ TerminaTurno(c) PROVE TiposAviso'
  <2>1. CASE LeeInterrupcion(c)
    <3>1. interrumpe[c] \in Seq(Procesos) /\ interrumpe[c] # <<>>
      BY <2>1 DEF LeeInterrupcion, TiposAviso
    <3>2. Head(interrumpe[c]) \in Procesos /\ Tail(interrumpe[c]) \in Seq(Procesos)
      BY <3>1, HeadTailProperties
    <3> QED BY <2>1, <3>2 DEF LeeInterrupcion, TiposAviso
  <2>2. CASE MarcaInterrupcion(c) \/ BorraPid(c) \/ LimpiaDesalojo(c)
    BY <2>2 DEF MarcaInterrupcion, BorraPid, LimpiaDesalojo, TiposAviso
  <2>3. CASE EnviaContexto(c)
    <3>1. saldo' = [saldo EXCEPT ![nucleo[c].p] = @ - 1]
      BY <2>3 DEF EnviaContexto, Corre
    <3>2. PICK q \in Procesos : saldo' = [saldo EXCEPT ![q] = @ - 1]
      BY <2>3, <3>1 DEF EnviaContexto, Nucleo, Corriendo, Inv, Elegidos
    <3>3. saldo' \in [Procesos -> Int]
      BY <3>2 DEF TiposAviso
    <3> QED BY <2>3, <3>3 DEF EnviaContexto, TiposAviso
  <2> QED BY <1>1, <1>5, <2>1, <2>2, <2>3
          DEF Cpu, TerminaTurno, Syscall, RecibeProceso, SinInterrupcion
<1>6. ASSUME NEW c \in Cpus, HiloCpu(c) PROVE TiposAviso'
  BY <1>1, <1>6 DEF HiloCpu, AtiendeExit, AtiendeIO, Bloquea, AtiendeDump, Libera,
                    AtiendeContexto, Devuelve, Desmarca, varsCpu
<1>7. CASE UNCHANGED vars
  BY <1>1, <1>7 DEF vars, varsCpu
<1> QED BY <1>2, <1>3, <1>4, <1>5, <1>6, <1>7 DEF Next

InvTipos == TiposHilos /\ TiposPcb /\ TiposAviso

LEMMA TiposPaso == Inv /\ InvTipos /\ [Next]_vars => InvTipos'
BY HilosPaso, PcbPaso, AvisoPaso DEF InvTipos

LEMMA TiposInit == Init => InvTipos
<1> SUFFICES ASSUME Init PROVE InvTipos
  OBVIOUS
<1>1. \A t \in Hilos : hilo[t] = Quieto
  BY DEF Init
<1>2. \A c \in Cpus : interrumpe[c] \in Seq(Procesos)
  <2>1. <<>> \in Seq(Procesos)
    BY EmptySeq
  <2> QED BY <2>1 DEF Init
<1>3. \A p \in Procesos : MaxVueltas[p] \in Nat
  BY DesalojoOk
<1>4. TiposHilos
  BY <1>1 DEF Init, TiposHilos, Quieto
<1>5. TiposPcb
  <2>1. /\ vueltas = [p \in Procesos |-> 0] /\ desalojado = [p \in Procesos |-> FALSE]
        /\ crono = [p \in Procesos |-> FALSE] /\ cruce = FALSE /\ caido = FALSE
    BY DEF Init
  <2>2. vueltas \in [Procesos -> Nat] /\ \A p \in Procesos : vueltas[p] <= MaxVueltas[p]
    BY <1>3, <2>1
  <2> QED BY <2>1, <2>2 DEF TiposPcb
<1>6. TiposAviso
  BY <1>2 DEF Init, TiposAviso
<1> QED BY <1>4, <1>5, <1>6 DEF InvTipos

------------------------------------------------------------------------------
(* What may still evict a process: the requests on their way to a CPU (the *)
(* i-th in its socket) and the one it has read (the 0th), unless it has    *)
(* just met it and is about to clear it.                                   *)
Pendiente(c, i, p) == \/ i \in DOMAIN interrumpe[c] /\ interrumpe[c][i] = p
                      \/ i = 0 /\ pid_a_desalojar[c] = p /\ nucleo[c].paso # "limpia"

Pendientes(p) == {x \in Cpus \X Nat : Pendiente(x[1], x[2], p)}

(* They were all asked for and not yet met.                                *)
Saldado(p) == /\ IsFiniteSet(Pendientes(p))
              /\ Cardinality(Pendientes(p)) <= saldo[p]

Saldos == \A p \in Procesos : Saldado(p)

(* A step that leaves no more pending than there was.                      *)
LEMMA NoMas ==
  ASSUME InvTipos, Saldos, NEW p \in Procesos, saldo'[p] = saldo[p],
         Pendientes(p)' \subseteq Pendientes(p)
  PROVE  Saldado(p)'
<1>1. IsFiniteSet(Pendientes(p)) /\ Cardinality(Pendientes(p)) <= saldo[p]
  BY DEF Saldos, Saldado
<1>2. /\ IsFiniteSet(Pendientes(p)') /\ Cardinality(Pendientes(p)') <= Cardinality(Pendientes(p))
      /\ Cardinality(Pendientes(p)') \in Nat /\ Cardinality(Pendientes(p)) \in Nat
  BY <1>1, FS_Subset, FS_CardinalityType
<1>3. saldo[p] \in Int
  BY DEF InvTipos, TiposAviso
<1> QED BY <1>1, <1>2, <1>3 DEF Saldado

LEMMA SaldoQuieto ==
  ASSUME InvTipos, Saldos, UNCHANGED <<interrumpe, saldo>>,
         \A c \in Cpus : /\ pid_a_desalojar'[c] \in {pid_a_desalojar[c], Nadie}
                         /\ nucleo[c].paso = "limpia" =>
                              nucleo'[c].paso = "limpia" \/ pid_a_desalojar'[c] = Nadie
  PROVE  Saldos'
<1> SUFFICES ASSUME NEW p \in Procesos PROVE Saldado(p)'
  BY DEF Saldos
<1>1. p # Nadie
  BY DesalojoOk
<1>2. Pendientes(p)' \subseteq Pendientes(p)
  BY <1>1 DEF Pendientes, Pendiente
<1> QED BY <1>2, NoMas

(* The request joins the others in the socket of a CPU.                    *)
LEMMA SaldoPide ==
  ASSUME Inv, InvTipos, Saldos, NEW t \in Hilos, PideDesalojo(t)
  PROVE  Saldos'
<1> DEFINE v == hilo[t].victima
           c == Primera(Suyas(v))
           n == Len(interrumpe[c]) + 1
<1>1. v \in Procesos
  BY DEF PideDesalojo, InvTipos, TiposHilos, En
<1>2. c \in Cpus
  BY PrimeraEsta DEF PideDesalojo, Suyas
<1>3. /\ interrumpe' = [interrumpe EXCEPT ![c] = Append(@, v)]
      /\ saldo' = [saldo EXCEPT ![v] = @ + 1]
      /\ UNCHANGED <<nucleo, pid_a_desalojar>>
  BY DEF PideDesalojo, varsCpu
<1>4. interrumpe[c] \in Seq(Procesos) /\ saldo \in [Procesos -> Int]
  BY <1>2 DEF InvTipos, TiposAviso
<1> HIDE DEF v, c
<1>5. /\ \A d \in Cpus \ {c} : interrumpe'[d] = interrumpe[d]
      /\ interrumpe'[c] = Append(interrumpe[c], v)
  BY <1>2, <1>3 DEF InvTipos, TiposAviso
<1>6. /\ n \in Nat /\ DOMAIN interrumpe[c] = 1 .. (n - 1) /\ DOMAIN interrumpe'[c] = 1 .. n
      /\ \A i \in 1 .. (n - 1) : interrumpe'[c][i] = interrumpe[c][i]
      /\ interrumpe'[c][n] = v
  BY <1>1, <1>4, <1>5, AppendProperties, LenProperties
<1> HIDE DEF n
<1>7. ASSUME NEW p \in Procesos, NEW d \in Cpus, NEW i \in Nat, Pendiente(d, i, p)'
      PROVE  Pendiente(d, i, p) \/ (p = v /\ d = c /\ i = n)
  <2>1. CASE d # c
    BY <1>3, <1>5, <1>7, <2>1 DEF Pendiente
  <2>2. CASE d = c /\ i \in DOMAIN interrumpe'[c] /\ interrumpe'[c][i] = p
    <3>1. CASE i = n
      BY <1>6, <2>2, <3>1
    <3>2. CASE i # n
      <4>1. i \in 1 .. (n - 1)
        BY <1>6, <2>2, <3>2
      <4> QED BY <1>6, <2>2, <4>1 DEF Pendiente
    <3> QED BY <3>1, <3>2
  <2>3. CASE i = 0 /\ pid_a_desalojar[d] = p /\ nucleo[d].paso # "limpia"
    BY <2>3 DEF Pendiente
  <2> QED BY <1>3, <1>7, <2>1, <2>2, <2>3 DEF Pendiente
<1> SUFFICES ASSUME NEW p \in Procesos PROVE Saldado(p)'
  BY DEF Saldos
<1>8. CASE p # v
  <2>1. Pendientes(p)' \subseteq Pendientes(p)
    BY <1>7, <1>8 DEF Pendientes
  <2> QED BY <1>3, <1>4, <1>8, <2>1, NoMas
<1>9. CASE p = v
  <2>1. Pendientes(p)' \subseteq Pendientes(p) \cup {<<c, n>>}
    BY <1>7 DEF Pendientes
  <2>2. IsFiniteSet(Pendientes(p)) /\ Cardinality(Pendientes(p)) <= saldo[p]
    BY DEF Saldos, Saldado
  <2>3. /\ IsFiniteSet(Pendientes(p) \cup {<<c, n>>})
        /\ Cardinality(Pendientes(p) \cup {<<c, n>>}) <= Cardinality(Pendientes(p)) + 1
        /\ Cardinality(Pendientes(p)) \in Nat
        /\ Cardinality(Pendientes(p) \cup {<<c, n>>}) \in Nat
    <3> HIDE DEF c, n
    <3> DEFINE T == Pendientes(p)
               e == <<c, n>>
    <3>1. IsFiniteSet(T)
      BY <2>2
    <3>2. Cardinality(T) \in Nat
      BY <3>1, FS_CardinalityType
    <3> HIDE DEF T, e
    <3>3. /\ IsFiniteSet(T \cup {e})
          /\ Cardinality(T \cup {e}) = Cardinality(T)
               \/ Cardinality(T \cup {e}) = Cardinality(T) + 1
      BY <3>1, FS_AddElement
    <3>4. Cardinality(T \cup {e}) \in Nat
      BY <3>3, FS_CardinalityType
    <3>5. Cardinality(T \cup {e}) <= Cardinality(T) + 1
      BY <3>2, <3>3
    <3> QED BY <3>2, <3>3, <3>4, <3>5 DEF T, e
  <2>4. /\ IsFiniteSet(Pendientes(p)')
        /\ Cardinality(Pendientes(p)') <= Cardinality(Pendientes(p) \cup {<<c, n>>})
        /\ Cardinality(Pendientes(p)') \in Nat
    BY <2>1, <2>3, FS_Subset, FS_CardinalityType
  <2>5. saldo'[p] = saldo[p] + 1 /\ saldo[p] \in Int
    BY <1>3, <1>4, <1>9
  <2> QED BY <2>2, <2>3, <2>4, <2>5 DEF Saldado
<1> QED BY <1>8, <1>9

(* The CPU's thread reads the first request of its socket: it was the      *)
(* first and is now the 0th, in the place of the one read before.          *)
LEMMA SaldoLee ==
  ASSUME Inv, InvTipos, Saldos, NEW c \in Cpus, LeeInterrupcion(c)
  PROVE  Saldos'
<1> DEFINE s == interrumpe[c]
<1>1. /\ s \in Seq(Procesos) /\ s # <<>>
      /\ interrumpe' = [interrumpe EXCEPT ![c] = Tail(s)]
      /\ pid_a_desalojar' = [pid_a_desalojar EXCEPT ![c] = Head(s)]
      /\ UNCHANGED <<nucleo, saldo>>
  BY DEF LeeInterrupcion, InvTipos, TiposAviso
<1>2. /\ \A d \in Cpus \ {c} : /\ interrumpe'[d] = interrumpe[d]
                              /\ pid_a_desalojar'[d] = pid_a_desalojar[d]
      /\ interrumpe'[c] = Tail(s) /\ pid_a_desalojar'[c] = Head(s)
  BY <1>1 DEF InvTipos, TiposAviso
<1> HIDE DEF s
<1>3. /\ Len(s) \in Nat /\ Len(s) > 0 /\ DOMAIN s = 1 .. Len(s)
      /\ DOMAIN Tail(s) = 1 .. (Len(s) - 1) /\ Head(s) = s[1]
      /\ \A i \in 1 .. (Len(s) - 1) : Tail(s)[i] = s[i + 1]
  BY <1>1, HeadTailProperties, LenProperties, EmptySeq
<1> SUFFICES ASSUME NEW p \in Procesos PROVE Saldado(p)'
  BY DEF Saldos
<1> DEFINE S == Pendientes(p)'
           T == Pendientes(p)
           f == [x \in S |-> IF x[1] = c THEN <<c, x[2] + 1>> ELSE x]
<1>4. ASSUME NEW x \in S PROVE f[x] \in T /\ x \in Cpus \X Nat
  <2>1. x \in Cpus \X Nat /\ Pendiente(x[1], x[2], p)'
    BY <1>4 DEF Pendientes
  <2>2. CASE x[1] # c
    BY <1>1, <1>2, <2>1, <2>2 DEF Pendientes, Pendiente
  <2>3. CASE x[1] = c
    <3>1. \/ x[2] \in 1 .. (Len(s) - 1) /\ s[x[2] + 1] = p
          \/ x[2] = 0 /\ s[1] = p
      BY <1>2, <1>3, <2>1, <2>3 DEF Pendiente
    <3>2. x[2] + 1 \in DOMAIN s /\ s[x[2] + 1] = p
      BY <1>3, <3>1
    <3>3. Pendiente(c, x[2] + 1, p)
      BY <3>2 DEF Pendiente, s
    <3>4. <<c, x[2] + 1>> \in T
      BY <2>1, <3>3 DEF Pendientes
    <3> QED BY <2>1, <2>3, <3>4
  <2> QED BY <2>1, <2>2, <2>3
<1>5. f \in Injection(S, T)
  <2>1. \A x, y \in S : f[x] = f[y] => x = y
    <3> SUFFICES ASSUME NEW x \in S, NEW y \in S, f[x] = f[y] PROVE x = y
      OBVIOUS
    <3>1. x \in Cpus \X Nat /\ y \in Cpus \X Nat
      BY <1>4
    <3>2. f[x] = (IF x[1] = c THEN <<c, x[2] + 1>> ELSE x)
      OBVIOUS
    <3>3. f[y] = (IF y[1] = c THEN <<c, y[2] + 1>> ELSE y)
      OBVIOUS
    <3>4. f[x] = f[y]
      OBVIOUS
    <3> HIDE DEF f, S
    <3>5. x = <<x[1], x[2]>> /\ y = <<y[1], y[2]>> /\ x[2] \in Nat /\ y[2] \in Nat
      BY <3>1
    <3>6. CASE x[1] = c /\ y[1] = c
      <4>1. <<c, x[2] + 1>> = <<c, y[2] + 1>>
        BY <3>2, <3>3, <3>4, <3>6
      <4> QED BY <3>5, <3>6, <4>1
    <3>7. CASE x[1] # c /\ y[1] # c
      BY <3>2, <3>3, <3>4, <3>7
    <3>8. CASE x[1] = c /\ y[1] # c
      <4>1. <<c, x[2] + 1>> = y
        BY <3>2, <3>3, <3>4, <3>8
      <4> QED BY <3>8, <4>1
    <3>9. CASE x[1] # c /\ y[1] = c
      <4>1. x = <<c, y[2] + 1>>
        BY <3>2, <3>3, <3>4, <3>9
      <4> QED BY <3>9, <4>1
    <3> QED BY <3>6, <3>7, <3>8, <3>9
  <2>2. f \in [S -> T]
    BY <1>4
  <2> HIDE DEF f, S, T
  <2> QED BY <2>1, <2>2 DEF Injection, IsInjective
<1>6. IsFiniteSet(T) /\ Cardinality(T) <= saldo[p]
  BY DEF Saldos, Saldado
<1>7. /\ IsFiniteSet(S) /\ Cardinality(S) <= Cardinality(T)
  <2> HIDE DEF f, S, T
  <2> QED BY <1>5, <1>6, FS_Injection
<1>8. Cardinality(S) \in Nat /\ Cardinality(T) \in Nat
  <2> HIDE DEF S, T
  <2> QED BY <1>6, <1>7, FS_CardinalityType
<1>9. saldo'[p] = saldo[p] /\ saldo[p] \in Int
  BY <1>1 DEF InvTipos, TiposAviso
<1> QED BY <1>6, <1>7, <1>8, <1>9 DEF Saldado

(* The context is sent: the request that was met is taken off.             *)
LEMMA SaldoEnvia ==
  ASSUME Inv, InvTipos, Saldos, NEW c \in Cpus, EnviaContexto(c)
  PROVE  Saldos'
<1> DEFINE q == nucleo[c].p
<1>1. /\ q \in Procesos /\ pid_a_desalojar[c] = q /\ nucleo[c].paso = "ejecuta"
      /\ nucleo' = [nucleo EXCEPT ![c].paso = "limpia"]
      /\ saldo' = [saldo EXCEPT ![q] = @ - 1]
      /\ UNCHANGED <<interrumpe, pid_a_desalojar>>
  BY DEF EnviaContexto, Nucleo, Corriendo, Corre, SigueEn, Inv, Elegidos
<1>2. saldo \in [Procesos -> Int]
  BY DEF InvTipos, TiposAviso
<1>3. nucleo'[c].paso = "limpia" /\ \A d \in Cpus \ {c} : nucleo'[d] = nucleo[d]
  <2>1. nucleo \in [Cpus -> [paso : {"recibe", "ejecuta", "borra", "limpia"},
                            p : Procesos \cup {Nadie}]]
    BY DEF Inv, Tipos
  <2> QED BY <1>1, <2>1
<1> HIDE DEF q
<1> SUFFICES ASSUME NEW p \in Procesos PROVE Saldado(p)'
  BY DEF Saldos
<1>4. Pendientes(p)' \subseteq Pendientes(p)
  BY <1>1, <1>3 DEF Pendientes, Pendiente
<1>5. CASE p # q
  BY <1>1, <1>2, <1>4, <1>5, NoMas
<1>6. CASE p = q
  <2>1. <<c, 0>> \in Pendientes(p)
    BY <1>1, <1>6 DEF Pendientes, Pendiente
  <2>2. <<c, 0>> \notin Pendientes(p)'
    <3>1. 0 \notin DOMAIN interrumpe[c]
      BY LenProperties DEF InvTipos, TiposAviso
    <3> QED BY <1>1, <1>3, <3>1 DEF Pendientes, Pendiente
  <2>3. Pendientes(p)' \subseteq Pendientes(p) \ {<<c, 0>>}
    BY <1>4, <2>2
  <2>4. IsFiniteSet(Pendientes(p)) /\ Cardinality(Pendientes(p)) <= saldo[p]
    BY DEF Saldos, Saldado
  <2>5. /\ IsFiniteSet(Pendientes(p) \ {<<c, 0>>})
        /\ Cardinality(Pendientes(p) \ {<<c, 0>>}) = Cardinality(Pendientes(p)) - 1
        /\ Cardinality(Pendientes(p)) \in Nat
    BY <2>1, <2>4, FS_RemoveElement, FS_CardinalityType
  <2>6. /\ IsFiniteSet(Pendientes(p)')
        /\ Cardinality(Pendientes(p)') <= Cardinality(Pendientes(p) \ {<<c, 0>>})
        /\ Cardinality(Pendientes(p)') \in Nat
    BY <2>3, <2>5, FS_Subset, FS_CardinalityType
  <2>7. saldo'[p] = saldo[p] - 1 /\ saldo[p] \in Int
    BY <1>1, <1>2, <1>6
  <2> QED BY <2>4, <2>5, <2>6, <2>7 DEF Saldado
<1> QED BY <1>5, <1>6

LEMMA SaldosPaso == Inv /\ InvTipos /\ Saldos /\ [Next]_vars => Saldos'
<1> SUFFICES ASSUME Inv, InvTipos, Saldos, [Next]_vars PROVE Saldos'
  OBVIOUS
<1>1. /\ nucleo \in [Cpus -> [paso : {"recibe", "ejecuta", "borra", "limpia"},
                              p : Procesos \cup {Nadie}]]
      /\ pid_a_desalojar \in [Cpus -> Procesos \cup {Nadie}]
  BY DEF Inv, Tipos, InvTipos, TiposAviso
<1>2. ASSUME UNCHANGED <<interrumpe, saldo, nucleo, pid_a_desalojar>> PROVE Saldos'
  BY <1>2, SaldoQuieto
<1>3. ASSUME NEW p \in Procesos, Llega(p) \/ Avisa(p) \/ Vuelca(p) PROVE Saldos'
  BY <1>2, <1>3 DEF Llega, Avisa, Vuelca, varsCpu
<1>4. ASSUME NEW t \in Hilos, Verificacion(t) PROVE Saldos'
  <2>1. CASE PideDesalojo(t)
    BY <2>1, SaldoPide
  <2>2. CASE MiraCpus(t) \/ NadieMasLargo(t) \/ MasLargo(t) \/ Marca(t)
    BY <1>2, <2>2 DEF MiraCpus, NadieMasLargo, MasLargo, Marca, varsCpu
  <2>3. CASE ComparaSinCrono(t) \/ PideANinguna(t)
    BY <1>2, <2>3 DEF ComparaSinCrono, PideANinguna, Cae, varsCpu
  <2> QED BY <1>4, <2>1, <2>2, <2>3 DEF Verificacion
<1>5. CASE CortoPlazo
  BY <1>2, <1>5 DEF CortoPlazo, CortoEsperaCpu, CortoEsperaReady, CortoBuscaCpu, CortoElige,
                    CortoSaca, CortoAsigna, CortoEnvia, CortoCrono, varsCpu
<1>6. ASSUME NEW c \in Cpus, Cpu(c) \/ TerminaTurno(c) PROVE Saldos'
  <2>1. CASE LeeInterrupcion(c)
    BY <2>1, SaldoLee
  <2>2. CASE EnviaContexto(c)
    BY <2>2, SaldoEnvia
  <2>3. CASE MarcaInterrupcion(c)
    BY <1>2, <2>3 DEF MarcaInterrupcion
  <2>4. CASE RecibeProceso(c) \/ SinInterrupcion(c) \/ TerminaTurno(c)
    <3>1. /\ UNCHANGED <<interrumpe, saldo, pid_a_desalojar>>
          /\ nucleo[c].paso # "limpia" /\ \A d \in Cpus \ {c} : nucleo'[d] = nucleo[d]
      BY <1>1, <2>4 DEF RecibeProceso, SinInterrupcion, TerminaTurno, Syscall, Nucleo, SigueEn
    <3> QED BY <3>1, SaldoQuieto
  <2>5. CASE BorraPid(c) \/ LimpiaDesalojo(c)
    <3>1. /\ UNCHANGED <<interrumpe, saldo>> /\ pid_a_desalojar'[c] = Nadie
          /\ \A d \in Cpus \ {c} : /\ nucleo'[d] = nucleo[d]
                                   /\ pid_a_desalojar'[d] = pid_a_desalojar[d]
      BY <1>1, <2>5 DEF BorraPid, LimpiaDesalojo, SigueEn
    <3> QED BY <3>1, SaldoQuieto
  <2> QED BY <1>6, <2>1, <2>2, <2>3, <2>4, <2>5 DEF Cpu
<1>7. ASSUME NEW c \in Cpus, HiloCpu(c) PROVE Saldos'
  BY <1>2, <1>7 DEF HiloCpu, AtiendeExit, AtiendeIO, Bloquea, AtiendeDump, Libera,
                    AtiendeContexto, Devuelve, Desmarca, varsCpu
<1>8. CASE UNCHANGED vars
  BY <1>2, <1>8 DEF vars, varsCpu
<1> QED BY <1>3, <1>4, <1>5, <1>6, <1>7, <1>8 DEF Next

LEMMA SaldosInit == Init => Saldos
<1> SUFFICES ASSUME Init, NEW p \in Procesos PROVE Saldado(p)
  BY DEF Saldos
<1>1. \A c \in Cpus : interrumpe[c] = <<>> /\ pid_a_desalojar[c] = Nadie
  BY DEF Init
<1>2. p # Nadie /\ \A i : i \notin DOMAIN <<>>
  BY DesalojoOk
<1>3. Pendientes(p) = {}
  BY <1>1, <1>2 DEF Pendientes, Pendiente
<1>4. saldo[p] = 0
  BY DEF Init
<1> QED BY <1>3, <1>4, FS_EmptySet DEF Saldado

(* One request evicts at most once (UnDesalojoPorPedido): every context    *)
(* that checkInterrupt sends is for a request made before it, and takes it *)
(* off, however many CPUs, processes and requests on their way there are.  *)
THEOREM UnDesalojoSiempre == Spec => []UnDesalojoPorPedido
<1>1. Init => InvTipos /\ Saldos
  BY TiposInit, SaldosInit
<1>2. Inv /\ (InvTipos /\ Saldos) /\ [Next]_vars => (InvTipos /\ Saldos)'
  BY TiposPaso, SaldosPaso
<1>3. InvTipos /\ Saldos => UnDesalojoPorPedido
  <2> SUFFICES ASSUME InvTipos, Saldos, NEW p \in Procesos PROVE saldo[p] >= 0
    BY DEF UnDesalojoPorPedido
  <2>1. IsFiniteSet(Pendientes(p)) /\ Cardinality(Pendientes(p)) <= saldo[p]
    BY DEF Saldos, Saldado
  <2>2. Cardinality(Pendientes(p)) \in Nat
    BY <2>1, FS_CardinalityType
  <2>3. saldo[p] \in Int
    BY DEF InvTipos, TiposAviso
  <2> QED BY <2>1, <2>2, <2>3
<1> QED BY <1>1, <1>2, <1>3, InvSiempre, PTL DEF Spec

------------------------------------------------------------------------------
(* The semaphores never run ahead of the lists they count: the free CPUs,  *)
(* but for the one the planner is giving out, and the processes in READY,  *)
(* but for the one it was told of and those not announced yet.             *)
Tomada == IF corto.paso \in {"ready", "elige", "proximo", "saca", "asigna"} THEN 1 ELSE 0
Anunciado == IF corto.paso \in {"elige", "proximo", "saca"} THEN 1 ELSE 0
Verifican == {t \in Hilos : hilo[t].paso # "no"}

CuentaCpus == semCpus \in Nat /\ semCpus + Tomada <= Cardinality(Libres)

CuentaReady ==
  /\ semReady \in Nat
  /\ semReady + Anunciado + Cardinality(Verifican) <= Cardinality(Lista("READY"))

Verificando == \A c \in Cpus : atiende[c].paso = "verifica" <=> hilo[c].paso # "no"

Cuentas == CuentaCpus /\ CuentaReady /\ Verificando

LEMMA Finitos ==
  /\ IsFiniteSet(Cpus) /\ Cardinality(Cpus) = CantCpus /\ IsFiniteSet(Hilos)
  /\ IsFiniteSet(Libres) /\ Cardinality(Libres) \in 0 .. CantCpus
  /\ IsFiniteSet(Verifican) /\ Cardinality(Verifican) \in Nat
  /\ IsFiniteSet(Lista("READY"))
  /\ Cardinality(Lista("READY")) \in 0 .. Cardinality(Procesos)
<1>1. CantCpus \in Nat /\ IsFiniteSet(Procesos)
  BY DesalojoOk
<1>2. IsFiniteSet(1 .. CantCpus) /\ Cardinality(1 .. CantCpus) = CantCpus
  BY <1>1, FS_Interval
<1>3. IsFiniteSet(Cpus) /\ Cardinality(Cpus) = CantCpus
  BY <1>2 DEF Cpus
<1>4. IsFiniteSet(Hilos)
  BY <1>1, <1>3, FS_Union DEF Hilos
<1>5. Libres \subseteq Cpus /\ Verifican \subseteq Hilos /\ Lista("READY") \subseteq Procesos
  BY DEF Libres, Verifican, Lista
<1>6. IsFiniteSet(Libres) /\ Cardinality(Libres) <= Cardinality(Cpus)
  BY <1>3, <1>5, FS_Subset
<1>7. IsFiniteSet(Verifican)
  BY <1>4, <1>5, FS_Subset
<1>8. IsFiniteSet(Lista("READY")) /\ Cardinality(Lista("READY")) <= Cardinality(Procesos)
  BY <1>1, <1>5, FS_Subset
<1>9. /\ Cardinality(Libres) \in Nat /\ Cardinality(Verifican) \in Nat
      /\ Cardinality(Lista("READY")) \in Nat /\ Cardinality(Procesos) \in Nat
  BY <1>1, <1>6, <1>7, <1>8, FS_CardinalityType
<1> QED BY <1>1, <1>3, <1>4, <1>6, <1>7, <1>8, <1>9

LEMMA Entra ==
  ASSUME NEW S, NEW T, NEW e, IsFiniteSet(S), e \notin S, T = S \cup {e}
  PROVE  Cardinality(T) = Cardinality(S) + 1 /\ Cardinality(S) \in Nat
BY FS_AddElement, FS_CardinalityType

LEMMA Sale ==
  ASSUME NEW S, NEW T, NEW e, IsFiniteSet(S), e \in S, T = S \ {e}
  PROVE  Cardinality(T) = Cardinality(S) - 1 /\ Cardinality(S) \in Nat
BY FS_RemoveElement, FS_CardinalityType

LEMMA CpusQuietas ==
  ASSUME CuentaCpus, UNCHANGED <<semCpus, cpu>>, corto' = corto \/ Tomada' <= Tomada
  PROVE  CuentaCpus'
<1>1. Libres' = Libres
  BY DEF Libres
<1>2. Tomada' <= Tomada /\ Tomada \in Nat /\ Tomada' \in Nat
  BY DEF Tomada
<1>3. Cardinality(Libres) \in Nat
  BY Finitos
<1> QED BY <1>1, <1>2, <1>3 DEF CuentaCpus

(* An OCUPADA CPU is freed and counted.                                    *)
LEMMA CpusSuelta ==
  ASSUME Inv, CuentaCpus, NEW c \in Cpus, LiberaCpu(c), UNCHANGED corto,
         cpu[c].estado # "LIBRE"
  PROVE  CuentaCpus'
<1>1. cpu' = [cpu EXCEPT ![c].estado = "LIBRE"] /\ semCpus' = semCpus + 1
  BY DEF LiberaCpu
<1>2. cpu'[c].estado = "LIBRE" /\ \A d \in Cpus \ {c} : cpu'[d] = cpu[d]
  BY <1>1 DEF Inv, Tipos
<1>3. Libres' = Libres \cup {c} /\ c \notin Libres
  BY <1>2 DEF Libres
<1>4. Cardinality(Libres') = Cardinality(Libres) + 1 /\ Cardinality(Libres) \in Nat
  BY <1>3, Finitos, Entra
<1>5. Tomada' = Tomada /\ Tomada \in Nat
  BY DEF Tomada
<1> QED BY <1>1, <1>4, <1>5 DEF CuentaCpus

LEMMA CpusPaso == Inv /\ CuentaCpus /\ [Next]_vars => CuentaCpus'
<1> SUFFICES ASSUME Inv, CuentaCpus, [Next]_vars PROVE CuentaCpus'
  OBVIOUS
<1>1. ASSUME UNCHANGED <<semCpus, cpu, corto>> PROVE CuentaCpus'
  BY <1>1, CpusQuietas
<1>2. ASSUME NEW p \in Procesos, Llega(p) \/ Avisa(p) \/ Vuelca(p) PROVE CuentaCpus'
  BY <1>1, <1>2 DEF Llega, Avisa, Vuelca, varsSem
<1>3. ASSUME NEW t \in Hilos, Verificacion(t) PROVE CuentaCpus'
  BY <1>1, <1>3 DEF Verificacion, MiraCpus, NadieMasLargo, MasLargo, ComparaSinCrono,
                    PideDesalojo, PideANinguna, Cae, Marca, varsSem
<1>4. CASE CortoPlazo
  <2>1. CASE CortoEsperaCpu
    <3>1. semCpus' = semCpus - 1 /\ semCpus > 0 /\ corto.paso = "cpu" /\ cpu' = cpu
      BY <2>1 DEF CortoEsperaCpu, Corto
    <3>2. corto'.paso = "ready"
      BY <2>1 DEF CortoEsperaCpu, Inv, Tipos
    <3>3. Tomada = 0 /\ Tomada' = 1 /\ Libres' = Libres
      BY <3>1, <3>2 DEF Tomada, Libres
    <3>4. Cardinality(Libres) \in Nat
      BY Finitos
    <3> QED BY <3>1, <3>3, <3>4 DEF CuentaCpus
  <2>2. CASE CortoEsperaReady \/ CortoBuscaCpu \/ CortoElige \/ CortoSaca
    <3>1. UNCHANGED <<semCpus, cpu>> /\ corto.paso \in {"ready", "elige", "proximo", "saca"}
      BY <2>2 DEF CortoEsperaReady, CortoBuscaCpu, CortoElige, CortoSaca, Corto, varsSem
    <3>2. Tomada = 1 /\ Tomada' \in 0 .. 1
      BY <3>1 DEF Tomada
    <3> QED BY <3>1, <3>2, CpusQuietas
  <2>3. CASE CortoAsigna
    <3>1. /\ corto.paso = "asigna" /\ semCpus' = semCpus
          /\ cpu' = [cpu EXCEPT ![corto.c] = [estado |-> "OCUPADA", id_proceso |-> corto.p]]
          /\ corto.c \in Cpus /\ cpu[corto.c].estado = "LIBRE"
      BY <2>3 DEF CortoAsigna, Corto, varsSem, Inv, Elegidos
    <3>2. corto'.paso = "envia"
      BY <2>3 DEF CortoAsigna, Inv, Tipos
    <3>3. Tomada = 1 /\ Tomada' = 0
      BY <3>1, <3>2 DEF Tomada
    <3>4. cpu'[corto.c].estado # "LIBRE" /\ \A d \in Cpus \ {corto.c} : cpu'[d] = cpu[d]
      BY <3>1 DEF Inv, Tipos
    <3>5. Libres' = Libres \ {corto.c} /\ corto.c \in Libres
      BY <3>1, <3>4 DEF Libres
    <3>6. Cardinality(Libres') = Cardinality(Libres) - 1 /\ Cardinality(Libres) \in Nat
      BY <3>5, Finitos, Sale
    <3> QED BY <3>1, <3>3, <3>6 DEF CuentaCpus
  <2>4. CASE CortoEnvia \/ CortoCrono
    <3>1. UNCHANGED <<semCpus, cpu>>
      BY <2>4 DEF CortoEnvia, CortoCrono, varsSem
    <3>2. corto'.paso \in {"crono", "cpu"}
      BY <2>4 DEF CortoEnvia, CortoCrono, Inv, Tipos
    <3>3. Tomada' = 0 /\ Tomada \in 0 .. 1
      BY <3>2 DEF Tomada
    <3> QED BY <3>1, <3>3, CpusQuietas
  <2> QED BY <1>4, <2>1, <2>2, <2>3, <2>4 DEF CortoPlazo
<1>5. ASSUME NEW c \in Cpus, Cpu(c) \/ TerminaTurno(c) PROVE CuentaCpus'
  BY <1>1, <1>5 DEF Cpu, TerminaTurno, Syscall, RecibeProceso, SinInterrupcion, BorraPid,
                    EnviaContexto, LimpiaDesalojo, LeeInterrupcion, MarcaInterrupcion,
                    varsSem
<1>6. ASSUME NEW c \in Cpus, HiloCpu(c) PROVE CuentaCpus'
  <2>1. CASE Libera(c) \/ AtiendeContexto(c)
    <3>1. LiberaCpu(c) /\ UNCHANGED corto /\ (Cerrando(c) \/ responde[c] # <<>>)
      BY <2>1 DEF Libera, AtiendeContexto, Atiende, Recibe, Cerrando
    <3>2. cpu[c].estado # "LIBRE"
      BY <3>1 DEF Inv, Etapas, UnaEtapa
    <3> QED BY <3>1, <3>2, CpusSuelta
  <2>2. CASE AtiendeExit(c) \/ AtiendeIO(c) \/ Bloquea(c) \/ AtiendeDump(c) \/ Devuelve(c)
             \/ Desmarca(c)
    BY <1>1, <2>2 DEF AtiendeExit, AtiendeIO, Bloquea, AtiendeDump, Devuelve, Desmarca,
                      varsSem
  <2> QED BY <1>6, <2>1, <2>2 DEF HiloCpu
<1>7. CASE UNCHANGED vars
  BY <1>1, <1>7 DEF vars, varsSem
<1> QED BY <1>2, <1>3, <1>4, <1>5, <1>6, <1>7 DEF Next

LEMMA ReadyQuieta ==
  ASSUME CuentaReady, semReady' = semReady, Anunciado' <= Anunciado,
         Verifican' = Verifican, Lista("READY")' = Lista("READY")
  PROVE  CuentaReady'
<1>1. Anunciado \in 0 .. 1 /\ Anunciado' \in 0 .. 1
  BY DEF Anunciado
<1>2. Cardinality(Verifican) \in Nat /\ Cardinality(Lista("READY")) \in Nat
  BY Finitos
<1>3. /\ Cardinality(Verifican') = Cardinality(Verifican)
      /\ Cardinality(Lista("READY")') = Cardinality(Lista("READY"))
  OBVIOUS
<1> QED BY <1>1, <1>2, <1>3 DEF CuentaReady

(* A process joins READY and its thread goes to verificarAlgoritmoSRT.     *)
LEMMA ReadyEntra ==
  ASSUME Inv, TiposHilos, CuentaReady, UNCHANGED <<semReady, corto>>,
         NEW p \in Procesos, NEW t \in Hilos, donde[p] # "READY", hilo[t].paso = "no",
         donde' = [donde EXCEPT ![p] = "READY"], hilo' = [hilo EXCEPT ![t].paso = "verifica"]
  PROVE  CuentaReady'
<1>1. donde'[p] = "READY" /\ \A q \in Procesos \ {p} : donde'[q] = donde[q]
  BY DEF Inv, Tipos
<1>2. hilo'[t].paso = "verifica" /\ \A u \in Hilos \ {t} : hilo'[u] = hilo[u]
  BY DEF TiposHilos
<1>3. Lista("READY")' = Lista("READY") \cup {p} /\ p \notin Lista("READY")
  BY <1>1 DEF Lista
<1>4. Verifican' = Verifican \cup {t} /\ t \notin Verifican
  BY <1>2 DEF Verifican
<1>5. /\ Cardinality(Lista("READY")') = Cardinality(Lista("READY")) + 1
      /\ Cardinality(Lista("READY")) \in Nat
  BY <1>3, Finitos, Entra
<1>6. Cardinality(Verifican') = Cardinality(Verifican) + 1 /\ Cardinality(Verifican) \in Nat
  BY <1>4, Finitos, Entra
<1>7. Anunciado' = Anunciado /\ Anunciado \in 0 .. 1
  BY DEF Anunciado
<1> QED BY <1>5, <1>6, <1>7 DEF CuentaReady

(* It is back, and announces the process.                                  *)
LEMMA ReadyAvisa ==
  ASSUME TiposHilos, CuentaReady, UNCHANGED <<donde, corto>>, NEW t \in Hilos,
         hilo[t].paso # "no", hilo' = [hilo EXCEPT ![t] = Quieto], semReady' = semReady + 1
  PROVE  CuentaReady'
<1>1. hilo'[t].paso = "no" /\ \A u \in Hilos \ {t} : hilo'[u] = hilo[u]
  BY DEF TiposHilos, Quieto
<1>2. Lista("READY")' = Lista("READY")
  BY DEF Lista
<1>3. Verifican' = Verifican \ {t} /\ t \in Verifican
  BY <1>1 DEF Verifican
<1>4. Cardinality(Verifican') = Cardinality(Verifican) - 1 /\ Cardinality(Verifican) \in Nat
  BY <1>3, Finitos, Sale
<1>5. Anunciado' = Anunciado /\ Anunciado \in 0 .. 1 /\ Cardinality(Lista("READY")) \in Nat
  BY Finitos DEF Anunciado
<1>6. Cardinality(Lista("READY")') = Cardinality(Lista("READY"))
  BY <1>2
<1> QED BY <1>4, <1>5, <1>6 DEF CuentaReady

(* A process moves between two other lists.                                *)
LEMMA ReadyAjena ==
  ASSUME Inv, CuentaReady, UNCHANGED <<semReady, corto, hilo>>, NEW p \in Procesos, NEW e,
         donde[p] # "READY", e # "READY", donde' = [donde EXCEPT ![p] = e]
  PROVE  CuentaReady'
<1>1. donde'[p] = e /\ \A q \in Procesos \ {p} : donde'[q] = donde[q]
  BY DEF Inv, Tipos
<1>2. Lista("READY")' = Lista("READY") /\ Verifican' = Verifican /\ Anunciado' = Anunciado
  BY <1>1 DEF Lista, Verifican, Anunciado
<1>3. Anunciado' <= Anunciado
  BY <1>2 DEF Anunciado
<1> QED BY <1>2, <1>3, ReadyQuieta

LEMMA ReadyPaso ==
  Inv /\ TiposHilos /\ Verificando /\ CuentaReady /\ [Next]_vars => CuentaReady'
<1> SUFFICES ASSUME Inv, TiposHilos, Verificando, CuentaReady, [Next]_vars
             PROVE  CuentaReady'
  OBVIOUS
<1>1. ASSUME UNCHANGED <<semReady, donde, corto, hilo>> PROVE CuentaReady'
  <2>1. Anunciado' <= Anunciado
    BY <1>1 DEF Anunciado
  <2> QED BY <1>1, <2>1, ReadyQuieta DEF Verifican, Lista
<1>2. ASSUME NEW p \in Procesos, Llega(p) \/ Avisa(p) \/ Vuelca(p) PROVE CuentaReady'
  <2>1. p \in Hilos
    BY DEF Hilos
  <2>2. CASE Llega(p)
    BY <2>1, <2>2, ReadyEntra DEF Llega, varsSem
  <2>3. CASE Avisa(p)
    BY <2>1, <2>3, ReadyAvisa DEF Avisa, varsPcb
  <2>4. CASE Vuelca(p)
    BY <2>4, ReadyAjena DEF Vuelca, varsSem, Inv, Turno, EnExec
  <2> QED BY <1>2, <2>2, <2>3, <2>4
<1>3. ASSUME NEW t \in Hilos, Verificacion(t) PROVE CuentaReady'
  <2>1. CASE ComparaSinCrono(t) \/ PideANinguna(t)
    BY <1>1, <2>1 DEF ComparaSinCrono, PideANinguna, Cae, varsSem, varsPcb
  <2>2. CASE MiraCpus(t) \/ NadieMasLargo(t) \/ MasLargo(t) \/ PideDesalojo(t) \/ Marca(t)
    <3>1. UNCHANGED <<semReady, donde, corto>>
      BY <2>2 DEF MiraCpus, NadieMasLargo, MasLargo, PideDesalojo, Marca, varsSem, varsPcb
    <3>2. hilo[t].paso # "no"
      BY <2>2 DEF MiraCpus, NadieMasLargo, MasLargo, PideDesalojo, Marca, En
    <3>3. hilo'[t].paso # "no" /\ \A u \in Hilos \ {t} : hilo'[u] = hilo[u]
      BY <2>2 DEF MiraCpus, NadieMasLargo, MasLargo, PideDesalojo, Marca, TiposHilos
    <3>4. Verifican' = Verifican
      BY <3>2, <3>3 DEF Verifican
    <3>5. Anunciado' <= Anunciado /\ Lista("READY")' = Lista("READY")
      BY <3>1 DEF Anunciado, Lista
    <3> QED BY <3>1, <3>4, <3>5, ReadyQuieta
  <2> QED BY <1>3, <2>1, <2>2 DEF Verificacion
<1>4. CASE CortoPlazo
  <2>1. CASE CortoEsperaReady
    <3>1. semReady' = semReady - 1 /\ semReady > 0 /\ corto.paso = "ready"
          /\ UNCHANGED <<donde, hilo>>
      BY <2>1 DEF CortoEsperaReady, Corto, varsPcb
    <3>2. corto'.paso = "elige"
      BY <2>1 DEF CortoEsperaReady, Inv, Tipos
    <3>3. Anunciado = 0 /\ Anunciado' = 1
      BY <3>1, <3>2 DEF Anunciado
    <3>4. Lista("READY")' = Lista("READY") /\ Verifican' = Verifican
      BY <3>1 DEF Lista, Verifican
    <3>5. Cardinality(Verifican) \in Nat /\ Cardinality(Lista("READY")) \in Nat
      BY Finitos
    <3>6. /\ Cardinality(Verifican') = Cardinality(Verifican)
          /\ Cardinality(Lista("READY")') = Cardinality(Lista("READY"))
      BY <3>4
    <3> QED BY <3>1, <3>3, <3>5, <3>6 DEF CuentaReady
  <2>2. CASE CortoSaca
    <3>1. /\ corto.paso = "saca" /\ UNCHANGED <<semReady, hilo>>
          /\ donde' = [donde EXCEPT ![corto.p] = "EXEC"]
          /\ corto.p \in Procesos /\ donde[corto.p] = "READY"
      BY <2>2 DEF CortoSaca, Corto, varsSem, Inv, Elegidos
    <3>2. corto'.paso = "asigna"
      BY <2>2 DEF CortoSaca, Inv, Tipos
    <3>3. Anunciado = 1 /\ Anunciado' = 0 /\ Verifican' = Verifican
      BY <3>1, <3>2 DEF Anunciado, Verifican
    <3>4. donde'[corto.p] # "READY" /\ \A q \in Procesos \ {corto.p} : donde'[q] = donde[q]
      BY <3>1 DEF Inv, Tipos
    <3>5. Lista("READY")' = Lista("READY") \ {corto.p} /\ corto.p \in Lista("READY")
      BY <3>1, <3>4 DEF Lista
    <3>6. /\ Cardinality(Lista("READY")') = Cardinality(Lista("READY")) - 1
          /\ Cardinality(Lista("READY")) \in Nat
      BY <3>5, Finitos, Sale
    <3>7. Cardinality(Verifican') = Cardinality(Verifican) /\ Cardinality(Verifican) \in Nat
      BY <3>3, Finitos
    <3> QED BY <3>1, <3>3, <3>6, <3>7 DEF CuentaReady
  <2>3. CASE \/ CortoEsperaCpu \/ CortoBuscaCpu \/ CortoElige \/ CortoAsigna
             \/ CortoEnvia \/ CortoCrono
    <3>1. UNCHANGED <<semReady, donde, hilo>>
      BY <2>3 DEF CortoEsperaCpu, CortoBuscaCpu, CortoElige, CortoAsigna, CortoEnvia,
                  CortoCrono, varsSem, varsPcb
    <3>2. Anunciado' <= Anunciado
      <4>1. CASE CortoBuscaCpu \/ CortoElige
        <5>1. corto.paso \in {"elige", "proximo"}
          BY <4>1 DEF CortoBuscaCpu, CortoElige, Corto
        <5>2. Anunciado = 1 /\ Anunciado' \in {0, 1}
          BY <5>1 DEF Anunciado
        <5> QED BY <5>2
      <4>2. CASE CortoEsperaCpu \/ CortoAsigna \/ CortoEnvia \/ CortoCrono
        <5>1. corto'.paso \in {"ready", "envia", "crono", "cpu"}
          BY <4>2 DEF CortoEsperaCpu, CortoAsigna, CortoEnvia, CortoCrono, Inv, Tipos
        <5> QED BY <5>1 DEF Anunciado
      <4> QED BY <2>3, <4>1, <4>2
    <3> QED BY <3>1, <3>2, ReadyQuieta DEF Verifican, Lista
  <2> QED BY <1>4, <2>1, <2>2, <2>3 DEF CortoPlazo
<1>5. ASSUME NEW c \in Cpus, Cpu(c) \/ TerminaTurno(c) PROVE CuentaReady'
  BY <1>1, <1>5 DEF Cpu, TerminaTurno, Syscall, RecibeProceso, SinInterrupcion, BorraPid,
                    EnviaContexto, LimpiaDesalojo, LeeInterrupcion, MarcaInterrupcion,
                    varsSem, varsPcb
<1>6. ASSUME NEW c \in Cpus, HiloCpu(c) PROVE CuentaReady'
  <2>1. c \in Hilos
    BY DEF Hilos
  <2>2. CASE AtiendeIO(c) \/ AtiendeDump(c) \/ Libera(c) \/ AtiendeContexto(c)
    BY <1>1, <2>2 DEF AtiendeIO, AtiendeDump, Libera, AtiendeContexto, varsSem, varsPcb
  <2>3. CASE AtiendeExit(c)
    <3>1. De(c) \in Procesos
      <4>1. responde[c] # <<>> /\ Breve(responde[c], Mensajes)
        BY <2>3 DEF AtiendeExit, Recibe, Inv, Tipos
      <4>2. Head(responde[c]) \in Mensajes
        BY <4>1, Breves
      <4> QED BY <4>2 DEF De, Mensajes
    <3> QED BY <2>3, <3>1, ReadyAjena DEF AtiendeExit, varsSem
  <2>4. CASE Bloquea(c)
    <3>1. atiende[c].p \in Procesos /\ donde[atiende[c].p] = "EXEC"
      BY <2>4 DEF Bloquea, Atiende, Inv, Elegidos, Turno, EnExec, HiloTiene
    <3> QED BY <2>4, <3>1, ReadyAjena DEF Bloquea, varsSem
  <2>5. CASE Devuelve(c)
    <3>1. atiende[c].p \in Procesos /\ hilo[c].paso = "no"
      BY <2>5 DEF Devuelve, Atiende, Inv, Elegidos, Verificando
    <3>2. CASE desalojado[atiende[c].p]
      BY <2>1, <2>5, <3>1, <3>2, ReadyEntra DEF Devuelve, varsSem
    <3>3. CASE ~desalojado[atiende[c].p]
      BY <1>1, <2>5, <3>3 DEF Devuelve, varsSem
    <3> QED BY <3>2, <3>3
  <2>6. CASE Desmarca(c)
    <3>1. hilo[c].paso # "no"
      BY <2>6 DEF Desmarca
    <3> QED BY <2>1, <2>6, <3>1, ReadyAvisa DEF Desmarca
  <2> QED BY <1>6, <2>2, <2>3, <2>4, <2>5, <2>6 DEF HiloCpu
<1>7. CASE UNCHANGED vars
  BY <1>1, <1>7 DEF vars, varsSem, varsPcb
<1> QED BY <1>2, <1>3, <1>4, <1>5, <1>6, <1>7 DEF Next

(* The thread of a CPU is in verificarAlgoritmoSRT while it gives a        *)
(* process back.                                                           *)
LEMMA VerificandoPaso == Inv /\ TiposHilos /\ Verificando /\ [Next]_vars => Verificando'
<1> SUFFICES ASSUME Inv, TiposHilos, Verificando, [Next]_vars PROVE Verificando'
  OBVIOUS
<1>1. /\ atiende \in [Cpus -> [paso : {"recibe", "bloquea", "libera", "busca", "verifica"},
                              p : Procesos \cup {Nadie}]]
      /\ Procesos \cap Cpus = {} /\ Hilos = Procesos \cup Cpus
  BY DesalojoOk DEF Inv, Tipos, Hilos
<1>2. ASSUME UNCHANGED <<atiende, hilo>> PROVE Verificando'
  BY <1>2 DEF Verificando
<1>3. ASSUME NEW p \in Procesos, Llega(p) \/ Avisa(p) \/ Vuelca(p) PROVE Verificando'
  <2>1. atiende' = atiende /\ \A c \in Cpus : hilo'[c] = hilo[c]
    BY <1>1, <1>3 DEF Llega, Avisa, Vuelca, TiposHilos
  <2> QED BY <2>1 DEF Verificando
<1>4. ASSUME NEW t \in Hilos, Verificacion(t) PROVE Verificando'
  <2>1. CASE ComparaSinCrono(t) \/ PideANinguna(t)
    BY <1>2, <2>1 DEF ComparaSinCrono, PideANinguna, Cae
  <2>2. CASE MiraCpus(t) \/ NadieMasLargo(t) \/ MasLargo(t) \/ PideDesalojo(t) \/ Marca(t)
    <3>1. atiende' = atiende /\ hilo[t].paso # "no"
      BY <2>2 DEF MiraCpus, NadieMasLargo, MasLargo, PideDesalojo, Marca, En
    <3>2. hilo'[t].paso # "no" /\ \A u \in Hilos \ {t} : hilo'[u] = hilo[u]
      BY <2>2 DEF MiraCpus, NadieMasLargo, MasLargo, PideDesalojo, Marca, TiposHilos
    <3> QED BY <1>1, <3>1, <3>2 DEF Verificando
  <2> QED BY <1>4, <2>1, <2>2 DEF Verificacion
<1>5. CASE CortoPlazo
  BY <1>2, <1>5 DEF CortoPlazo, CortoEsperaCpu, CortoEsperaReady, CortoBuscaCpu, CortoElige,
                    CortoSaca, CortoAsigna, CortoEnvia, CortoCrono
<1>6. ASSUME NEW c \in Cpus, Cpu(c) \/ TerminaTurno(c) PROVE Verificando'
  BY <1>2, <1>6 DEF Cpu, TerminaTurno, Syscall, RecibeProceso, SinInterrupcion, BorraPid,
                    EnviaContexto, LimpiaDesalojo, LeeInterrupcion, MarcaInterrupcion
<1>7. ASSUME NEW c \in Cpus, HiloCpu(c) PROVE Verificando'
  <2>1. ASSUME hilo' = hilo, atiende[c].paso # "verifica", atiende'[c].paso # "verifica",
               \A d \in Cpus \ {c} : atiende'[d] = atiende[d]
        PROVE  Verificando'
    BY <2>1 DEF Verificando
  <2>2. CASE AtiendeExit(c) \/ AtiendeIO(c) \/ Bloquea(c) \/ AtiendeDump(c) \/ Libera(c)
             \/ AtiendeContexto(c)
    BY <1>1, <2>1, <2>2
       DEF AtiendeExit, AtiendeIO, Bloquea, AtiendeDump, Libera, AtiendeContexto,
           Recibe, Atiende
  <2>3. CASE Devuelve(c)
    <3>1. CASE desalojado[atiende[c].p]
      <4>1. /\ atiende' = [atiende EXCEPT ![c].paso = "verifica"]
            /\ hilo' = [hilo EXCEPT ![c].paso = "verifica"]
        BY <2>3, <3>1 DEF Devuelve
      <4>2. atiende'[c].paso = "verifica" /\ \A d \in Cpus \ {c} : atiende'[d] = atiende[d]
        BY <1>1, <4>1
      <4>3. hilo'[c].paso = "verifica" /\ \A d \in Cpus \ {c} : hilo'[d] = hilo[d]
        BY <1>1, <4>1 DEF TiposHilos
      <4> QED BY <4>2, <4>3 DEF Verificando
    <3>2. CASE ~desalojado[atiende[c].p]
      BY <1>1, <2>1, <2>3, <3>2 DEF Devuelve, Atiende
    <3> QED BY <3>1, <3>2
  <2>4. CASE Desmarca(c)
    <3>1. /\ atiende' = [atiende EXCEPT ![c] = [paso |-> "recibe", p |-> Nadie]]
          /\ hilo' = [hilo EXCEPT ![c] = Quieto]
      BY <2>4 DEF Desmarca
    <3>2. atiende'[c].paso = "recibe" /\ \A d \in Cpus \ {c} : atiende'[d] = atiende[d]
      BY <1>1, <3>1
    <3>3. hilo'[c].paso = "no" /\ \A d \in Cpus \ {c} : hilo'[d] = hilo[d]
      BY <1>1, <3>1 DEF TiposHilos, Quieto
    <3> QED BY <3>2, <3>3 DEF Verificando
  <2> QED BY <1>7, <2>2, <2>3, <2>4 DEF HiloCpu
<1>8. CASE UNCHANGED vars
  BY <1>2, <1>8 DEF vars
<1> QED BY <1>3, <1>4, <1>5, <1>6, <1>7, <1>8 DEF Next

LEMMA CuentasInit == Init => Cuentas
<1> SUFFICES ASSUME Init PROVE Cuentas
  OBVIOUS
<1>1. /\ semCpus = Cardinality(Cpus) /\ semReady = 0 /\ corto.paso = "cpu"
      /\ \A c \in Cpus : cpu[c].estado = "LIBRE" /\ atiende[c].paso = "recibe"
      /\ \A t \in Hilos : hilo[t].paso = "no"
  BY DEF Init, Quieto
<1>2. Tomada = 0 /\ Anunciado = 0 /\ Libres = Cpus /\ Verifican = {}
  BY <1>1 DEF Tomada, Anunciado, Libres, Verifican
<1>3. CuentaCpus
  BY <1>1, <1>2, Finitos, DesalojoOk DEF CuentaCpus
<1>4. CuentaReady
  BY <1>1, <1>2, Finitos, FS_EmptySet DEF CuentaReady
<1>5. Verificando
  BY <1>1 DEF Verificando, Hilos
<1> QED BY <1>3, <1>4, <1>5 DEF Cuentas

LEMMA EnSecuencia == ASSUME NEW S, NEW s, Breve(s, S) PROVE s \in Seq(S)
<1>1. <<>> \in Seq(S)
  BY EmptySeq
<1>2. \A x \in S : <<x>> \in Seq(S)
  OBVIOUS
<1> QED BY <1>1, <1>2 DEF Breve

(* The variables keep their types (TypeOK): in particular neither          *)
(* semaphore of the planner counts more than there is, the one of the CPUs *)
(* although an eviction frees the CPU before it moves the process, the one *)
(* of READY although verificarAlgoritmoSRT runs before it is posted.       *)
THEOREM TiposSiempre == Spec => []TypeOK
<1>1. Init => InvTipos /\ Cuentas
  BY TiposInit, CuentasInit
<1>2. Inv /\ (InvTipos /\ Cuentas) /\ [Next]_vars => (InvTipos /\ Cuentas)'
  BY TiposPaso, CpusPaso, ReadyPaso, VerificandoPaso DEF InvTipos, Cuentas
<1>3. Inv /\ InvTipos /\ Cuentas => TypeOK
  <2> SUFFICES ASSUME Inv, InvTipos, Cuentas PROVE TypeOK
    OBVIOUS
  <2>1. \A p \in Procesos : vueltas[p] \in 0 .. MaxVueltas[p]
    BY DesalojoOk DEF InvTipos, TiposPcb
  <2>2. semCpus \in 0 .. CantCpus
    <3>1. Tomada \in 0 .. 1 /\ CantCpus \in Nat
      BY DesalojoOk DEF Tomada
    <3> QED BY <3>1, Finitos DEF Cuentas, CuentaCpus
  <2>3. semReady \in 0 .. Cardinality(Procesos)
    <3>1. Anunciado \in 0 .. 1 /\ Cardinality(Procesos) \in Nat
      BY DesalojoOk, FS_CardinalityType DEF Anunciado
    <3> QED BY <3>1, Finitos DEF Cuentas, CuentaReady
  <2>4. despacho \in [Cpus -> Seq(Procesos)]
    BY EnSecuencia DEF Inv, Tipos
  <2>5. responde \in [Cpus -> Seq(Mensajes)]
    BY EnSecuencia DEF Inv, Tipos
  <2> QED BY <2>1, <2>2, <2>3, <2>4, <2>5
          DEF TypeOK, Mensajes, Inv, Tipos, InvTipos, TiposHilos, TiposPcb, TiposAviso
<1> QED BY <1>1, <1>2, <1>3, InvSiempre, PTL DEF Spec
==============================================================================
