# TLA+ model of the operating-system simulator

`src/tp-sistemas-operativos` simulates an operating system with four programs
that talk over TCP: **kernel** (process planning, syscalls, IO), **cpu**
(instruction cycle, MMU, caches), **memoria** (frames, page tables, swap,
dumps) and **io** (one device each). The kernel is one program with many
threads over shared lists, counting semaphores and mutexes. It is where
mistakes are easy to make and hard to test, and most of the models are about it;
the others are about what the kernel talks to.

The repository also holds three unrelated course projects
(`tpa-diseño-de-sistemas` in Java, `tp-base-de-datos` in SQL, `TP simulacion`
in notebooks), which are not modelled.

Names in the modules are the source's, in Spanish; comments are in English.

## 1. Inventory

| Component | State | Operations | Interacts by |
|---|---|---|---|
| Life-cycle (`gestor_kernel.h`, `syscalls_y_utils.c`) | seven lists of PCBs, one per state | `pasar_proceso_de_estado_a_otro` (remove from one list, add to another) | shared lists, one mutex each |
| Long-term planner (`planificacion_largo_plazo.c`) | `sem_iniciar_planificacion`, `sem_hay_procesos_esp_ser_ini_en_mem`, `sem_hay_procesos_en_exit` | two endless threads: admit (NEW or SUSP_READY to READY) and finalise (EXIT to freed) | one connection to memory per request, under `mutex_conexion_memoria_nuevo` |
| Short-term planner (`planificador_corto_plazo.c`) | `sem_hay_cpus_disponibles`, `sem_hay_procesos_en_ready`, state of each CPU | dispatch by FIFO, SJF, SRT; preemption | dispatch and interrupt sockets |
| Syscalls (`syscalls_y_utils.c`) | PCB fields | EXIT, IO, INIT_PROC, DUMP_MEMORY, context saved | one thread per CPU, one detached thread per dump |
| Suspension (`syscalls_y_utils.c`) | `sem_cancelar_suspension`, `sem_activar_suspension`, `mutex_esta_siendo_suspendido` of each PCB | a detached timer per IO block | races with the device's answer |
| IO devices (`manejo_de_io.c`, `conexiones_con_modulos.c`) | connected devices and their `ocupado`, queue of requests | assign, answer, next request, disconnection | one thread assigns, one per device in use waits |
| Start-up (`main.c`, `inicializacion.c`) | everything at its initial value | first process, connections, the Enter, Ctrl-C | |
| CPU cycle (`ciclo_instruccion.c`) | current process, `hay_desalojo`, `pid_a_desalojar` | fetch, execute, syscall, interrupt check | its interrupt thread shares two variables with the cycle |
| MMU, TLB, page cache (`mmu.c`) | TLB and cache entries with their use and dirty bits | translate, replace (FIFO, LRU; CLOCK, CLOCK-M), write back | reads and writes memory |
| Memory (`memoria/src/main.c`) | frame and swap bitmaps, page tables per process | create, query space, suspend, resume, delete, dump, read, write | one thread per connection |
| IO module (`io/src/main.c`), message library (`conexiones.c`) | none of their own | sleep and answer; send, receive | |

What is hard in it:

- *Many threads, one belief each.* A move names the list the process is
  believed to be in; removal of what is not there does nothing and the addition
  is unconditional, so a wrong belief puts a PCB in two lists.
- *A semaphore per list.* The list and its semaphore are updated in different
  places; the error branches for a semaphore that lied either lose tokens or
  dereference NULL.
- *Looking and acting are separate.* The planners keep a PCB they read with
  `list_get` while they talk to memory; the suspension timer looks before it
  locks; the CPU is released before the dump's thread exists.
- *Connections.* One per request, with a descriptor number the system reuses at
  once; one function closes its own twice.
- *Timeouts that race answers*, and a cancellation semaphore that outlives the
  block it was posted for.
- *Requests on a socket of their own.* An interrupt travels apart from the
  process it is about and finds it gone, elsewhere, or not yet marked.
- *A request nobody waits for.* Memory suspends a process after a delay, in a
  thread of its own, against whatever it was asked later.
- *Copies.* What a process wrote is in a page of a cache, in a frame or in the
  swap, and each hand-over must keep the last one.

`PROJECT.json` lists the hazards one by one at their lines.

What makes each component correct:

- life-cycle: one list at a time, only along the diagram, never lost, never
  used after being freed (the code keeps the first two only up to the race of
  the timers, see Findings);
- long-term planner: tokens conserved, semaphores exact, a PCB freed only after
  memory confirmed, every process finally leaves;
- short-term planner: whoever passes the semaphores finds a process and a CPU,
  a CPU runs one process and no process runs on two, queues in policy order;
- syscalls: the process that asks is in EXEC; each one leads out of EXEC
  exactly once and gives its CPU back exactly once;
- suspension: only a process that is still in the same block is suspended, and
  the answer's thread acts on what it saw;
- IO devices: no request lost, none served twice, a free device with work has
  someone about to serve it;
- preemption: an interrupt reaches the CPU that runs the process, is never lost
  and never hits the next one;
- MMU and cache: a read sees the last write, a dirty page reaches memory before
  its frame is reused;
- memory: a frame and a swap page has one owner, the free counts are exact,
  suspend and resume are inverses.

## 2. Modules

| Module | What it is |
|---|---|
| `Estados` | the process states and the moves between them; constants only |
| `CicloDeVida` | abstract specification: the life-cycle of each process |
| `Planificacion` | long- and short-term planners, CPU threads, dump threads, what devices and timers do to the lists; INSTANCEs `CicloDeVida` |
| `Suspension` | one process's timers, its device's thread, its disconnection and its dump, step by step |
| `Desalojo` | preemption under SRT: the kernel's threads, the interrupt sockets, the CPUs' cycle and interrupt thread |
| `ManejoIO` | the queue of IO requests, `conexion_con_io`, the answer threads, the IO programs |
| `Memoria` | frames, pages and swap, one thread per request and a late thread per suspension |
| `Mmu` | the TLB and the page cache of every CPU against the memory they stand for |
| `MCPlanificacion`, `MCDesalojo`, `MCManejoIO`, `MCMemoria`, `MCMmu` | constants, symmetry and constraints for TLC |
| `Listas_proof` | lemmas on inserting into and removing from a sequence |
| `Planificacion_proof`, `Suspension_proof`, `Mmu_proof`, `Desalojo_proof`, `ManejoIO_proof`, `Memoria_proof` | theorems about the models |
| `PlanificacionDuenios_proof` | on top of `Planificacion_proof`: who owns each process, and the refinement of `CicloDeVida` |

They are read together as follows. `Planificacion` is the whole kernel with each
neighbour reduced to its effect on the lists; `Suspension`, `ManejoIO` and
`Desalojo` each open one of those neighbours and reduce the rest. `Memoria` is
what the requests of `Planificacion` and `Suspension` reach; `Mmu` is what runs
between the dispatch and the answer of a CPU in `Planificacion` and `Desalojo`.

### Planificacion

Each thread is a record with a program counter, one action per locked region.

| Model | Code |
|---|---|
| `lista` | `procesos_new` ... `procesos_ready_suspend` |
| `sem` | `sem_iniciar_planificacion`, `sem_hay_procesos_esp_ser_ini_en_mem` (`espIni`), `sem_hay_procesos_en_ready`, `sem_hay_cpus_disponibles`, `sem_hay_procesos_en_exit` |
| `mutexMemoria` | `mutex_conexion_memoria_nuevo`, where it is held across a wait |
| `nar`, `Nar*` | `new_a_ready_PLANI_LARGO_PLAZO` and the memory requests it makes |
| `eaf`, `Eaf*` | `exit_a_fin_PLANI_LARGO_PLAZO` |
| `corto`, `Corto*` | `planificacion_corto` |
| `hiloCpu`, `Atender*`, `LanzarDump`, `LiberarCpu` | `espera_rta_cpu` and the syscall it calls |
| `dump`, `Dump*` | `SISCALL_DUMP_MEMORY`, in its own thread |
| `cpu`, `enviados`, `syscall`, `Cpu*` | the CPU as the kernel sees it, what runs on it, and its dispatch socket |
| `RespondeIO`, `RespondeIOSuspendido`, `DesconectaIO` | the answer of a device and its loss: the look and the move are both under `mutex_esta_siendo_suspendido`, one step |
| `CortaMira`, `CortaMueve` | `forzar_exit_a_todos_los_bloqueados`, which takes no mutex: two steps |
| `io`, `TimerMira`, `TimerAvisa`, `TimerMueve`, `TimerTermina` | the suspension timers of a process: the look, the mutex with the message to memory, the move |
| `PierdeAviso`, `pcb[p].olvidado` | the post of a request that `conexion_con_io` spends with every device `ocupado` |
| `MemoriaCalla` | a `DESSUSPENDER_PROCESO` memory never answers; its thread keeps the mutex |

Decisions worth knowing:

- `pasar_proceso_de_estado_a_otro` is one step although it locks two lists in
  turn, and the `sem_post` that follows is part of it: between them no other
  thread looks the process up, and whoever waits on the semaphore comes later.
- The list a planner read with `list_get` keeps the process; it is removed when
  the planner moves it, several steps later.
- A timer and `forzar_exit_a_todos_los_bloqueados` look at a process without its
  mutex, and the answer of a dump comes after a wait: each may find the process
  gone when it moves it. `list_remove_element` then does nothing, and the PCB is
  in two lists, or in one although it was freed. That step sets `doble`, and the
  model goes no further (`Next` requires `~doble`); `Suspension` follows one
  process beyond it. `ConTimer` bounds the processes whose timers may expire.
- What a timer is cancelled by is in `Suspension`; here it may end at any time
  (`TimerTermina`) or find its process in any later block (`TimerMira`).
- `buscar_cpu_libre` and `buscar_proximo_proceso` are one step here: only this
  thread makes a CPU OCUPADA, so the one it found stays LIBRE, and its choice
  among LIBRE CPUs is left open. `Desalojo`, where the order of the CPUs matters,
  has them as two.
- Memory may answer a space query either way at any time. The size of a process
  and the estimate after a block are arbitrary members of small sets, so the
  formulas for them are not modelled; what is modelled is when they are written.
- Ties between equal sizes are left open; ties between equal estimates go by id,
  as in the code.
- A connection is a value: `reusa` is a descriptor with the number that
  `enviar_path_a_memoria` is about to close again, `rota` one closed under its
  owner. With `rota` the answer cannot be read any more. (A `recv` already
  blocked when the descriptor is closed may still return; the read that follows
  it fails. The model takes the failure at the first.) In the dump thread, the
  unlock, the reading of the answer and the move are one step here; `Suspension`
  splits them. An answer that is not `RTA_DUMP_MEMORY` ends the thread and leaves
  the process where it is.
- `find_by_name_` returns an undefined value for an unknown device, so
  `AtenderIOInvalida` and `AtenderIOAusente` are both possible.
- `espacio_para_proceso` is posted but no longer waited on (the wait is
  commented out), so it is left out.
- The preemptive policy SRT is in `Desalojo`.

### Suspension

One process, counted in each list, since being in two is the point. `timer[t]` is
the thread of the t-th IO block. The steps of the timer are those of the code:
start, expire or be cancelled, look (`sigue_proceso_bloqueado`), lock, tell memory,
move, unlock. The device's thread locks, looks (`esta_suspendido`), moves, cancels,
unlocks. `forzar_exit_a_todos_los_bloqueados` looks and moves without the mutex.
`mutex_conexion_memoria_nuevo` is held while `dump = "espera"`, and for ever once
`muda`: memory never answered the `DESSUSPENDER_PROCESO` of some process
(`MemoriaCalla`). A dump may be answered yes, no, or with something that is neither,
after which its thread ends without moving the process (`DumpSinRespuesta`). All
timers share the two semaphores and the mutex, as in the PCB. A timer is cancelled
by any token and expires only when there is none, as `sem_timedwait` does. A process
found in two lists is not dispatched again (the C program goes on, with the same PCB
queued twice; nothing of interest is decided there), while running threads finish.
Freeing the PCB is not part of this module.

### Desalojo

| Model | Code |
|---|---|
| `donde`, `desalojado`, `crono` | the list of a PCB (`FUERA` stands for those that do not matter here), `desalojado`, whether `cronometro` exists |
| `semCpus`, `semReady` | `sem_hay_cpus_disponibles`, `sem_hay_procesos_en_ready` |
| `hilo`, `MiraCpus` ... `Marca` | `verificarAlgoritmoSRT`, `proceso_largo_en_exec`, `desalojar_proceso` in the thread that calls them |
| `corto`, `Corto*` | `planificacion_corto`, one step per unlocked point; `CortoBuscaCpu` and `CortoElige` are its two lookups |
| `atiende`, `Atiende*`, `Bloquea`, `Libera`, `Devuelve`, `Desmarca`, `Vuelca` | `espera_rta_cpu` and the dump's thread |
| `despacho`, `responde`, `interrumpe` | the two sockets of each CPU |
| `nucleo`, `RecibeProceso` ... `LimpiaDesalojo`, `Syscall` | the instruction cycle and `checkInterrupt` |
| `aviso`, `LeeInterrupcion`, `MarcaInterrupcion` | `atender_cpu_interrupt`, with its two writes apart |

Which process is the longest and whether it is longer are left open, since they
are measured times: any process in EXEC that is not marked may be the victim, or
none. `caido` is set where the kernel uses a null pointer or a chronometer that
does not exist, and nothing is followed after it. The context of an evicted
process and its program counter are not followed. `saldo` and `cruce` are
history variables.

### ManejoIO

| Model | Code |
|---|---|
| `pedidos`, `sem` | `procesos_esperando_ios`, `sem_proceso_bloqueado_por_io` |
| `ios`, `ocupado`, `actual`, `liberada` | `ios_conectadas` and the fields of an `io_conectada`; whether it was freed |
| `PideIO`, `PideIOInvalida`, `EncolaIO` | `SISCALL_IO` |
| `buscador`, `Buscador*` | `conexion_con_io`: wake, look, take the request, mark, send |
| `hilo` and its actions | `esperar_rta_io` with `liberar_io` and `forzar_exit_a_todos_los_bloqueados` |
| `modulo`, `Conecta`, `Sirve`, `Muere` | an IO program: handshake, `esperar_peticiones_kernel`, `manejar_sigint` |

A device is taken in three steps of one thread and given back in two writes of
another. The second write (`SueltaOtraVez`) can hit a device that is in use by
then, or one that `liberar_io` freed; `choque` records the first, and `caido` is
set where the kernel follows a null or freed pointer. `PideIOInvalida` is
possible only for a name that is not connected, and so is `PideIO`, because
`find_by_name_` returns an undefined value then. The move under
`mutex_esta_siendo_suspendido` is one step; `Suspension` opens it.

### Memoria

| Model | Code |
|---|---|
| `lista`, `propias`, `pagina` | `lista_procesos`, `lista_pag_del_proceso`, the last-level entries |
| `marcos`, `memoria`, `ocupado` | `bitarray_frames`, `memoria_usuario`, `TAM_OCUPADO` |
| `swap`, `mutexSwap` | `entradasSwap`, `mutex_entradas_swap` |
| `pedido` and `EspacioDisponible` ... `Eliminado` | the kernel's requests, one in service at a time because it waits for each with `mutex_conexion_memoria_nuevo` |
| `susp`, `Susp*`, `CopiaASwap` | the thread of a `SUSPENDER_PROCESO`, for which nobody waits |
| `EscribirPagina` | `ESCRIBIR_VALOR`, `ACTUALIZAR_PAGINA_COMPLETA` |

A bit of the bitmap is set or cleared by reading a byte (`foto`) and writing it
back; the bitmap of the model is one byte (`Bits`). It may have more bits than there
are frames (`CantFrames <= 8`), and `asignarNumDePrimerFrameLIbre` looks through all
of them: a frame past the end of the memory is given like any other, and a write to
it (`EscribeFuera`) or its copy to the swap is not followed. `UsaSwap` stands for
the condition on sizes and table width under which the code uses the swap at all.
`caida` is set where a thread goes on with a process that was freed. A suspended
process may be finished (its device was lost): its state for the kernel is then
"muerto", its bytes are subtracted a second time and its swap entries stay.
`Restadas` are the pages of those processes, which the properties on the count allow
for. `Escriben` bounds the processes that write.

### Mmu

| Model | Code |
|---|---|
| `corre`, `anterior` | `proceso`, `proceso_anterior` of each CPU |
| `tlb`, `cache`, `puntero` | the lists `tlb` and `cache`, `puntero_clock` / `puntero_clock_m` |
| `MarcoDe` | memory's `PEDIR_MARCO`, with 8 entries per table and with any other number (`TablaUnica`) |
| `Marco`, `TlbTrasTraducir` | `obtener_marco_mmu`, `actualizar_tlb` with FIFO and LRU |
| `Clock`, `ClockM` | `reemplazo_cache_clock`, `reemplazo_cache_clock_m`, lap by lap |
| `Lee*`, `Escribe*` | READ and WRITE: hit, miss, no cache |
| `AtenderDispatch`, `SyscallIO`, `SyscallDump`, `Desaloja`, `SyscallExit` | the arrival of a process and the ways it leaves |
| `EliminaProceso`, `SuspendeProceso`, `DesuspendeProceso` | what memory does to its frames: on its return it gets the first free ones, as they are |

One instruction is one step: its messages touch frames of the process it runs
only, and no process is on two CPUs. The TLB is kept in the order of its
timestamps, which is all both policies use. What the code does that one would not
expect is kept:

- With `ENTRADAS_POR_TABLA` other than 8, `obtenerMarco` ignores the pid. As
  pages and frames are taken and freed together, the first free one of each, page
  n of whatever process is then frame n, or none (`TablaUnica`). With 8, the
  frame is looked for among the pages of the process.
- `ENTRADAS_CACHE>0` guards the clearing of both lists, so a CPU with a TLB and no
  cache keeps the frames of the process before. Nobody asks memory whose frame an
  access without a cache is to: `Accede` reads and writes there, and a write to a
  negative address is confirmed and done nowhere. Through a cache memory does look
  for the page, and a CPU that asks for a frame that is of no page of the process,
  or for the last byte of one, waits for ever (`SinRespuesta`).
- The last byte of a page that passes through a cache, in either direction,
  becomes a NUL: `SinFinal` is what is left of each datum.
- A process that comes back from the swap has other frames, which hold what was
  there before, and the CPU it ran on may still have its old ones.

The history variables say when that happened: `vieja` are the CPUs that kept
entries that were no longer about the process they are for; `sano` is false once
something was fetched from or sent to a frame that was not the page's own;
`devuelta` are the pages not written since they came back from the swap; `fiel` is
false once the kernel took the process to a CPU that cannot know its last writes: a
dump and a preemption leave modified pages behind in the cache they came from.

## 3. Runs

| Run | Question | Bounds |
|---|---|---|
| `seguridad` | do lists, semaphores and CPUs always agree, and does each step follow the life-cycle? | 2 processes, 2 blocking syscalls each, 2 CPUs, FIFO, timers of one process; 349,119 states |
| `vida` | do the queues stay sorted, and does every process finally leave? | 2 processes, 1 syscall each, 1 CPU, two sizes, two estimates, SJF and PMCP, timers of one process, lost posts, with fairness; 856,464 states |
| `suspension` | does the device's thread act on valid decisions, and can the threads block each other? | 3 IO blocks, 1 dump, disconnections, memory that falls silent; 24,794 states |
| `desalojo` | where is each process while interrupts travel? | 2 CPUs, one process that reaches READY twice and one once; 2.4 M states |
| `manejo_io` | is a request ever lost, a thread ever left waiting, a process moved for another's IO? | 2 processes, 3 requests, 2 devices of one name, 2 answer threads, one timer, devices stopped at any moment, with fairness; 1.03 M states |
| `memoria` | is the count of bytes honest, is a page ever in two places, is the kernel always answered? | 3 processes of 2, 1 and 1 pages, 2 frames of a bitmap of 8 bits, 3 table entries, 2 swap pages, 2 suspensions, with fairness; 1.07 M states |
| `mmu` | does a process read what it wrote, at its own page? | 2 processes of 3 and 1 pages, a CPU with TLB of 1 (LRU) and cache of 2 (CLOCK-M), a CPU with a TLB of 1 and no cache, data with a last byte, tables of 8 entries; 311,734 states |
| `mmu_clock` | the same with CLOCK and FIFO, one table for all, and pages that change frame | the same processes, which may be suspended, a CPU with TLB of 2 and cache of 2, a CPU with neither; 356,844 states |
| `finaliza_sin_confirmacion` | violation: a PCB freed without memory's answer | as `vida` |
| `suspende_su_bloqueo` | violation: a timer suspends a process that has left its block | 2 IO blocks, 1 dump, no disconnections |
| `contenido_perdido` | violation: a process comes back from the swap to other contents | 3 frames, 3 swap pages, 1 suspension, 2 data |
| `contexto_sin_desalojo` | violation: the context of a process that is not marked as evicted | as `desalojo` |

Why the bounds are enough.

- *Planning.* Two processes and two CPUs give every pair of threads something to
  disagree on: one process can be on its way out while the second is created,
  admitted, dispatched, blocked or dumped; two syscalls bring a process back to
  the same list with the flags of the earlier visit still set. One CPU is enough
  for the order of the queues, which CPUs do not touch. The timers of one process
  race with its devices and dumps; a second process with timers of its own shares
  nothing with them (`ConTimer`). Lost posts change no list, only what must
  happen, and so are in `vida` only (`SePierdenAvisos`). Three IO blocks let a
  timer of the first survive into the third, with the token of the second.
- *Preemption.* One arrival of the second process is enough for it to ask for the
  first; the second arrival of the first brings it back to a CPU, its own or the
  other, with an old request still on the way (`MaxVueltas`).
- *IO.* Three requests for two devices of one name are the least in which one
  can be queued behind another while a device is being given back, which needs
  two answer threads (`MaxHilos`, `MaxUsos`); one process may be suspended
  (`SeSuspenden`).
- *Memory.* The frames are fewer than the pages, so that a process is admitted
  only into the room another left; two suspensions can overtake each other; what is
  written matters to the contents only, and one process that writes (`Escriben`)
  reaches every case of a frame past the end of the memory.
- *MMU.* Three pages over a cache of two and a TLB of one make the translation of
  the victim leave the TLB while its page is replaced. `Interesa` does not follow what a
  process reads after the kernel moved it away from its modified pages (`fiel`) or
  after something went to a frame of others (`sano`), which no property is about,
  nor a CPU that waits for ever, which does nothing else; it keeps to one page that
  differs from its first datum, enough for a victim and what it loses.
  `InteresaVuelve` adds that the process that is watched (`p1`) keeps to its CPU,
  while the other only takes and frees frames, so that the returns of `p1` to other
  frames, with its old ones in the TLB and the cache, are all there.

Deadlock checking is off everywhere because the systems stop by themselves: all
processes are finished, the bounds are used up, or the program has failed
(`caido`, `caida`, `colgada`).

### Properties

- `ListasDisjuntas`: no PCB in two lists until the step that sets `doble`: that is,
  only the timers, `forzar_exit_a_todos_los_bloqueados` and the answer of a dump can
  do it, and the planners, the CPU threads and the answers of devices never.
  `NingunoPerdido`: none lost. `LiberadoSoloEnTimers`: a freed PCB is in no list, and
  no planner, CPU thread, message, dump or `forzar_exit` has it. It does not speak of
  the timers, which may have it, nor of the device's thread that unlocks the PCB's
  mutex after its posts.
- `SemaforosCuentan`: each semaphore plus the thread that holds its token equals
  its list (or the LIBRE CPUs). `TokensDeInicio`: the two tokens of the Enter are
  shared by two loops and never stolen. `SemaforoGarantiza`: the error branches
  behind the semaphores are dead code.
- `CpuExclusiva`, `SyscallEncuentraProceso`: a LIBRE CPU has nothing to run or
  report, and the handler always finds the process in EXEC (it would dereference
  NULL otherwise), although a dump releases the CPU before leaving EXEC.
- `ColasOrdenadas`: the estimate is written outside the lock of READY, but never
  while the process is there.
- `CumpleCicloDeVida`: refinement of `CicloDeVida`. The state of a process is
  read off the lists; every step moves at most one process, along one edge, up to
  the step that sets `doble`.
- `TodoProcesoTermina`: every process is in the end freed, or waits in NEW or
  SUSP_READY for memory to have room, except in the ways of losing one that the code
  has (`SeAbandona`): a dump whose answer was not read, a request for a device that
  is not there or whose post was lost, a memory that left `new_a_ready` without an
  answer, a PCB in two lists. It stays on no CPU, in READY, BLOCKED or EXIT otherwise.
- `DecisionVigente`, `SuspendeSuBloqueo`: see `Suspension`. `NadieQuedaEsperando`: no
  thread of it waits for ever, as long as memory answers; it promises nothing to a
  request that is still in the queue.
- `EnUnaCpu`, `MensajeEnExec`: no process is on two CPUs and no CPU has two,
  counting what is in its sockets; each message of a CPU finds its process in EXEC,
  so no turn is answered twice. `PedidoBienDirigido`: although `id_proceso` is never
  cleared, the CPU that `desalojar_proceso` finds is the one the process is on,
  because both it and the planner take the first of the list; not once a process was
  back from its IO before the CPU it left was freed, or a CPU was freed between the
  two lookups of the planner (`cruce`). `UnDesalojoPorPedido`: one request evicts at
  most once, however its two writes fall between those of the cycle.
- `EsperaRespondida`, `EsperaTermina`: an answer thread never waits for an answer
  nobody will send, and ends its wait. `ListaSinLiberadas`: no freed device in
  `ios_conectadas`. `RespuestaPropia`, `NingunoOlvidado`: the process moved is the
  one whose IO ended, and a blocked process always has a request or a thread, as
  long as no device in use was marked free (`choque`).
- `EspacioVeraz`: the count of bytes and the pages change at different times, and
  yet a process that is told there is room finds its pages, but for those of the
  processes that were finished while suspended, subtracted twice. `PaginaEnUnLugar`: a
  page is in main memory or in the swap, never in both, whatever order the late
  threads run in. `PedidoRespondido`: the kernel is always answered, unless the
  swap ran out.
- `TraduccionPropia`: the cache has only pages of the process it is searched for;
  on a CPU that is not in `vieja` every frame the TLB or the cache gives is the
  page's own. Outside of that the code does give other frames: a TLB without a
  cache, a return from the swap, one table for all. `LeeLoQueEscribio`: what a
  process reads in the cache or at the page's own frame is its last write, but for
  the last byte, from the first write after a return. `GuardadoTrasIO`: after its
  modified pages were sent, memory has all of it. `VictimaJusta`: the victim
  is the one CLOCK or CLOCK-M prescribe.

### Fairness

`Planificacion!Equidad`: every thread is an endless loop that the scheduler runs, so
each gets weak fairness, and memory answers the requests it is sent unless it has
fallen silent (`MemoriaCalla`). A process ends up asking for EXIT (programs are
finite scripts that end in it). Nothing says that memory ever has room: a process
may be refused for ever. A device that has a request, or whose thread is bound to
take it, answers or disconnects; a request for a device that is not there, or whose
post was lost (`olvidado`), is promised nothing. Once past its look a timer goes on.
`Suspension!Equidad`: threads run, a device that was sent a request answers or is
lost, memory confirms a dump. Nothing is assumed of the planners, of when a timer
expires, nor of `IoEnvia`: a queued request may stay in the queue.
`ManejoIO!Equidad`: the kernel's threads run, and an IO program that was not stopped
wakes up from its `usleep`; nothing is assumed of processes, connections or signals.
`Memoria!Equidad`: the thread of the request in service and those of the suspensions
run; nothing is assumed of the kernel. `Desalojo` and `Mmu` state no liveness: an
eviction may be lost by the code (`BorraPid` clears a request that has just
arrived), and nothing promises that it is met.

### Findings

1. `enviar_path_a_memoria` closes its descriptor and unlocks the mutex twice.
   Between the two, another thread can lock the mutex and be given the same
   descriptor number; the second close takes its connection away. If it is
   `exit_a_fin`, the PCB is freed without memory's confirmation
   (`finaliza_sin_confirmacion`).
2. The suspension timer looks before it locks. When the look falls while the
   device's thread holds the mutex, the timer suspends a process that is already
   in READY: it ends in two lists, and memory swaps it out
   (`suspende_su_bloqueo`). The same window reaches a later block of the process,
   a dump and a forced exit.
3. `asignarFrameALaPagina` reads a page from the swap and passes it to a function
   that takes a frame and never copies it there; the process finds what was in
   the frame before (`contenido_perdido`).
4. The kernel sends the interrupt and marks the process as evicted afterwards.
   The context may arrive in between; the CPU is freed and the process stays in
   EXEC for ever, on no CPU (`contexto_sin_desalojo`).

Met while modelling and kept in the models, although no line of the repository
promises otherwise: a request that arrives between the answer thread's last look at
the queue and the write of `ocupado` spends its post and stays queued with the
device free; memory that finds its swap full keeps `mutex_entradas_swap` locked, and
the kernel's next `DESSUSPENDER_PROCESO` is never answered; a process that is
preempted or dumps leaves its modified pages in the cache of the CPU it was on; a
suspended process that is finished has its bytes subtracted twice; a CPU with a TLB
and no cache (`prueba5`) never clears it, so that a process uses the frames of the
one before; with tables of other than eight entries the frame of a page is found
whatever the process; the last byte of a page has no answer, and is overwritten when
the page goes through a cache; a bitmap of whole bytes gives frames past the end of
the memory.

## 4. Proofs

The theorems hold for every value of the constants (numbers of processes, CPUs,
syscalls, sizes and estimates, pages, entries), under the named assumptions of
the modules (`ConstantesOk`, `CotasOk`, `ConfigOk`, `DesalojoOk`, `IOsOk`,
`MemoriaOk`, `MutexOk`): numbers are numbers, there is at least one CPU and
finitely many, finitely many processes, the null pointer is no process and no CPU,
a thread is not the mark of a free mutex.

**Planificacion** (`Planificacion_proof`). `Inv1` is the inductive invariant:

- `TypeOK`;
- the four counts and the token count, which are what the theorems state;
- `TomaNar`, `TomaEaf`, `TomaCorto`: the process a planner took with
  `list_get` is still in the list it was taken from, and a planner past its
  semaphore has what it needs. Without them the counts are not inductive: a move
  of a process that is not there would lengthen a list without shortening one.
- `CpuCoherente`: what a CPU owes, what its kernel thread is doing and whether it
  is LIBRE fit together, so that a CPU released by a handler was OCUPADA and the
  number of LIBRE CPUs grows by exactly one.

`MoverRespeta`, `MoverLargos` and `MoverCuenta` say once what a move does to the
planners' processes, to the lengths and to the counts; the `Paso*` lemmas go
through the actions of each thread and cite them. From `Inv1`:
`Tipos` (`TypeOK`), `Semaforos` (`SemaforosCuentan`), `Garantia`
(`SemaforoGarantiza`) and `Tokens` (`TokensDeInicio`). `Listas_proof` has the
facts on `InsertAt` and `RemoveFirst` of the community modules they rest on.

`PlanificacionDuenios_proof` goes on from there. `Inv2` = `Inv1` and `Duenios` holds
until the step that sets `doble`:

- `UnaLista`, `Listados`, `LiberadosCreados`: one list per process, once; in some
  list exactly from its creation until it is freed;
- `UnaMano`, `EnManosEnExec`: a process in EXEC is in one pair of hands (the planner
  about to send it, a CPU, the message that ends its turn, the CPU's thread about to
  start a dump, the dump before it blocks it), and whoever has it finds it in EXEC.
  This is the part that replaces a lock: no list lock is held between reading a
  message and moving the process it names;
- `InitDelTurno`: an INIT_PROC, which does not end the turn, comes before the message
  that does;
- `DumpBloquea`: a process in a dump is blocked for that reason, so that no device
  moves it, and one that `forzar_exit` has looked at is blocked for an IO, so that no
  dump thread does; either may be suspended meanwhile by an old timer;
- `SinProceso`: a thread that has let go of a process has forgotten it.

`Movido` and `MoverListas` say what a move does to every other process, and the
`Duenios*` lemmas go through the threads. What `doble` does not take away is in
`Promesas` (`NingunoPerdido`, `LiberadoSoloEnTimers`, `CpuExclusiva`,
`SyscallEncuentraProceso`): the step that sets it only adds a process to one list
(`Dobla`), and no step follows it. `InvDuenios` is `Inv1`, `Promesas`, and `Duenios`
or `doble`; it is inductive. From it: `Disjuntas`, `SinPerdidos`, `LiberadosSinUso`,
`Exclusiva`, `SyscallEnExec`. `CicloDeVidaCumplido` is the refinement: initial states
map to initial states (one process, in NEW) and each step to an edge of the diagram,
a stutter, or the step that sets `doble`, which takes `Inv2` because the state a
process is mapped to is read off the lists, and a move from a list it is not in, or
a second list, would be no edge. `ColasEnOrden` adds that an insertion in order keeps
a sorted queue sorted (`PonerOrden`), that taking out keeps it (`SacarOrden`), and
that the estimate and the size that are compared change only while the process is in
none of the queues.

**Suspension** (`Suspension_proof`). `Inv` adds to the types and
`DecisionVigente`: the mutex is held by exactly the thread inside its region
(`DuenioDelMutex`), one thread at a time drives the process (`UnoPorVez`), and
while one does the process is in EXEC, BLOCKED or SUSP_BLOCKED (`EnPoder`), so no
planner takes it. `Decision` follows: the only thread that could move the process
behind the device's back is a timer, and it moves only with the mutex.
`TiposSiempre` bounds the two semaphores all timers share.

**Desalojo** (`Desalojo_proof`). `Inv` is the inductive invariant:

- `Tipos`: types, and that a dispatch or answer socket holds one message at most;
- `Turno`: from the moment the planner takes a process out of READY until a
  thread moves it out of EXEC, it is in one pair of hands (the planner, the
  dispatch socket, the cycle, the answer socket, the thread of a CPU, a dump), those
  of one CPU, and it is in EXEC;
- `Etapas`: on one CPU the stages exclude each other, and a CPU that is LIBRE, or to
  which the planner is sending, is at none of them. Without it a second process
  could be sent to a CPU that has one;
- `Elegidos`: what the planner chose is still where it was.

The requests to preempt appear in none of them: whatever travels on the interrupt
socket, the CPU gives up only what it runs. `Suelta`, `EnLaCpu`, `PasoToma` and
`CortoSinProceso` state once what the steps of the same shape have in common.
`InvSiempre` adds that a waiting CPU has no process; `EnUnaCpuSiempre` and
`MensajeEnExecSiempre` follow. For `PedidoBienDirigidoSiempre`, `Nombres` says
that an OCUPADA CPU is owed to the process it is named after (`Debe`): a process
in READY is then the name of no OCUPADA CPU, the first free CPU comes after
OCUPADA ones only, and so no CPU before the one it is given has its name.
`AntesOcupadas` keeps this from the lookup of the CPU to that of the process. `cruce`
is exactly the cases where one of them fails: the process came back before the thread
that took its answer had freed the CPU (`Debe`), or a CPU was freed between the two
lookups (`AntesOcupadas`).

`UnDesalojoSiempre` counts. `Pendientes` is the set of the places from which a process
may still be evicted: each position of the interrupt sockets with its name, and each
CPU that has read its name and has not just met it. `Saldos` says that they are no
more than the requests sent minus the contexts answered (`saldo`). The two writes of
the interrupt thread and those that clear the request interleave freely; what is
shown of each is that it adds no place. `TiposSiempre` rests on `Cuentas`: a semaphore
plus the planner that has its token, plus the threads of `verificarAlgoritmoSRT`
that run before their post, is at most the free CPUs or the length of READY.

**ManejoIO** (`ManejoIO_proof`). `Inv` is the inductive invariant:

- `Tipos`: types, and that what a thread is about to send or to look at is a
  process, never the null of an empty queue;
- `Vivas`: the list has no device twice and only devices that connected and were
  not freed; a thread that took a device out of the list (`Sacada`) is about to
  free it and it is not there any more. The first part is what lets one
  `list_remove_by_condition` be enough when two threads lose the same device;
- `Cuentas`: for each program that runs, the threads in recv are as many as its
  requests and answers under way, and a program that has not connected has none.
  That a device may be taken twice (`choque`) does not break it:
  every request sent comes with a thread that waits.

`PasoAjeno`, `PasoDeHilo`, `PasoConMensaje` and `PasoDeModulo` say what the steps
of the same shape have in common; `EntraAEsperar` and `SaleDeEsperar` count the
threads in recv. From `Inv`: `TiposSiempre`, `ListaSinLiberadasSiempre` and
`EsperaRespondidaSiempre`.

On top of it, `Uso` holds as long as no device was given to two requests
(`choque`), which the second write of `ocupado` makes possible:

- `UnUso`: a device has one user, is marked in use while it has, and the thread of
  `conexion_con_io` has a device that nobody uses between looking and marking;
- `UnMensaje`: what travels to or from a device's program is one message at most, for
  `proceso_actual`, and somebody waits for its answer;
- `Actuales`: a thread that sends or moves does it for the process the device carries;
- `Recordados`: a process that is only in BLOCKED or SUSP_BLOCKED is in a request, in
  a thread's hands or in a device somebody waits for.

`RespuestaPropiaSiempre` and `NingunoOlvidadoSiempre` follow. The first three do not
hold without each other: who the user is decides what the message is, and the
message decides what the next user may overwrite.

**Mmu** (`Mmu_proof`). Three invariants, each on top of the one before:

- `Inv` = `TypeOK`, the functions' domains and `PunteroEnLista`: the hand never
  leaves the room of the cache. Without the last the entry it names need not
  exist. The lemmas on `PrimeraDesde`, `Clock` and `ClockM` show that the victim
  is always an entry of the list and that the laps change use bits only;
  `PrimeraDesde` is a minimum over a finite set of distances and needs
  well-foundedness of the naturals. Theorem `TiposSiempre`.
- `InvPropia` adds `Lugares` (what runs, runs on one CPU, is in memory and waits for
  nothing; two pages in memory share no frame) and `Propias`: what a CPU keeps in its
  cache is of one process, the one that runs there or ran last, each page once
  (`Conserva`), and if it is not in `vieja`, with the frame of the page (`Acierta`).
  Theorem `TraduccionSiempre`.
- `InvValores` adds `Contenidos`: which CPU is a process's (`Hogar`: the CPU it runs
  on is the one it ran on last), where the last write of a page is (`Valores`: in
  the cache of that CPU, or in memory at the page's own frame if it has no modified
  copy), and what an IO leaves (`Guardados`), the last two while `sano`. What goes
  through a cache is compared but for the last byte (`Igual`), and the frame a page
  is brought back to counts from its first write. Theorems `ContenidoSiempre` and
  `GuardadoSiempre`.

None of them has a hypothesis on the configuration: suspensions, a TLB without a cache
and one table for all are in every one, and what they break is in `vieja`, `sano` and
`devuelta`. `VictimaSiempre`, an action property of every instruction, needs the first
only: the page that leaves is chosen by the laps of CLOCK and CLOCK-M alone, and each
lap that finds nothing says that the entries are of a higher class.

**Memoria** (`Memoria_proof`). `Inv` is inductive with no hypothesis:

- `Tipos`: types, with `TAM_OCUPADO` only an integer, and what each request and each
  thread has read by its step;
- `Mutex`: who is inside `mutex_entradas_swap`. The thread that found the swap full
  still holds it when it is over;
- `Ciclo`: how the list of processes, the kernel's view, the request in service and
  the process that was let in agree; a process not yet created has nothing in the
  swap and no late SUSPENDER thread;
- `Paginas`: the pages in a process's list plus its entries in the swap, minus the one
  that SUSPENDER has copied and not yet taken out, are no more than its pages.

`PaginaEnUnLugarSiempre` follows. For the count of bytes, which one side changes
when a request is served and the other when a late thread ends, `Reservas` says what
the bytes stand for: `Contadas`, the pages of each process the kernel has in main
memory, and `PorSalir`, those of each SUSPENDER thread that has not subtracted its
own. The second subtraction of a process that died suspended makes `TAM_OCUPADO` too
low by its pages and no more, once per process (`Restadas`, counted by `DeMas`):
`Saldo`, `TAM_OCUPADO` with them added back, is at least the bytes of both; a
process that was let in has room next to them; and whatever is in a process's list
is answered for by one of them or by a request in service (`Respaldo`). A suspension
moves a block of pages from one set to the other; `BloqueEntra` and `BloqueSale`
count such a block, `BytesEntran` and `LugarPara` are the arithmetic of pages and
bytes. For `EspacioVerazSiempre` the pages in the lists are mapped one to one into
the two sets (`TenidasCaben`). No theorem of the module has a hypothesis.

Only model-checked, and for good: the liveness properties (`TodoProcesoTermina`,
`NadieQuedaEsperando`, `EsperaTermina`, `PedidoRespondido`), which are out of the
prover's reach, as is ENABLED. Every invariant and action property that the passing
runs check has a theorem, under no other hypothesis than the assumptions on the
constants. No module that is proved about declares a RECURSIVE operator.

## 5. Plan

Done: `Planificacion`, `Suspension`, `Desalojo`, `ManejoIO`, `Memoria`, `Mmu` and
the proofs above. What is left, most useful first:

1. `Memoria`: an abstract specification of a process's pages (nowhere, in main memory,
   in the swap), which the requests and the late threads implement one page at a time.
2. `ManejoIO`: an abstract queue of requests (asked, in a device, answered or lost),
   for as long as `choque` is false.
3. `Memoria` with the table walk of several levels as functions, from which the frame
   that `Mmu` takes for `TablaUnica` would follow.
4. `Planificacion`: `Suspension`'s cancellation of timers for every process.

## 6. Not modelled

- Start-up connections and Ctrl-C: they run once and are plain I/O.
- The message library: serialisation and sockets. A receive that fails and a
  message lost with its peer are in the models; a descriptor that
  `recibir_operacion` closed and the system gave to another thread is followed in
  `Planificacion` only, where a handler depends on it.
- In the CPU: fetching, decoding, NOOP and GOTO; the offset within a page and the
  strings that are read and written.
- In memory: the instruction lists, the metrics, the dump file, and the walk through
  several levels of tables (what it yields is in `Mmu`).
- Logging, metrics and formats everywhere.
- The three unrelated course projects.
