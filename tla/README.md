# TLA+ models of the LibrettOS network runtime

This directory holds TLA+ models of this repository (a rumprun unikernel runtime
for bare hardware and for Xen, with a network server that several application
domains share), the TLC runs that check them on small instances, and TLAPS proofs
of the properties that matter most. `PROJECT.json` maps every definition to the
source lines it models and lists components, runs, hazards, findings and theorems.

## The system and its parts

A *network server* domain (backend) owns the NIC. *Application* domains
(frontends) exchange packets with it through shared memory, or switch to direct
access to a card of their own. All of them run the same runtime: a cooperative
multiprocessor scheduler, locks built on lock-free queues, an interrupt thread,
an allocator, and below it Xen event channels and grants. The same runtime also
runs as a classic Xen guest (`platform/xen`): one CPU, front ends for network,
disk, PCI and console that follow states in xenstore, and devices that give
programs access to xenstore and event channels. Above it stand what programs see:
the configuration, the runner of programs, memory mapping, clocks, and a proxy
for system calls of remote clients.

| Part | State | What is hard |
|---|---|---|
| Packet channel (`hw/xen/frontend.c`, `backend.c`) | two rings of slot indices per direction, `readers`, an event channel, a receiver thread | wakeups between the last look and the switch; packets before the channel is bound |
| Connection (`frontend.c`, `backend.c`) | slots of server and hypervisor, welcome and reconnect ports, grants | restart between any two steps; numbering kept in two places |
| Direct access (`librumpnet_xenif`, `rumprun-utils`, `ifconfig.c`) | mode, card, interface, switcher and ifconfig threads | switches that overlap; interface that ends under its receiver |
| Scheduler (`libbmk_core/sched.c`) | run queues, timeout queues, thread table, join words | a thread may run only after its context is saved; slots are reused |
| Parking (`librumprun_base/_lwp.c`) | `rl_value`, timeout queue | unpark, callback and timeout race |
| Locks (`libbmk_rumpuser/rumpuser_synch.c`) | mutex counter and owner, block queue, waiters list, reader count | wakeup before the waiter is queued; stale list entries |
| Lock-free ring and queue (`bmk-core/lfring.h`, `lfqueue.h`) | array of cycle/index entries; list with stamps and marks | ABA, overtaken threads, premature "empty" |
| Interrupts (`hw/intr.c`) | `isr_data.todo`, handler lists, 8259 | sleep of the interrupt thread; registration while lines are open |
| Event channels (`hw/xen/hypervisor.c`, `events.c`) | pending, mask and selector bits | mask and event race; nested callbacks |
| Grants, memory (`gnttab.c`, `gntmap.c`, `pgalloc.c`, `memalloc.c`) | free lists, semaphore, map entries, bitmap, headers | partial failure; page in use when revoked; merging and alignment |
| Xen front ends (`netfront.c`, `blkfront.c`, `pcifront.c`, `console/`) | shared rings, ids, states in xenstore | interrupt between two steps of a thread; a backend that closes at any time |
| Xenstore (`xenbus.c`, `busdev*.c`) | request ids, ring, watches, transactions | replies for threads that are gone; close with requests under way |
| Xen events and mappings (`evtdev.c`, `xen/gnttab.c`, `gntmap.c`, `arch/x86/mm.c`) | rings of ports, grant table, demand-map area, p2m | overflow of rings; hypercalls that fail half way |
| System call proxy (`sysproxy.c`) | slots, references, send lock, worker pool | a client that goes away in the middle of its calls |
| Runner, configuration, memory, clocks, library (`rumprun.c`, `config.c`, `jsmn.c`, `sys_mman.c`, `clock.c`, `queue.h`, ...) | list of runners, tokens, chunks, pages of the hypervisor, pointers | counts changed on two CPUs; optional fields; a page read while it changes |

## Modules

| Module | Models | Granularity |
|---|---|---|
| `PacketPipe` | what a channel direction promises: a bounded FIFO that drops only when full | abstract |
| `NetdomChannel` | one direction of the channel with senders, receiver, handler, run queue and set-up. Slot rings are atomic queues | one shared access |
| `NetdomConnect` | applications, server and hypervisor from start to reconnection | one call that others can observe |
| `VirtIf` | the service device of domain 0, the switcher, `xenif0` from creation to destruction, the ifconfig thread, both paths of packets | one shared access or call of another layer |
| `Sched` | `schedule()` in steps, switch callbacks, create/exit/join/reap, sleep | one queue operation |
| `LwpPark` | `_lwp_park`, its callback, `_lwp_unpark`, expiry | one atomic or locked section |
| `CondVar` | mutexes with block queues (first part); condition variables on top of them (second part) | one atomic or locked section |
| `RwLock` | reader/writer lock over two mutexes, each an atomic lock as shown for the mutex of `CondVar` | one access |
| `LfRing` | `lfring_enqueue`, `lfring_dequeue`, catch-up, threshold | one memory access |
| `WakeQueue`, `LfQueue` | abstract queue of sleepers with kept wakeups; the stamped list that implements it | one memory access |
| `Isr` | interrupt stubs, interrupt thread, acknowledgement, registration | one locked section or PIC access |
| `EventChannel` | hypervisor callback, port locks, binding, unmasking | one memory access |
| `MemAlloc` | buddy allocator; bucket allocator on top of it | one call (each holds a lock), realloc in two |
| `Grants` | grant table and grant map of `platform/hw` | one shared access |
| `Library` | LIST, SLIST, SIMPLEQ, STAILQ, TAILQ of `queue.h` as pointers in memory, beside the sequence each stands for (first part); `kprintf` conversions and buffers, `bmk_strtoul`, string and memory functions, console ring (second part) | one macro or call |
| `FrontLife` | set-up and shutdown of the four Xen front ends: xenstore states of both ends, pages, event channel, watch, errors | one xenstore operation |
| `NetRing` | `netfront_xmit`, `network_tx_buf_gc`, `network_rx`, the interrupt handler, `pusher`, the interface, semaphores | a section with interrupts off, or a step between two interrupts |
| `BlkRing` | `blkfront_aio`, `_io`, `_sync`, `_aio_poll`, `rumpuser_bio`, `biothread` | from one point where a thread can lose the CPU to the next |
| `BlkOpen` | `blkdevs`, `devname2vbd`, `devname2num`, open, getfileinfo, close | the same |
| `XenConsole` | output ring, input ring, printing and echo | one access to the ring's indices |
| `XenGrants` | access and transfer grants, the semaphore | one access; interrupts between any two |
| `XenStore` | `xenbus_msg_reply`, ids, ring writes, the xenstore thread, watches, `xenbus_switch_state`, the waits | one ring access or wait |
| `XenDev` | write, read and close of `/dev/xen/xenbus`, processing of replies (first part); `events.c` of the Xen platform, `xenevt` interrupt handler and thread, its file operations (second part) | a call or handler, up to where it blocks |
| `PciDev` | configuration access and interrupts on both platforms, the scan of devices, `pcifront_op`, DMA segments | one port access or flag access |
| `XenMem` | `allocate_ondemand`, `minios_map_frames`, `unmap_frames`, gntmap, ioremap, contiguous pages (first part); `build_pagetable`, `new_pt_frame`, `set_readonly`, `arch_init_p2m` at boot (second part) | one hypercall; one page or table |
| `SysProxy` | accept, poll, handshake, worker pool, references, send lock, exec, requests to the client, end of service (first part); `dosend` and `readframe` over a socket that takes and gives parts (second part) | one locked section or socket call |
| `Runner` | start of programs with pipes, `mainbouncer`, `rumprun_wait`, daemons, reboot | one locked section; unlocked updates in two |
| `RrConfig` | both passes of `jsmn_parse`, `rumprun_config` and its handlers | one lexeme or token |
| `MmapMem` | `mmapmem_alloc`, `mmapmem_free`, `sys_mmap`, `sys_munmap` | one locked section |
| `Clocks` | pvclock and TSC clock of `hw`, calibration, i8254 delay, RTC date, the shadow clock of Xen | one field read or written |

`MC*` modules put components together for TLC; the `*Proofs` modules and `Theorems`
hold the theorems. Names of variables and operators follow the source; where two modules of
one instance would clash, a short prefix tells them apart. A definition marked
"Mutant" is a plausible mistake in the definition that follows it; substituting it
must make a property fail, which guards against properties that cannot.

Abstractions that a reader should know:

- Lock-free rings are atomic FIFOs in `NetdomChannel` and `Sched`; `LfRing`
  checks the ring itself: no index lost or duplicated, "empty" only when true.
- The block queue of a mutex is the one `LfQueue` is shown to refine (`WakeQueue`).
- Memory is sequentially consistent. Indices of rings, heads, tails and stamps do
  not wrap, except where the wrap is the point (`XenDev`, `NetRing`'s packet
  buffer, `Library`, `Clocks`).
- Free lists of the allocators are sets: the choice among chunks is open.
- The hypervisor, xenstored, backends, the PIC, sockets and devices are external
  and do what the code relies on; xenstored and hypercalls may fail where the code
  has a path for it.
- On the Xen platform threads switch only where they block, and interrupts come
  between the steps of a thread wherever they are not disabled: those modules have
  a step per such interval, not per instruction.
- `XenDev` and `FrontLife` take from `XenStore` that replies come back to the
  thread that asked, in order; `NetRing` and `BlkRing` take from `XenGrants` that a
  grant, once given, stays until it is ended. A shutdown's waits are those of
  `XenStore`.

## Runs

Components that share no state are checked side by side: a variable `which` says
which of them moves in a behaviour, so the reachable states are those of each
component alone, added up. Deadlock is not checked in these runs: each component
comes to an end when its bounds are used up or everybody has finished, and what
has to go on is stated as a liveness property. Where the threads of one component
of a run are interchangeable and its properties are safety properties, the run
uses them as a symmetry set (`MCSymmetry`).

| Run | Parts | Shows |
|---|---|---|
| `components` | `NetdomChannel`, `LfRing`, `LfQueue`, `EventChannel`, `MemAlloc`, `Grants`, `RwLock` | An established channel whose receiver may be terminated: slots have one owner, the receiver is put on the run queue only while blocked, no wakeup is lost, the channel implements `PacketPipe`. `QueueSound` is the refinement of `WakeQueue`. No index, event, page or grant is lost or given twice; readers and writers exclude each other. |
| `core` | `Sched` (two CPUs), `Library` | Each thread in one place and on its CPU, join targets not reaped early, timeout queues sorted, nobody wakes early. Pointers agree with sequences; numbers printed are read back. |
| `waits` | `Sched` (one CPU), `LwpPark`, `Isr`, `CondVar` | One wakeup per wait, none lost. Runnable threads run, joins complete, unparked threads return, interrupts are served, waiters enter. |
| `lifecycles` | `NetdomChannel` from boot, `NetdomConnect`, `FrontLife`, `Runner` | Packets posted before the channel is bound come out (`PacketPipe` with its liveness). One restart of the server: slots agree, packets reach who bound the port, no grants leak, waiting applications reconnect. Front ends free pages only when the backend is done with them, and close. Runners are counted, pipes are wired, the machine reboots. |
| `xen_rings` | `NetRing`, `BlkRing`, `XenConsole`, `XenGrants` | Ids, slots and grants are in one place, completions come once, sleepers are woken, packets and output keep their order. |
| `xen_control` | `XenStore`, `XenDev`, `PciDev`, `BlkOpen`, `XenMem` | Replies find who asked, a state switch took effect, closing leaves nothing behind, masked ports are on their way to their reader, accesses reach their device, open devices stay open, mappings survive failures of others, no page table is taken from unmapped memory. |
| `services` | `SysProxy`, `MmapMem`, `VirtIf`, `RrConfig`, `Clocks` | References, slots, pool and send lock of the proxy agree, frames stay whole, mapped pages are not given away, card and mode agree, the configuration is carried out as written, clocks do not go back. |
| `park_lost`, `cv_stale`, `connect_late`, `switch_lost`, `store_reply` (violations) | `LwpPark`, `CondVar`, `NetdomConnect`, `VirtIf`, `XenStore` | See findings. |

### Bounds

Every bound is a constant or a named definition.

- Channel: two senders and two slots make the ring fill, drain and wrap; `MaxFails`
  2 stands for 256 empty polls, a value only compared with.
- Scheduler: two CPUs and two thread slots, of which one is reused, clock up to 1;
  for liveness one CPU and three slots, without sleeps;
  `NNodes` 4 lets the block nodes run out, which halts the system as the code does.
- Parking and locks: three threads give a holder, a waiter and a third party at
  once. Timed waits are used with spin mutexes; with kernel mutexes they lead to
  `cv_stale`.
- Connection: one restart. `LastStart` 0 means applications start in the first
  incarnation of the server; later starts lead to `connect_late`. One restart is a
  real limit of what is shown (below, `frontend.c:331`).
- Ring and queue: `MaxTicket` 5 takes the ring of four entries past its size; nodes
  of the queue are reused. `MCOneBinds` lets one thread at a time bind or unmask
  (callbacks still run on both CPUs and nest in it).
- `FrontLife`: `FlErrors` failures of xenstore and `FlRounds` connections, enough
  for a failure in a shutdown followed by a new connection. The proof has no bound.
- `NetRing`, `BlkRing`: two users and rings of two, so that a ring is full while
  both want it; `NtPackets` 2 fills the buffer of the interface once.
- `XenConsole`: rings of three and two characters: a line with its carriage return
  fills the output.
- `XenDev`, events: two ports, `EvSignals` 3 events and rings of three: the driver's ring
  overflows and its index leaves it.
- `XenStore`: two threads, a ring of two units, two ids. `XenDev`, requests: a watch, a
  transaction, three requests, two events, one failure.
- `PciDev`: two threads and two devices, one at the end of the number range;
  `PdQuiet` lets interrupts and DMA memory, which share nothing with the accesses,
  be set up only while no access is under way.
- `XenMem`: an area of four pages, page tables of two, batches of two: a mapping
  crosses tables and batches. At boot: all sizes from 8 to 20 pages, below, at
  and above the limit of the address space.
- `SysProxy`: two clients, two workers, three frames: all workers busy, a client
  that leaves and another that takes its slot. Its wire: three senders and bodies
  of 0 to 2 units cut anywhere.
- `RrConfig`: all sequences of up to three entries and texts that are wrong in one
  place. `Library`: `StLong`, `StInt`, `StShort` in place of 2^64, 2^32, 2^16, with
  values at their edges. `Clocks`: fixed point of four places, years at the edges of
  the leap rules, before 2100 (below, `clock_subr.c:143`).

### Fairness

Weak fairness only, of steps the hardware or the scheduler takes: a thread that
runs goes on, a queued thread is dispatched, an unmasked pending event is
delivered, a deadline is reached, a backend follows the states of its front end.
Nobody is obliged to send, start, park, fail or restart. The scheduler's liveness
assumes in addition that threads are cooperative (each eventually yields, sleeps,
joins or exits): nothing preempts a thread, so without it no other would run.
A thread in a critical section is assumed to leave it or wait; nothing is promised
to a thread that spins. In `FrontLife` failures of xenstore may come but do not
have to. In `Runner` programs are assumed to end.

## Findings

- `park_lost`: when a timeout fires after an unparker's exchange, or before the
  park callback's `fetch_xor`, `bmk_sched_wake_timeq` and `_lwp_wake_timeq` each
  leave the wakeup to the other. The thread sleeps for ever.
- `cv_stale`: a timed wait that has timed out keeps its list entry while it blocks
  for the mutex, and that block clears `bt_timedout`. A signal then wakes it into
  the signaller's critical section.
- `connect_late`: after a restart the server numbers new applications from 0 again
  while the hypervisor goes on, so a late hello connects another application's
  rings.
- `switch_lost`: interface and ifconfig thread each invert a flag of their own; a
  switch whose unpark is merged with another, or finds the thread not started,
  leaves them opposite for good.
- `store_reply`: `minios_wait_event` does not test its condition again after it
  has entered the wait queue; a reply whose event comes in between is never read.

Met while modelling and not the subject of a run. Where a property makes an
exception for one of them, a variable of the model records that it happened.

Hardware platform and network server:

- `backend.c:447` publishes the transmit ring before the event channel is bound:
  in the direction to the frontend the notification of a packet sent in between is
  lost, and `ImplementsFairPipe` does not hold from the start. `lifecycles`
  covers the other direction.
- `backend.c:451`: the receiver is queued with `readers` at 0 when its channel is
  unmasked, so a first interrupt can enqueue it twice. The safety properties are
  stated, checked and proved for channels whose receiver has passed that point.
- `frontend.c:269`: an active receiver does not look at `frontend_terminating`
  before it sleeps; `frontend_join` may then wait for ever.
- `frontend.c:301`, `382`: a hello or mode switch that arrives before the thread
  has stored -1 is overwritten. `Connects` is stated for a thread that waits.
- `frontend.c:331`: with a second restart while an application reconnects
  (`MaxRestarts` 2) its hello reaches the new incarnation, which also notifies it.
  The application revokes the rings it has just registered and makes new ones,
  and the server answers the first hello by mapping the revoked ones: `SlotsAgree`
  fails. `lifecycles` says nothing about a server that dies again before the
  reconnection is over.
- `rumprun_service.c:108` enters the negative result of a bind that failed, and
  the cleaning of the table forgets ports that stay bound. `hw/librumpnet_xenif/if_virt.c:322` does
  not free a packet for a card that is down, `if_virt.c:151` uses the interface
  after freeing it, `xenif_user.c:123` assumes that there is a card.
- `rumpuser_synch.c:273`: an uncontended `rumpuser_rw_tryenter` of a reader counts
  it twice (`rwExtra`).
- `sched.c:310`, `317`, `474`: yielding threads starve expired sleepers and the
  shared queue; block nodes are not returned.
- `cpu_subr.c:75`: one unspecific EOI per controller for a round leaves a second
  line of the first controller in service. `EveryEventServed` is stated for the
  second controller.
- `rumppci.c:96`: the check of the cookie lets `BMK_MAXINTR` itself pass.
- `clock_subr.c:143`: every century is given 24 leap years, the one from 2000 has
  25, so dates of 2100 to 2103 come out a day early. `clock.c:302`: the multiplier
  of the TSC is cut to 32 bits.

Xen platform:

- `netfront.c:547`, `blkfront.c:338`: the producer index is read before a grant is
  waited for. `NetRing` and `BlkRing` are for grants that do not run out.
- `rumphyper_bio.c`: the completion callback may block inside a poll that was made
  with interrupts off (`bkTorn`). `:81-84`: asking about an open device counts an
  opener that never closes; `:88`: two openers both set up the device
  (`boTwice`); `:230`: an open for writing that is refused keeps its count; `:162`: the
  check lets `sd` disk 16 pass, whose number is outside major 8.
- A backend that closes during the set-up has its pages freed under it; the states
  Reconfiguring and Reconfigured count as being closed; the error path of a
  shutdown leaves the front end half closed; the console does not wait for the
  backend before it frees its ring (`FrontLife`).
- `console.c:111` reads the character before an empty text; `console.c:127`: threads
  and interrupts print through one static buffer; `console.c:65` writes a
  terminator after the character it has received, in the input ring; `xencons_ring.c:54`: an echo inside a
  thread's send is overwritten (`cnDamaged`).
- `evtdev.c:144`: the index of the thread is not masked, and leaves the ring once the
  producer has wrapped; `evtdev.c:135`: an unbind before the thread runs fails an
  assertion.
- `busdev_user.c:421`: the id of a transaction is parsed from the address of the
  message; `:451`: the request inside a freed watch is freed by itself; a request
  that is refused is not freed. `busdev.c:325`: a poll looks at the message being
  read and not at the queue.
- `pcifront.c:461`: two callers write the one operation record.
- `ioremap` of frames whose mapping failed returns an address all the same;
  `rumpcomp_pci_dmalloc` reports success without memory; a first multicall that
  fails loses its pages (`XenMem`).
- `time.c:155`: the shadow clock is not protected against the timer interrupt
  (`ckTorn`).

Programs and library:

- `rumprun.c:311`: `rumprun_done` is lowered without its mutex (`rrLost`); `:356`:
  a program that becomes a daemon before it is on the list fails an assertion.
- `config.c:63` takes a beginning of a key for the key; `:215` uses the `argv` of a
  program that has none; `:354`: the flag that refuses a second network entry is
  never set; `:350`, `:557`: a `net` or `blk` entry with fewer tokens than its size
  announces returns -1, which takes the walk back to the key for ever.
- `sysproxy.c:1376`: a disconnect releases a send lock that another thread holds;
  `:1392`: the reset of a slot clears `spc_inexec`; `:1740`: exec waits for jobs
  that no worker is free to take; the end of the service releases slots twice.
- `sys_mman.c:182`: an mmap refused for its descriptor keeps its memory; a page unmapped
  twice counts twice.
- `bmk_string.c:50`: `bmk_strcmp` does not look at the last character when the
  strings end together; `:91`: `bmk_strncpy` of a shorter string writes n + 1
  bytes. `subr_prf.c:255`: `%hu` does not cut its argument to 16 bits.

## Proofs

Each proof has the form `Init => I`, `I /\ [Next]_vars => I'`, `I => P`, with one
step per action. All are for arbitrary values of the constants under the named
assumptions of the modules, which say what the code fixes: sizes and bounds are
numbers, sets of threads are finite where they are counted, a value for "nobody" is
none of them. Two theorems have a hypothesis of their own: `EarlyLines = {}` and
`SpinTimed`, explained in the table.

| Theorem | Inductive invariant and argument |
|---|---|
| `NetdomChannelProofs!TypeCorrect`, `BootTypeCorrect` | `TypeOK` with `HandsAgree` (a party holds a slot exactly at the steps between taking and giving it), which makes the sequence operations typed. |
| `WakeOwnership`, `SingleWakeup`, `NoWakeupLost` | `WakeOwned`: `readers` tells where the receiver is; only one that has finished blocking is at 0, it has no run-queue entry, and the exchange that finds 0 owns the only wakeup. The other two follow from it. |
| `SlotsOwned`, `ChannelIsSound` | `SlotOwnership` is inductive with typing: the two queues are injective and disjoint from each other and from all hands. |
| `ChannelImplementsPipe` | `SlotOwnership` and `FilledBeforePost`; each action maps to `Put`, `Get` or a stutter of `PacketPipe`. |
| `WaitProofs!SingleWakeup` | `WokenOnce`: a thread has one potential waker, determined by `rl_value`, callback and expiry. |
| `RemovalIsSafe`, `NoUnparkLost`, `ParkIsSound` | The same with `TimeqMember` and `QueuedOrExpired`: until the race is decided a timed thread is on the timeout queue or marked as expired. |
| `WaitProofs!InterruptThreadWoken` | `WakeProtocol` is inductive. |
| `ScanIsSafe`, `InterruptsKept`, `IsrIsSound` | Under `EarlyLines = {}` (devices interrupt only once registered): recorded lines lie at or above `isr_lowest`. With early lines the assertion of `doisr` can fail. |
| `WaitProofs!RwIsSound` | `RwInv`: the owner of `wait_mtx` and the one who holds `access_mtx` alone are determined by where the threads are (`RwOwners`); access that nobody holds alone is held for readers, free access leaves at most readers of which one is about to take it (`RwAccessFor`); `readers` is the number of threads between being counted and leaving, plus what `tryenter` counted twice (`RwCounted`). The exclusion of readers and writers follows from the three together and from none alone: the count may be raised by a reader that still waits. |
| `Theorems!MutexExcludes`, `MutexHandedOver`, `MutexIsSound` | `Handover`, `QueuedOnce`, `OwnerSet`: the right to the mutex is in exactly one place (holder, woken thread or kept wakeup) and the counter is the number of users. |
| `Theorems!LocksAreSound` | Under `SpinTimed` (timed waits with spin mutexes only; `cv_stale` is what happens otherwise). A step of a condition variable is a step of the mutex or leaves it alone, so the mutex's invariant carries over. `CvInv` adds where a thread is while it waits (`WaitPlaces`) and that whoever is on the list has not been signalled, and has left its sleep only by its timeout (`ListedFresh`). |
| `PlatformProofs!EventsKept`, `EventsDelivered`, `EventsAreSound` | `NoEventLost` and `EventDelivered` are inductive with typing. |
| `PlatformProofs!PagesAreInUse` | `FlInv`: what the driver holds at each of its steps (`FlHeld`), and, as long as xenstore has not failed, how far the two ends can be from each other (`FlApart`). `PagesInUse` alone is not inductive: that no page is mapped when a front end gives up follows from the state the backend was seen in some steps before. |
| `DeviceProofs!HwAccessReaches` | `HwInv`: a thread between its two port accesses holds the lock, and the address register selects the device it wants. Rests on lemmas about the fields of the address word. |
| `DeviceProofs!HandlersAreOnLine` | `IrqInv`: what either platform remembers of a mapping is what was mapped last for its cookie. (Within the bound `PdQuiet`.) |
| `DeviceProofs!DevicesKept` | `BoInv`: a front end is in one slot (`FrontsOwned`), a slot is open exactly while it has one, and closed while a thread sets one up (`SlotsCounted`, `OneOpens`), except for slots that two threads opened at once (`boTwice`). That names and device numbers agree is arithmetic on the numbering of `devname2vbd` (`NamesDiffer`). |
| `Theorems!MappingsStay` | `MmInv`: chunks are apart from each other, from free memory, and from what threads hold between two locked sections (`ListApart`, `ChunksApart`). That `munmap` leaves `mc_left` at the number of pages still mapped is proved for a range over any number of chunks, page by page (`Emptied`, `Lowered`). |
| `LfRingProofs!RingKeepsIndices` | `RingInv`, for rings of every order and any number of threads. An entry only moves forward (`Leq`), so what a thread has read of it is what it was once (`ReadsOld`). An index in an entry whose ticket the head has passed is awaited by the dequeuer with this ticket (`ItemsAwaited`). It rests on `SafeAwaited` and `UnsafeAwaited`: whoever enqueues in a safe entry, or has seen the head behind its own ticket, is not too late for that dequeuer. `lfring_map` is shown to be a bijection for every order. |
`waits` checks the theorems about parking, interrupts and mutexes on small
instances, `components` those about channels, events, the lock-free ring and
reader/writer locks, `lifecycles` and `xen_control` those about front ends and
devices, `services` those about memory mappings.

`LockProofs` and `MmapProofs` do not extend the library's theorem modules: every
step of a proof carries all that its module extends, and with the library these
two were out of the provers' reach. They take what they use of it as hypotheses
(`CountsIn`: subsets of a finite set can be counted; `PageFacts`: the same for
ranges and their parts, and a least element of a set of numbers). `Theorems` proves
these hypotheses from the library and states the theorems without them.

The library's induction theorems have an operator as parameter, which the provers
cannot instantiate. Where a proof needs induction over numbers (powers of two in
`LfRing`, the pages of a range in `MmapMem`) it takes a least
counterexample, whose existence follows from the well-foundedness of `<`.

Only model-checked: every liveness property (fairness and ENABLED are beyond the
prover), and the safety of the other modules. `EmptyIsTrue` of the ring counts the
dequeuers that can have passed while the threshold ran down, a sum over all
threads that the invariant of `LfRingProofs` does not keep. The strings of `Library`
and `RrConfig` compute by recursion over their inputs; what such a definition yields
for every input needs induction over data, and so do `Carved` (page allocator) and
`Listed` (grant list).

## Not modelled

- Boot code, traps, descriptor tables, context switches, consoles and register
  access of the hardware platform: straight-line code on hardware state. The parts
  that schedule or take interrupts are in `Sched` and `Isr`.
- The rump kernel hypercalls for memory, console and random numbers, and the libc
  glue: each is one call of a modelled operation, or a stub.
- The imported `ifconfig` but for its daemon thread: one thread that parses
  arguments and makes ioctls.
- `privcmd`, the timecounter and the tester: a forwarded call each.
- Tools, scripts, tests, imported Xen interface headers and build files.
- Memory orders weaker than sequential consistency, and the wrap of 32-bit and
  64-bit indices.

Hazards that no property covers, besides those of `PROJECT.json` and the ones above:

- `_lwp.c:142`: `rumprun_makelwp` makes a thread runnable before it is on
  `all_lwp`; on another CPU it can park or exit first.
- `intr.c:149`: the range check lets lines 31 and 32 through; `cpu_intr_init`
  refuses them on x86.
- `frontend.c:327`: rings are swapped under a receiver that may be polling the old
  one. Channel and connection are modelled separately.
- `backend.c:410`: the slot number `RUMPRUN_NUM_OF_APPS` passes the check.
- `backend.c:223`: an application that died before the restart is still listed as
  active, and its reconnection never completes.
- `hw/xen/events.c:122`: the lock of a port is taken in the interrupt and by threads of
  the same CPU. `hw/xen/hypervisor.c:67`: a port that keeps firing starves those above it.
- `memalloc.c:330`: the size of a block is shifted as an int.
- `hw/xen/gntmap.c:187`, `199`: pages after one whose unmapping fails stay mapped, and
  unmapped pages are not given back to the allocator.
- `netfront.c:125`, `162`: buffers are granted again in ring order and not by id; a
  response of status NULL returns nothing.
- `clock.c:620`: the sleep of an idle CPU is cut to what the timer can count.
