# Gaxera in TLA+

Gaxera is a capability microkernel for x86-64 in Rust with its user-space
servers: `src/kernel` (architecture code, system calls, boot), `src/crates/kernel-core`
(the pure state machines the kernel is built from) and the other crates (init,
drivers, storage, network, runtime library). This directory models the parts whose
correctness depends on the order in which things happen, on what fails half-way, or on
states that take many calls to reach. TLC checks small instances; TLAPS proves for every
instance what is central about scheduler, IPC, process lifecycle, capabilities, interrupt
delivery, frame allocation, storage and the packet ring.

## How the system executes

The kernel uses one processor. A system call enters with interrupts masked
(`IA32_FMASK`) and keeps them masked until it returns, so a system call is atomic up
to the context switch inside it. A thread that is switched away inside `Call`,
`Receive` or `WaitNotification` continues, when it is switched to again, with the
rest of that system call on its own kernel stack. The timer and device interrupts
arrive only in user mode or while the idle thread halts. `panic = "abort"`: a failed
`unwrap()` stops the machine.

So a handler that does not block is one action, however many locks it takes; one that
blocks is two. What interleaves are the system calls of different programs, the timer,
the devices and the network, and, where a medium is involved, power failures between
any two device calls.

## Parts and modules

| Module | Models |
|---|---|
| `Options` | `Option::None`, shared by the modules that have one |
| `KernelTypes` | identities and thread states |
| `Scheduler` | `scheduler.rs`, `preemption.rs`: run queue and context switch as operators on one record (`rq`, `cur`, `thr`, `cpu`, `up`) |
| `Endpoint` | `ipc.rs` and `notification.rs` as operators on records |
| `KernelIpc` | their composition: one action per system call or half of one, the timer, the device interrupt, the idle thread |
| `KernelLifecycle` | extends it with Start, Terminate, ExitProcess, user page fault, DeleteHandle of an endpoint and Reap |
| `IrqDelivery` | one interrupt line: vector slot, interrupt objects, IOAPIC mask; FactoryCreate, InterruptControl, DeleteHandle and the interrupt handler |
| `IrqDriver` | composes it with a supervisor that launches, loses and replaces drivers and objects |
| `Capability` | `capability.rs`: capability spaces, slots, nodes, generations, sibling lists, reference counts; Derive, DeleteHandle, Revoke |
| `MemoryObjects` | extends `Capability`: memory objects, contiguous frames and mappings with their three kinds of references, frames, page-table entries, byte charges; FactoryCreate, MapMemory, UnmapMemory, DeleteHandle, Revoke with all rollbacks |
| `Processes` | `create_process`, its bootstrap and rollbacks, InstallCapability, Start, exit and Reap over arena, resource domains, quotas and frames |
| `FramePool` | what frame allocation promises: free frames and given frames |
| `FrameAllocators` | `boot.rs`, `physical.rs`: the boot loader's memory map, the boot allocator, the handover, the bitmap; implements `FramePool` |
| `PageTables` | `paging.rs`, `stack.rs`: kernel tables, fork of an address space, user mappings with undo, guarded kernel stacks, destruction |
| `SlabCache` | `slab.rs`: free lists kept inside the slots |
| `WaitSets` | `waitset.rs` and its system calls over `Scheduler` |
| `Platform` | `boot.rs`, `acpi.rs`, `apic.rs`, `ioapic.rs`, `interrupts.rs`: the way from firmware tables to vector leases |
| `PciDiscovery` | the kernel's search (`pci.rs`) and the scan of `pci_bus_server` over one configuration space |
| `InitServices` | extends `KernelIpc`: init, ramfs and script_session, the capability spaces init fills, ConfigureThread, crash and restart |
| `DriverSupervisor` | `driver_supervisor.rs` over every system call of `ProcessBuilder::spawn` |
| `UserHeap` | `libgaxera/heap.rs`: block table, split, merge, growth, teardown |
| `Storage` | `gax_storage_engine`: format, mount, write and commit over a medium with a volatile cache |
| `Tcp` | `net_stack_server/tcp.rs`: sending, acknowledging, recovery, retransmission |
| `PacketRing` | `net_types/ring.rs`: one producer, one consumer, wrapping indices |
| `KernelStepProofs`, `KernelIpcProofs` | theorems on `KernelIpc`; the first holds what Scheduler and Endpoint operators do and one lemma per action |
| `KernelTeardownProofs`, `KernelLifecycleProofs` | theorems on `KernelLifecycle`; the first holds the actions that start and end processes |
| `CapabilityTree`, `CapabilityProofs` | theorems on `Capability`; the first is about the node table, the walks along its links and the slots of a space |
| `FrameProofs` | the refinement of `FramePool` by `FrameAllocators` |
| `ComponentProofs` | theorems on `IrqDelivery`, `IrqDriver`, `Storage` and `PacketRing` |
| `MC*` | programs, machines, bounds and history for the TLC instances; `MCKernelCore`, `MCLiveness`, `MCResources` and `MCComponents` put the components a run checks side by side |

How the state corresponds to the code:

- In `Scheduler`, `up` becomes FALSE when an `unwrap()` fails or the kernel halts; `cpu`
  is the thread whose context is loaded, `cur` is `current_thread`. The two differ
  exactly when `Call` or `Receive` blocks with nothing else to run. Priorities are always
  0 in the kernel image, so one run queue level is modelled.
- A message is `<<t, k, e>>`, the k-th call of thread `t`, made to endpoint `e`. User programs are reduced to the
  set of operations they use (`Program`), taken in any order.
- A handler with several fallible steps (`MemoryObjects`, `Processes`) is a function from
  the kernel state to the state it leaves, rollbacks included; each early return is an
  alternative. Object identities are numbered in order of creation, so a reused arena slot
  never has the identity of its predecessor, as with the code's generations.
- In `Storage` every device call is a step. A power failure keeps any subset of the
  unflushed blocks, superblocks, payloads and headers alike, and tears any of those it
  keeps.
- In `Endpoint` a token is what the code makes it, a caller and a sequence number of the
  endpoint that issued it. Only the message says which endpoint that was, so that the
  properties can tell which call a reply was meant for; no guard looks at it.
- In `DriverSupervisor` the kernel's view of a process (running, exited, faulted) is kept
  beside what the supervisor recorded: `start_driver` does not look at what is recorded,
  and `handle_driver_exit` discards the result of Reap, which refuses a faulted process.
- In `PacketRing` a push is a load of both indices and a later store, likewise a pop; in
  between the other side runs.
- A firmware table in `Platform` is a record with at most one flaw, the first that its
  reader would meet. A page in `PageTables` is a path through three levels of tables
  where the hardware has four.

Operators whose comment starts with "Mutant of" are deliberately wrong variants of the
definition that follows them. No specification uses them; they document which mistake
each property detects.

## Runs

| Run | Expect | Shows |
|---|---|---|
| `kernel_core` | pass | IPC: three threads, two endpoints, one device interrupt: scheduler state consistent, no failed unwrap, no lost wake-up, a reply reaches a thread inside a call, and the right call if the token came from its endpoint. Capabilities: the tree stays linked and the counts exact; what was revoked, deleted or destroyed stays unusable, and nothing else does |
| `ipc_reply_token` | violation | with two endpoints a token kept from a call through one answers a later call through the other |
| `liveness` | pass | under fairness, calls complete and interrupts are consumed although one thread spins; interrupt object, vector slot and controller agree, and every event on a level-triggered entry is served although drivers die at any point |
| `lifecycle_reply_panic` | violation | replying to a caller that was terminated panics the kernel |
| `resources` | pass | memory: mappings are installed while their objects live, frames and charges are released exactly once, a revoked handle leaves no mapping. Processes: no path through creation, rollback and reaping loses a frame or overspends a domain; delegated memory objects outlive their creator; manifests list handles that exist |
| `memory_rollback` | violation | a MapMemory that collides half-way leaves the pages it had installed |
| `memory_run_reclaimed` | violation | the frames of a run are released while a page that shows them through a PhysicalRange is still mapped |
| `quota_objects` | violation | a domain that deletes memory and creates it again ends up with more objects than its limit |
| `components` | pass | the process lifecycle and twelve components that share no state, see below |
| `init_restart` | violation | the restart of script_session by init panics the kernel |
| `storage_readback` | violation | after a format, an acknowledged object does not read back |
| `storage_crash` | violation | after a power failure a mount selects a generation whose object never reached the medium |

The parts of a run share no state: a behaviour exercises one of them while the others rest
in their initial state, so the state spaces add up instead of multiplying.

Each violation is a finding in `PROJECT.json`, with the line of the documentation or
comment it contradicts.

The parts of `components` (module `MCComponents`):

| Part | Property | In words |
|---|---|---|
| lifecycle | `CloseWakesAll`, `ZombieNotExecuting`, `NoResurrection` | start, terminate, exit, fault, close and reap under a polling supervisor: nothing returns from the dead, a zombie does not execute, closing an endpoint wakes everyone |
| frames | `PoolRefined` | boot allocator, handover and bitmap together implement `FramePool` |
| pages | `FramesUsedOnce`, `KernelHalfShared` | each frame has one use; every address space sees the same kernel and every live stack |
| storage | `RecoversCommitted` | after any power failure the superblocks name the last flushed commit or the one in progress |
| heap | `AllocationsDisjoint` | allocations are disjoint, aligned and mapped; every byte is accounted for |
| waitsets | `EventsKept` | ready events are exactly what was posted and not taken; the registered waiter does not wait while one is ready |
| drivers | `DriversSupervised` | what the supervisor records exists and is the only process of its driver that runs, bounded restarts, no leaked handles |
| services | `ServicesAnswer` | script_session gets the answers the archive implies; children run only with their capabilities in place |
| platform | `OwnedInterrupts` | after bring-up an interrupt comes only from a source the kernel owns |
| tcp | `NothingForgotten` | the retransmission queue is what was sent and not acknowledged |
| ring | `RingIsQueue` | a bounded queue, across wraps and interleaved loads and stores |
| slab | `SlotsPartitioned` | a slot is free or handed out, never both |
| pci | `ScansAgree` | both scans agree with the bus and with each other |

What the passing runs do not claim:

- `ReplyReachesCaller` says that a reply answers the very call its receiver is in only
  where token and call belong to one endpoint. `Reply` (`syscall.rs:1920`) offers its token
  to every endpoint in turn; what ADR 0013 says beyond that is `ReplyAnswersCall`, and
  `ipc_reply_token` refutes it.
- `kernel_core` has one thread that waits for the notification. A second waiter replaces
  the first in `notification.rs`, so `WakeupPending` is a statement about one waiter. Its
  run queue has room for every thread: `KernelUp` shows that none is queued twice, not what
  a full queue does.
- The lifecycle part has a supervisor that polls and never blocks, and a flat hierarchy:
  `ZombieNotExecuting` fails in a chain of supervisors. `KernelUp` is not among its
  properties because it fails (`lifecycle_reply_panic`).
- `RefsCover` counts the mappings made through an object's own handles and bounds the
  capability count from below. A revoked handle keeps its count when it is deleted, so an
  object whose handles were revoked is never reclaimed, where
  `src/docs/architecture/userspace_runtime.md:244` says that Revoke drops the counts to 0 and
  deallocates the frames. A PhysicalRange counts nothing (`memory_run_reclaimed`).
- `QuotaCovered` says nothing on the number of objects a domain holds: reclaiming memory
  releases its object charge twice (`quota_objects`).
- `DelegatedMemorySurvives` is about memory objects. InstallCapability takes no reference
  for a contiguous frame, so the holder of an installed handle loses the frames when the
  creator deletes its own.
- `RevokeReachesSubtree` is about a Revoke that succeeds, see below for one that is refused.
- `EventServed` is about level-triggered entries, such as the one `init.rs` programs for
  the virtio-rng object it creates at boot (object 1 of the run). Objects made by
  FactoryCreate (object 2) get an edge-triggered entry, and an event raised while it is
  masked never becomes an interrupt.
- `RecoversCommitted` is about the superblocks. That the generation they name is there,
  payload and header, is `CommitsWhole`, which fails since nothing is flushed before the
  superblock is written (`storage_crash`). Both assume that no extent was laid over a
  superblock, which is what the first write after a format without a mount does
  (`storage_readback`); every later write of that engine is outside them.
- `OwnedInterrupts` assumes that firmware wires no two lines in use to one IOAPIC input;
  the code programs such a shared entry twice. The PIC, which bring-up masks in one step,
  is not part of the state.
- `EventsKept` assumes sources with cookies of their own. Removing a subscription purges
  by cookie, so sources that share one lose events. It follows an event until a wait takes
  it: `WaitSetWait` returns the number of events (`syscall.rs:1604`) and drops cookies and
  signals, which `src/docs/architecture/ipc.md:101` and ADR 0024 say it returns. A second
  waiter replaces the first, which stays Blocked.
- `DriversSupervised` excepts images in which the size of a segment overflows: on that
  way out `spawn` leaves its handles behind. It also excepts a driver that was started
  again while a process of it was recorded, whose handle `start_driver` overwrites, and
  processes that faulted: Reap refuses them, and their handle is deleted all the same.
- `NothingForgotten` has a peer that acknowledges only what was sent; `tcp.rs:126` accepts
  more. `RingIsQueue` is about indices: `push_slot` publishes a slot before its caller
  fills it, and the contents of slots are not modelled.

Deadlock is not checked: behaviours end by their bounds on calls, writes or objects, and
among the drivers of `liveness` the system itself may stop, as a lost event on an
edge-triggered entry leaves driver and device waiting for each other. That calls do not end
up waiting for each other is what `CallCompletes` says.

### Further divergences

These were met while modelling and are not runs of their own:

- After `Receive` or `Call` blocks with an empty run queue no thread is Running and
  `current_thread` is None, while the blocked thread keeps the processor.
- A user page fault kills the thread but leaves its process Runnable; nobody is told
  (`src/docs/architecture/process_lifecycle.md:35` says the supervisor is).
- `ExitProcess` with an empty run queue switches to the supervisor without asking whether
  it is alive or runnable.
- A Revoke that is refused for want of MANAGE has already revoked the descendants.
- `create_process` failing after the page-table root was made keeps the budget it had
  reserved from the parent's domain charged.
- The receive path of `tcp.rs` advances `rcv_nxt` once per delivery, also for a
  duplicate.

## Bounds

| Bound | Value | Why it is enough |
|---|---|---|
| threads | 3 or 4 | a server, the caller it serves and one more that queues, interrupts or dies |
| `MaxCalls`, endpoints | 2, 2 | a second call is what a token kept from the first could be confused with, at the same endpoint or at the other |
| `MAX_ENDPOINT_CALLERS` | 2 | full, partly full and empty queues occur (the code has 32) |
| `Capacity` | number of threads | the run queue can hold every thread: see `NoPanic` |
| interrupt `MaxObjects`, drivers | 2, 3 | a slot is released and leased again; a driver dies and its replacement does too |
| `Nodes`, `MaxIssued` | 4 | a deleted middle node stays alive for its child, so root, middle, leaf and the new occupant of the middle's slot need four |
| `Slots`, spaces | 2, 2 | full spaces, reuse, and delegation to another space |
| `MaxSteps` | 6 | operations in a behaviour: issuing those four handles, deleting the middle and revoking the root takes six, and shorter trees leave room for more deletions and revocations |
| `MaxGeneration` | 2 | one reuse of each slot and node; the wrap-around of a generation is not modelled |
| memory: `MaxEnds` | 3 | unmappings, deletions and revocations in a behaviour: the mapping, the object and a derived handle to it |
| memory: `FrameCount`, `ObjectLimit`, `MemoryLimit`, `ArenaCapacity` | 4, 3, 3, 3 | each runs out at every step of a creation or mapping |
| processes: `FrameCount`, `NodeCapacity`, `ArenaCapacity`, child limits | 15, 17, 20, three | one process fits, a second below or beside it fits or fails at each of the steps; `Plans` bounds the calls of each kind |
| frames: `AddressLimit`, `WordBits` | 18 bytes of 2-byte pages, 3 | up to three regions that overlap, touch, are unaligned or fall into one bitmap word |
| pages: frames, stacks, spaces | 21, 4, 3 | tables are shared, made late, torn down and their frames used again; allocation fails at every step |
| storage: blocks, `MaxWrites`, `MaxFaults` | 8, 2, 2 | both superblocks are rewritten and a mount follows a mount |
| heap: `MaxBlocks`, `MaxChunks` | 4, 2 | the block table is full while a split needs an entry |
| tcp: segments, duplicates, retransmissions | 2, 4, 1 per session | a partial acknowledgement, a third and fourth duplicate, a retransmission of what is acknowledged meanwhile |
| ring: `RingCapacity`, `IndexRange` | 4, 16 | the indices wrap several times (32 bits in the code); both are powers of two as the code requires |
| slab | 2 pages of 3 slots | head, middle and end of a free list, an emptied and a new page |
| pci | 2 functions of 2 devices | single- and multi-function devices, present or not; capability lists that end, loop or leave the space |

In `kernel_core` `Rights` is `{MANAGE}`: a handle has the one right Revoke asks for or
lacks it. Permuting endpoints, spaces and objects is sound as no operation or property tells
them apart; there is one order of endpoints in the code, the order in which `Reply` offers
a token, and `Reply` in the model may take any.

## Fairness

- The IPC part of `liveness`: strong fairness of each operation in a thread's program, because a
  dispatched thread runs at least until the next tick and so is not preempted for
  ever before its next system call; weak fairness of the timer, of the rest of a
  resumed call, which runs with interrupts masked, and of the idle thread, which
  leaves `hlt` on an interrupt.
- Its drivers: weak fairness of the interrupt handler (an accepted vector is taken), of a
  running driver, and of the supervisor that relaunches a driver or re-creates the object.
  The device may stay silent and no driver has to die. A driver is killed or leaves only
  while another is left to launch: the bound on drivers would otherwise end every
  behaviour with none.

## Proofs

Each theorem holds for every value of the constants its assumptions admit: any sets of
threads, endpoints, notifications, processes and drivers, any programs, any queue
capacity, number of nodes and slots, size of volume, ring or memory map.

| Theorem | States | Module |
|---|---|---|
| `Invariance` | `Spec => []IInv` of `KernelIpc` | `KernelIpcProofs` |
| `TypeCorrect` | `Spec => []TypeOK` | |
| `SchedulerConsistent` | `Spec => []SchedConsistent` | |
| `NoPanic` | `Spec => []KernelUp`, assuming `RoomForAll` | |
| `NoWakeupLost` | `Spec => []WakeupPending`, assuming `RoomForAll` and `OneWaiter` | |
| `CallsReturnReplies` | `Spec => CallReturnsReply` | |
| `RepliesReachCallers` | `Spec => []ReplyReachesCaller` | |
| `LifecycleConsistent` | `LSpec => []SchedConsistent` of `KernelLifecycle`, assuming `InitPolls` | `KernelLifecycleProofs` |
| `NoThreadReturns` | `LSpec => NoResurrection`, assuming `InitPolls` | |
| `ZombiesStopped` | `LSpec => []ZombieNotExecuting`, assuming `InitPolls` | |
| `ClosingWakes` | `LSpec => []CloseWakesAll`, assuming `InitPolls` and `RoomForAll` | |
| `TreeAlwaysLinked` | `CapSpec => []TreeLinked` of `Capability` | `CapabilityProofs` |
| `CountsExact` | `CapSpec => []ReferencesExact` | |
| `DeletionSparesOthers` | `CapSpec => DeleteSparesOthers` | |
| `HandlesNeverReturn` | `MCSpec => []NeverUsableAgain`, with the history of `MCCapability` | |
| `RevocationReaches` | `MCSpec => []RevokeReachesSubtree` | |
| `ControllerInvariance` | `Spec => []ControllerAgrees` of `IrqDelivery`: whatever programs hold handles to the line | `ComponentProofs` |
| `DriversAgree` | `DSpec => []ControllerAgrees` of `IrqDriver`: with a supervisor and drivers that die | |
| `CommitSurvives` | `SSpec => []RecoversCommitted` of `Storage` | |
| `RingQueues` | `RingSpec => []RingIsQueue` of `PacketRing` | |
| `OnePool` | `FrSpec => PoolRefined`: `FrameAllocators` implements `FramePool` | `FrameProofs` |

### Assumptions

The named assumptions of the modules (`CoreAssumption`, distinct identities in
`KernelTypes`, `LifecycleAssumption`, those of `IrqDelivery`, `StorageAssumption`,
`FrameAssumption`, those of `Capability` and `PacketRing`) are evaluated by TLC in the
runs. Three more are hypotheses of single theorems:

- `RoomForAll`: the run queue can hold every thread, each once. The code fixes 64 entries
  and does not limit threads to that number, so `NoPanic`, `NoWakeupLost` and `ClosingWakes`
  are conditional: a wake-up that finds the queue full is lost.
- `OneWaiter`: one thread waits for notifications. A second waiter would replace the first in
  `Notification::wait`.
- `InitPolls`: every child belongs to the boot thread, which never blocks, exits or faults.
  That is how init supervises; with a supervisor that blocks, `exit_current_process` may
  switch to a thread that is not runnable.

### The IPC core

Neither `SchedConsistent` nor `KernelUp` is inductive. Whether a wake-up may put a
thread in the run queue depends on the endpoint or notification that names it. `IInv`
adds that a registered thread is Blocked inside the very call it is registered for
(`Registrations`), once per endpoint (`CallersOnce`), that endpoint state and fields
agree (`EndpointShape`), and what a thread inside a call may look like (`PcShape`,
`ThreadsAlive`). A thread that Call or Receive left behind with an empty run queue
(`Stranded`) is the exception these have to allow. There is one lemma per action.

`WakeupPending` is the converse, that a Blocked thread is registered. `WInv` says that every
Blocked thread is registered somewhere (`Homes`), also the stranded one in only one place
(`StrandedOnce`), that a waiter is registered only while no signal is pending
(`WaitersWait`), and that caller queues stay within their bound. For replies, `RInv` says
that the messages an endpoint keeps, and the tokens handed out for messages to it, belong to
the calls their threads are in, that none of these tokens is younger than its sequence number
(`Matched`), and that a token names the sender of the message it came with (`OwnTokens`), which
is what is left of the argument when a token is offered to another endpoint; `CallersAnswered` says
that a thread inside Call is Blocked until its reply is in its buffer, which is what the
resumed half of Call relies on.

### Process lifecycle

Termination breaks what `IInv` says: a terminated thread stays registered in endpoints until
somebody replies to it, signals it or closes the endpoint. `LInv` is the invariant that
survives. A registered thread is Blocked inside the call it is registered for or has ended
since (`LReg`); the thread of a process that ended is terminal or never ran (`Ended`); the
boot thread is always runnable or running (`InitRuns`); with room in the queue every thread
Blocked in a Call or Receive is still registered where it waits (`Awaited`), so that closing
the endpoint reaches it. The part on registrations holds while the kernel is up:
`lifecycle_reply_panic` shows the step that ends it. Closing wakes the threads of an
endpoint in a loop and Reap closes endpoints in a loop, in any order; both are proved by
induction over the loop.

### Capabilities

The code stores the derivation tree as parent, first-child and next-sibling links in a table
and walks it in loops. `Forest` says when such links are a tree: a list holds the children of
its node, all of them, each in one place, and there is a rank that decreases along siblings and
towards parents, so that no walk goes round in circles. `CapabilityTree` proves from it that
the walks end and return children, ancestors and descendants, and that allocation, unlinking,
release and marking preserve it. `Sound` adds exact reference counts and the free list, with a
parameter for the one reference that is pending while `release_node` climbs; `CapInv` adds that
slots hold live nodes. `HistoryInv` relates nodes to the history: what is derived from a
handle has its node on its lineage, and what is derived from a revoked handle is marked even
after the nodes in between were freed.

### Components

`ControllerAgrees` is not inductive: a handler finds the object through the slot,
and teardown releases the slot when the last handle goes. `IrqInv` adds that an active
slot carries identity, generation and binding of the one live object (`SlotOwned`), that
the reference count of an object is the number of its handles, none of which outlives it
(`HandlesCounted`, where counting is numbering them), and that an unbound or in-flight
object is masked (`MaskedUntilAcked`). The steps of `IrqDriver` are steps of `IrqDelivery`
or leave its state alone, which carries the invariant over.

`RecoversCommitted` speaks of the moments when no engine is open. `StorageInv` says how the
medium gets there: one superblock holds the committed generation and has no write pending
in the cache, and the other has only the next generation pending, so that power can at
worst tear it or make it the newer one (`Holds`); while an engine is open the first is its
active one. Before the first commit both are blank, torn or what format writes
(`Unformatted`). The theorem is about runs in which no extent covers a superblock and no
mount trusts the cache (`exposed`), that is, objects written after a mount rather than
straight after a format, which `storage_readback` is about.

`RingInv` says that the queued slots are those from the consumer's index on, that their
number is the distance of the wrapping indices, and that what a side loaded of its own
index is still there when it stores. It needs the capacity to divide the index range: the
slots would otherwise jump when an index wraps.

`OnePool` is a refinement: every step of the boot allocator, of the handover and of the bitmap
is a step of `FramePool` or leaves pool and given frames alone. Free frames are, until the
handover, the frames of the usable ranges that no reservation covers; after it, those whose
bit is clear.
`BootInv` says that sorting the loader's regions left the usable ranges disjoint, that the
reservations cover exactly what was given out, and that in every range they lie before the
cursor; `Mapped` that `frame_index` and
`frame_address` are inverse to each other across the gaps between ranges; `BitmapInv`
that no frame a caller holds has its bit clear. The handover is the hard step: a bit is
clear exactly if the boot allocator had not given its frame out.

### What stays with TLC

Liveness under fairness and ENABLED are outside the prover: `SignalConsumed` and the other
liveness properties are checked by their runs alone. So are the invariants of
memory objects, processes, page tables, platform, PCI, init, driver supervision, heap, slab,
wait sets and TCP; most of their operators go through `SelectSeq` and the folds of the
community modules, whose recursive definitions the provers cannot unfold. Loops that are
recursive functions can be reasoned about: the proof modules that have them derive from
the well-founded order of the natural numbers a form of induction without operator
parameters (`UpTo`) and show that the function a loop defines exists (`Loop`, `Iterates`).

## Not modelled

- Scheduler domains, affinity and SMP: the image runs the bootstrap processor, and
  nothing migrates or steals. Timer queue and clocks: nothing inserts a timer.
- Descriptor tables, assembly entry paths, user copies: their correctness is about the
  hardware. TLB invalidation is left out of `PageTables` and `MemoryObjects`: with one
  processor it follows each unmapping within the same handler.
- ELF parser, event log, resolver, cryptography, query planner, vector index: sequential
  code with one owner. The virtio servers initialise a device and answer in sequence; the
  interrupt protocol they take part in is `IrqDriver`.
- ARP, IP routing and UDP in the network server are constructed and not driven by its
  main loop.
- `xtask` builds images and is not part of the running system.
- Inside modelled parts: thread priorities (always 0 in the image), capabilities carried
  by messages, closing a notification, exceptions other than the page fault, FactoryCreate
  failing after a vector was leased, more than one line in `IrqDelivery` (lines share no
  state; `Platform` has several), the storage journal (the engine never calls it), the
  service registry of init (nothing looks anything up in it), sequence number wrap in
  `Tcp`.

`PROJECT.json` lists every component with its status, the source lines of every
definition, and the hazards with the line at which each bites.
