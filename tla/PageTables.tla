----------------------------- MODULE PageTables -----------------------------
(***************************************************************************)
(* The page tables (src/kernel/src/arch/x86_64/paging.rs), from the boot   *)
(* sequence of src/kernel/src/main.rs and init.rs to the address spaces    *)
(* and kernel stacks of processes (address_space.rs, stack.rs).            *)
(*                                                                         *)
(* A page is a path <<top, mid, low>> through three levels of tables,      *)
(* where the code has four; entries from KernelTop on belong to the        *)
(* kernel, and a new address space copies them from the active root, so    *)
(* that it shares the tables below.  The windows keep the root entries     *)
(* they have in memory/mapping.rs: the direct map has its own, framebuffer *)
(* and kernel stacks share one, heap and device windows another.           *)
(***************************************************************************)
EXTENDS Integers, Sequences, FiniteSets, FiniteSetsExt, Functions, TLC

CONSTANTS FrameSet,      \* frames of RAM, as numbers
          LowEntries,    \* entries of a table
          HeapPages, StackPages, MaxStacks, MaxSpaces,
          UserPages,     \* pages <<0, mid, low>> that processes map
          Framebuffer,   \* BOOLEAN: whether the boot loader reported one
          ApicPages,     \* where firmware may say that controllers are
          Data           \* a frame that page tables and stacks do not own: of a
                         \* memory object, the kernel image or the framebuffer

ASSUME PageAssumption ==
  /\ FrameSet \subseteq Nat /\ Framebuffer \subseteq BOOLEAN
  /\ LowEntries \in Nat \ {0} /\ StackPages \in Nat \ {0} /\ HeapPages \in Nat \ {0}

VARIABLES step,      \* of the boot sequence; "run" once init has been entered
          tables,    \* table frame -> index -> frame
          unused,    \* frames the allocator has
          heap,      \* frames of the kernel heap
          kroot,     \* root of KernelPageTables
          active,    \* root in CR3
          spaces,    \* roots of user address spaces
          stacks,    \* index of a kernel stack -> its frames
          next_stack \* NEXT_STACK_INDEX

pvars == <<step, tables, unused, heap, kroot, active, spaces, stacks, next_stack>>

KernelTop == 1
HhdmPage == <<1, 0, 0>>
FramebufferPage == <<2, 0, 0>>
HeapPage(i) == <<3, 0, i>>
AcpiTableWindow == <<3, 1, 0>>
LocalApicWindow == <<3, 2, 0>>
IoApicWindow == <<3, 3, 0>>

(* Kernel stack i begins with its guard page. *)
StackPage(n) == <<2, 1 + (n \div LowEntries), n % LowEntries>>
stack_page(i, j) == StackPage(i * (StackPages + 1) + 1 + j)
guard_page(i) == StackPage(i * (StackPages + 1))

K == [tables |-> tables, unused |-> unused]
-----------------------------------------------------------------------------
(* The table below entry i of table t, allocated and linked if there is none *)
child(k, t, i) ==
  IF i \in DOMAIN k.tables[t] THEN [k |-> k, t |-> k.tables[t][i], ok |-> TRUE]
  ELSE IF k.unused = {} THEN [k |-> k, t |-> t, ok |-> FALSE]
  ELSE LET f == Min(k.unused)
       IN  [k |-> [tables |-> [k.tables EXCEPT ![t] = @ @@ (i :> f)] @@ (f :> <<>>),
                   unused |-> k.unused \ {f}],
            t |-> f, ok |-> TRUE]

(* Mapper::map_to: tables it allocated stay linked when it fails. *)
map_to(k, root, page, frame) ==
  LET a == child(k, root, page[1])
      b == child(a.k, a.t, page[2])
  IN  IF ~a.ok THEN [k |-> a.k, ok |-> FALSE]
      ELSE IF ~b.ok \/ page[3] \in DOMAIN b.k.tables[b.t] THEN [k |-> b.k, ok |-> FALSE]
      ELSE [k |-> [b.k EXCEPT !.tables[b.t] = @ @@ (page[3] :> frame)], ok |-> TRUE]

(* The leaf table of a page and its entry *)
leaf(ts, root, page) ==
  IF page[1] \notin DOMAIN ts[root] THEN {}
  ELSE IF page[2] \notin DOMAIN ts[ts[root][page[1]]] THEN {}
  ELSE {ts[ts[root][page[1]]][page[2]]}

translate(ts, root, page) ==
  {ts[t][page[3]] : t \in {t \in leaf(ts, root, page) : page[3] \in DOMAIN ts[t]}}

(* unmap_page removes the entry and keeps the tables. *)
unmap(k, root, page) ==
  IF translate(k.tables, root, page) = {} THEN k
  ELSE LET t == CHOOSE t \in leaf(k.tables, root, page) : TRUE
       IN  [k EXCEPT !.tables[t] = Restrict(@, DOMAIN @ \ {page[3]})]

(* Frames allocated one by one and mapped to consecutive pages, up to the  *)
(* first failure.  A frame that could not be mapped is not among the got.  *)
map_fresh(k, root, pages) ==
  LET mapped[i \in 0..Len(pages)] ==
        IF i = 0 THEN [k |-> k, got |-> <<>>, ok |-> TRUE]
        ELSE LET q == mapped[i - 1]
                 f == Min(q.k.unused)
                 m == map_to([q.k EXCEPT !.unused = @ \ {f}], root, pages[i], f)
             IN  IF ~q.ok \/ q.k.unused = {} THEN [q EXCEPT !.ok = FALSE]
                 ELSE IF m.ok THEN [k |-> m.k, got |-> Append(q.got, f), ok |-> TRUE]
                 ELSE [q EXCEPT !.k = [m.k EXCEPT !.unused = @ \cup {f}], !.ok = FALSE]
  IN  mapped[Len(pages)]
-----------------------------------------------------------------------------
(* Mutant of unmap_frames: frames go back to the allocator still mapped. *)
unmap_frames_late(k, root, i, frames) == [k EXCEPT !.unused = @ \cup Range(frames)]

(* Pages of stack i leave the tables of root, and then their frames go back. *)
unmap_frames(k, root, i, frames) ==
  LET unmapped[j \in 0..Len(frames)] ==
        IF j = 0 THEN k ELSE unmap(unmapped[j - 1], root, stack_page(i, j - 1))
  IN  [unmapped[Len(frames)] EXCEPT !.unused = @ \cup Range(frames)]

(* KernelStack::allocate in the tables of root; a failure undoes the pages  *)
(* mapped so far, and the index is spent all the same.                      *)
stack_allocate(k, root, i) ==
  LET q == map_fresh(k, root, [j \in 1..StackPages |-> stack_page(i, j - 1)])
  IN  IF q.ok THEN q ELSE [q EXCEPT !.k = unmap_frames(q.k, root, i, q.got), !.got = <<>>]

(* The new root has the kernel's half of the source root. *)
fork_for_userspace(k, source) ==
  LET f == Min(k.unused)
      upper == {i \in DOMAIN k.tables[source] : i >= KernelTop}
  IN  [tables |-> k.tables @@ (f :> Restrict(k.tables[source], upper)), unused |-> k.unused \ {f}]

(* Every table below the user entries of a root, and the root *)
user_tables(ts, root) ==
  LET mids == {ts[root][i] : i \in {i \in DOMAIN ts[root] : i < KernelTop}}
  IN  {root} \cup mids \cup UNION {Range(ts[m]) : m \in mids}

destroy_user_pml4(k, root) ==
  LET gone == user_tables(k.tables, root)
  IN  [tables |-> Restrict(k.tables, DOMAIN k.tables \ gone), unused |-> k.unused \cup gone]
-----------------------------------------------------------------------------
Becomes(k) == tables' = k.tables /\ unused' = k.unused

(* A boot step that fails halts the machine. *)
BootStep(to, k, ok) ==
  IF ok THEN step' = to /\ Becomes(k) ELSE step' = "halt" /\ UNCHANGED <<tables, unused>>

(* KernelPageTables::build, then activate.  The kernel image and the direct *)
(* map are one page here.                                                   *)
Build(framebuffer) ==
  /\ step = "build"
  /\ LET root == Min(unused)
         k == [tables |-> (root :> <<>>), unused |-> unused \ {root}]
         a == map_to(k, root, HhdmPage, Data)
         b == IF framebuffer THEN map_to(a.k, root, FramebufferPage, Data) ELSE a
     IN  BootStep("heap", b.k, a.ok /\ b.ok) /\ kroot' = root /\ active' = root
  /\ UNCHANGED <<heap, spaces, stacks, next_stack>>

MapHeap ==
  /\ step = "heap"
  /\ \E q \in {map_fresh(K, kroot, [j \in 1..HeapPages |-> HeapPage(j - 1)])} :
       BootStep("acpi", q.k, q.ok) /\ heap' = Range(q.got)
  /\ UNCHANGED <<kroot, active, spaces, stacks, next_stack>>

(* Each table of the firmware is read through the one window, which must   *)
(* be free again afterwards.                                               *)
ReadAcpi ==
  /\ step = "acpi"
  /\ \E m \in {map_to(K, kroot, AcpiTableWindow, Data)} :
       BootStep("apic", unmap(m.k, kroot, AcpiTableWindow), m.ok)
  /\ UNCHANGED <<heap, kroot, active, spaces, stacks, next_stack>>

(* map_local_apic_page, map_ioapic_page: neither RAM nor the framebuffer *)
device_page(f) == f \notin FrameSet \cup {Data}

MapController(window, from, to, f) ==
  /\ step = from
  /\ \E m \in {map_to(K, kroot, window, f)} : BootStep(to, m.k, device_page(f) /\ m.ok)
  /\ UNCHANGED <<heap, kroot, active, spaces, stacks, next_stack>>

(* spawn_init: the kernel stack comes before the address space, which      *)
(* inherits its tables; the idle thread's stack comes last.                *)
BootStack(from, to) ==
  /\ step = from
  /\ \E q \in {stack_allocate(K, kroot, next_stack)} :
       /\ BootStep(to, q.k, q.ok)
       /\ stacks' = IF q.ok THEN stacks @@ (next_stack :> q.got) ELSE stacks
  /\ next_stack' = next_stack + 1 /\ UNCHANGED <<heap, kroot, active, spaces>>

(* Mutant of InitStack: no stack before the address space of init. *)
InitStack_late ==
  /\ step = "stack" /\ step' = "fork"
  /\ UNCHANGED <<tables, unused, heap, kroot, active, spaces, stacks, next_stack>>

InitStack == BootStack("stack", "fork")

InitSpace ==
  /\ step = "fork"
  /\ IF unused = {} THEN BootStep("image", K, FALSE) /\ UNCHANGED spaces
     ELSE /\ BootStep("image", fork_for_userspace(K, kroot), TRUE)
          /\ spaces' = {Min(unused)}
  /\ UNCHANGED <<heap, kroot, active, stacks, next_stack>>

(* The segments, the user stack and the manifest of init: a page each *)
InitPage(from, to, page) ==
  /\ step = from
  /\ \E m \in {map_to(K, Min(spaces), page, Data)} : BootStep(to, m.k, m.ok)
  /\ UNCHANGED <<heap, kroot, active, spaces, stacks, next_stack>>

InitImage == InitPage("image", "user_stack", <<0, 0, 0>>)
InitUserStack == InitPage("user_stack", "manifest", <<0, 1, 0>>)
InitManifest == InitPage("manifest", "idle", <<0, 1, 1>>)

IdleStack == BootStack("idle", "enter")

EnterInit ==
  /\ step = "enter" /\ step' = "run" /\ UNCHANGED <<tables, unused>> /\ active' = Min(spaces)
  /\ UNCHANGED <<heap, kroot, spaces, stacks, next_stack>>
-----------------------------------------------------------------------------
(* A system call of the process whose root is active *)
Running == step = "run" /\ UNCHANGED <<step, heap, kroot>>

NewSpace ==
  /\ Running /\ unused # {} /\ Cardinality(spaces) < MaxSpaces
  /\ spaces' = spaces \cup {Min(unused)} /\ Becomes(fork_for_userspace(K, active))
  /\ UNCHANGED <<active, stacks, next_stack>>

NewStack ==
  /\ Running /\ next_stack < MaxStacks
  /\ \E q \in {stack_allocate(K, active, next_stack)} :
       /\ Becomes(q.k) /\ stacks' = IF q.ok THEN stacks @@ (next_stack :> q.got) ELSE stacks
  /\ next_stack' = next_stack + 1 /\ UNCHANGED <<active, spaces>>

(* FactoryCreate of an address space or of a thread *)
FactoryObject == NewSpace \/ NewStack

(* The stacks of init and of the idle thread, 0 and 1, are never reclaimed. *)
ReclaimStack(i) ==
  /\ Running /\ i > 1
  /\ \E k \in {unmap_frames(K, active, i, stacks[i])} : Becomes(k)
  /\ stacks' = Restrict(stacks, DOMAIN stacks \ {i}) /\ UNCHANGED <<active, spaces, next_stack>>

MapUser(s, page) ==
  /\ Running /\ \E m \in {map_to(K, s, page, Data)} : Becomes(m.k)
  /\ UNCHANGED <<active, spaces, stacks, next_stack>>

UnmapUser(s, page) ==
  /\ Running /\ \E k \in {unmap(K, s, page)} : Becomes(k)
  /\ UNCHANGED <<active, spaces, stacks, next_stack>>

(* The space of a process that was reaped, or whose creation failed *)
DestroySpace(s) ==
  /\ Running /\ s # active
  /\ \E k \in {destroy_user_pml4(K, s)} : Becomes(k)
  /\ spaces' = spaces \ {s} /\ UNCHANGED <<active, stacks, next_stack>>

(* switch_to another process; the idle thread has no root of its own. *)
Switch(s) ==
  /\ Running /\ active' = s /\ UNCHANGED <<tables, unused, spaces, stacks, next_stack>>

PInit ==
  /\ step = "build" /\ tables = <<>> /\ unused = FrameSet /\ heap = {}
  /\ kroot = Data /\ active = Data /\ spaces = {} /\ stacks = <<>> /\ next_stack = 0

Booting ==
  \/ \E framebuffer \in Framebuffer : Build(framebuffer)
  \/ MapHeap \/ ReadAcpi
  \/ \E f \in ApicPages : MapController(LocalApicWindow, "apic", "ioapic", f)
  \/ \E f \in ApicPages : MapController(IoApicWindow, "ioapic", "stack", f)
  \/ InitStack \/ InitSpace \/ InitImage \/ InitUserStack \/ InitManifest \/ IdleStack \/ EnterInit

PNext ==
  \/ Booting \/ FactoryObject
  \/ \E i \in DOMAIN stacks : ReclaimStack(i)
  \/ \E s \in spaces : DestroySpace(s) \/ Switch(s)
  \/ \E s \in spaces, page \in UserPages : MapUser(s, page) \/ UnmapUser(s, page)

PSpec == PInit /\ [][PNext]_pvars
-----------------------------------------------------------------------------
Up == step # "build" /\ step # "halt"
roots == {kroot} \cup spaces

(* Entries that refer to a table; the roots share the kernel's. *)
links == {e \in UNION {{<<t, i>> : i \in DOMAIN tables[t]} : t \in DOMAIN tables} :
            tables[e[1]][e[2]] \in DOMAIN tables /\ ~(e[1] \in spaces /\ e[2] >= KernelTop)}

(* Every frame has one use: it is free, the root or a table that exactly   *)
(* one entry refers to, or a page of the heap or of one kernel stack that  *)
(* is mapped where it belongs and nowhere else.  fork_for_userspace,       *)
(* destroy_user_pml4, the undo of KernelStack::allocate and reclaim share  *)
(* frames only through the allocator.                                      *)
FramesUsedOnce ==
  LET pages == heap \cup UNION {Range(stacks[i]) : i \in DOMAIN stacks}
  IN  Up => /\ unused \cap (DOMAIN tables \cup pages) = {}
            /\ FrameSet = unused \cup DOMAIN tables \cup pages
            /\ DOMAIN tables \cap pages = {}
            /\ \A t \in DOMAIN tables \ roots : Cardinality({e \in links : tables[e[1]][e[2]] = t}) = 1
            /\ \A e \in UNION {{<<t, i>> : i \in DOMAIN tables[t]} : t \in DOMAIN tables} :
                 tables[e[1]][e[2]] \notin unused

(* Every address space sees the same kernel: the entries of the kernel's   *)
(* half agree, each live kernel stack is mapped in all of them and its     *)
(* guard page in none, so that the kernel may run on any stack under any   *)
(* root ("after KernelStack is allocated so it inherits the stack          *)
(* mapping", init.rs).                                                     *)
KernelHalfShared ==
  Up => \A r \in spaces :
    /\ \A i \in KernelTop..3 : (i \in DOMAIN tables[r]) = (i \in DOMAIN tables[kroot])
    /\ \A i \in DOMAIN stacks :
         /\ \A j \in DOMAIN stacks[i] : translate(tables, r, stack_page(i, j - 1)) = {stacks[i][j]}
         /\ translate(tables, r, guard_page(i)) = {}
=============================================================================
