------------------------------ MODULE Processes ------------------------------
(***************************************************************************)
(* The process aggregate (syscall.rs: CreateProcess, ProcessControl,       *)
(* ExitProcess; kernel-core process.rs, resource.rs): a process is made of *)
(* a resource domain, an address space, a capability space, a main thread, *)
(* an exit notification, a factory and a manifest page, which are created, *)
(* published, rolled back and reaped together.                             *)
(*                                                                         *)
(* A handler runs with interrupts masked on the only CPU, so it is one     *)
(* action: a function from the kernel state K to the state it leaves.  A   *)
(* frame is counted, not named; an ObjectId and a handle are the number of *)
(* their creation.  Revocation and page placement are in MemoryObjects.    *)
(***************************************************************************)
EXTENDS Integers, FiniteSets, Sequences, Functions, FiniteSetsExt, SequencesExt, TLC

CONSTANTS
  RootLimits,        \* ResourceLimits of the domain of init
  ChildLimits,       \* the limits asked of CreateProcess
  ArenaCapacity, NodeCapacity, FrameCount,
  StackFrames,       \* frames of a kernel stack
  TableFrames,       \* page tables that the manifest page needs
  MaxEntries,        \* MAX_BOOTSTRAP_CAPABILITIES
  InstallRoles,      \* roles asked of InstallCapability
  None

ProcessAssumption ==
  /\ {ArenaCapacity, NodeCapacity, FrameCount, StackFrames, TableFrames} \subseteq Nat
  /\ None \notin Nat

VARIABLES
  arena,        \* OBJECT_ARENA: type and owner of the live objects
  created,      \* objects created so far
  domains,      \* RESOURCE_DOMAINS
  cspaces,      \* CAPABILITY_SPACES: domain and held handles
  issued,       \* handles issued so far
  processes,    \* PROCESSES
  aspaces,      \* ADDRESS_SPACES: frames of its page tables
  threads,      \* THREADS: lifecycle state
  notices,      \* NOTIFICATIONS: capability references, closed, signalled
  factories,    \* FACTORIES: the domain a factory charges
  memory,       \* MEMORY_OBJECTS
  mappings,     \* MAPPINGS
  ready,        \* the threads in the run queue
  free          \* free frames

vars == <<arena, created, domains, cspaces, issued, processes, aspaces, threads,
          notices, factories, memory, mappings, ready, free>>

K == [arena |-> arena, created |-> created, domains |-> domains, cspaces |-> cspaces,
      issued |-> issued, processes |-> processes, aspaces |-> aspaces, threads |-> threads,
      notices |-> notices, factories |-> factories, memory |-> memory,
      mappings |-> mappings, ready |-> ready, free |-> free]

Becomes(k) ==
  /\ arena' = k.arena /\ created' = k.created /\ domains' = k.domains
  /\ cspaces' = k.cspaces /\ issued' = k.issued /\ processes' = k.processes
  /\ aspaces' = k.aspaces /\ threads' = k.threads /\ notices' = k.notices
  /\ factories' = k.factories /\ memory' = k.memory /\ mappings' = k.mappings
  /\ ready' = k.ready /\ free' = k.free

without(f, x) == Restrict(f, DOMAIN f \ {x})
Resources == {"objects", "caps", "memory"}
-----------------------------------------------------------------------------
(* Resource domains *)
charge(k, d, r, n) == [k EXCEPT !.domains[d].usage[r] = @ + n]
has_room(k, d, r, n) == k.domains[d].usage[r] + n <= k.domains[d].limits[r]

(* A release that underflows, or for a domain that is gone, changes nothing. *)
release(k, d, r, n) ==
  IF d \notin DOMAIN k.domains \/ k.domains[d].usage[r] < n THEN k
  ELSE [k EXCEPT !.domains[d].usage[r] = @ - n]

(* ResourceDomain::new_child reserves the whole budget of the child. *)
reservable(k, d, limits) == \A r \in Resources : has_room(k, d, r, limits[r])

new_child(k, d, id, limits) ==
  [k EXCEPT !.domains =
     [@ EXCEPT ![d].usage = [r \in Resources |-> @[r] + limits[r]], ![d].children = @ + 1]
     @@ (id :> [parent |-> d, limits |-> limits, usage |-> [r \in Resources |-> 0],
                processes |-> 0, children |-> 0, active |-> TRUE])]

eligible(k, d) ==
  /\ k.domains[d].processes = 0 /\ k.domains[d].children = 0
  /\ \A r \in Resources : k.domains[d].usage[r] = 0

refundable(k, d) ==
  LET p == k.domains[d].parent
  IN  /\ k.domains[d].active /\ eligible(k, d)
      /\ \A r \in Resources : k.domains[p].usage[r] >= k.domains[d].limits[r]

(* Mutant of refund_to_parent: one page too many is refunded. *)
refund_to_parent_more(k, d) ==
  LET p == k.domains[d].parent
      limits == [k.domains[d].limits EXCEPT !["memory"] = @ + 1]
  IN  [k EXCEPT !.domains[p].usage = [r \in Resources |-> @[r] - limits[r]],
                !.domains[p].children = @ - 1, !.domains[d].active = FALSE]

refund_to_parent(k, d) ==
  LET p == k.domains[d].parent
  IN  [k EXCEPT !.domains[p].usage = [r \in Resources |-> @[r] - k.domains[d].limits[r]],
                !.domains[p].children = @ - 1, !.domains[d].active = FALSE]
-----------------------------------------------------------------------------
(* Object arena *)
creatable(k, d) ==
  Cardinality(DOMAIN k.arena) < ArenaCapacity /\ has_room(k, d, "objects", 1)

create(k, d, type) ==
  [charge(k, d, "objects", 1) EXCEPT
     !.created = @ + 1, !.arena = @ @@ (k.created + 1 :> [type |-> type, owner |-> d])]

destroyable(k, d, id) ==
  /\ d \in DOMAIN k.domains /\ id \in DOMAIN k.arena
  /\ k.arena[id].owner = d /\ k.domains[d].usage["objects"] > 0

destroy(k, d, id) ==
  IF destroyable(k, d, id) THEN [release(k, d, "objects", 1) EXCEPT !.arena = without(@, id)]
  ELSE k

destroy_all(k, d, ids) == FoldLeft(LAMBDA q, id : destroy(q, d, id), k, ids)
-----------------------------------------------------------------------------
(* Capability spaces *)
HeldIn(k) == UNION {DOMAIN k.cspaces[c].held : c \in DOMAIN k.cspaces}

(* insert_root into space c, paid by domain d *)
insertable(k, c, d) ==
  /\ k.cspaces[c].domain = d /\ has_room(k, d, "caps", 1)
  /\ Cardinality(HeldIn(k)) < NodeCapacity

insert(k, c, id) ==
  [charge(k, k.cspaces[c].domain, "caps", 1) EXCEPT
     !.issued = @ + 1, !.cspaces[c].held = @ @@ (k.issued + 1 :> id)]

(* CapabilitySystem::delete *)
delete(k, c, h) ==
  [release(k, k.cspaces[c].domain, "caps", 1) EXCEPT !.cspaces[c].held = without(@, h)]

(* lookup: the object a handle names, where it is live and of that type *)
names(k, c, h, type) ==
  LET id == k.cspaces[c].held[h]
  IN  id \in DOMAIN k.arena /\ k.arena[id].type = type

(* reclaim_memory_object_if_zero_refs and its twin for contiguous frames:  *)
(* the object charge is released here and again by destroy.                *)
reclaim(k, id) ==
  IF k.memory[id].caps > 0 \/ k.memory[id].maps > 0 THEN k
  ELSE LET m == k.memory[id]
           k1 == release([k EXCEPT !.memory = without(@, id), !.free = @ + m.pages],
                         m.domain, "memory", m.pages)
       IN  destroy(release(k1, m.domain, "objects", 1), m.domain, id)

(* The last handle of a mapping: it leaves the registry and drops its      *)
(* reference, whether or not its address space still exists.               *)
drop_mapping(k, id) ==
  LET m == k.mappings[id]
      k1 == destroy([k EXCEPT !.mappings = without(@, id)], k.arena[id].owner, id)
  IN  IF m.source \in DOMAIN k.memory
      THEN reclaim([k1 EXCEPT !.memory[m.source].maps = @ - 1], m.source)
      ELSE k1

drop_notice(k, id) ==
  IF k.notices[id].caps > 1 THEN [k EXCEPT !.notices[id].caps = @ - 1]
  ELSE [k EXCEPT !.notices[id].caps = 0, !.notices[id].closed = TRUE]

delete_handle_internal(k, c, h) ==
  LET id == k.cspaces[c].held[h]
      k1 == delete(k, c, h)
  IN  IF id \in DOMAIN k.memory /\ id \in DOMAIN k.arena
      THEN reclaim([k1 EXCEPT !.memory[id].caps = @ - 1], id)
      ELSE IF names(k, c, h, "Mapping") /\ id \in DOMAIN k.mappings
      THEN IF k.mappings[id].caps > 1 THEN [k1 EXCEPT !.mappings[id].caps = @ - 1]
           ELSE drop_mapping(k1, id)
      ELSE IF names(k, c, h, "Notification") /\ id \in DOMAIN k.notices THEN drop_notice(k1, id)
      ELSE k1
-----------------------------------------------------------------------------
(* CreateProcess.  The child's domain pays for what its process is made    *)
(* of, created in this order; the factory comes with the bootstrap handles. *)
Components == <<"Process", "AddressSpace", "CapabilitySpace", "Thread", "Notification">>

(* As many components as can be created: the address space needs the frame *)
(* of its root table too, the capability space its slots on the heap.      *)
create_components(k, d, heap) ==
  LET made[i \in 0..Len(Components)] ==
        IF i = 0 THEN [k |-> k, ids |-> <<>>, tables |-> 0, go |-> TRUE]
        ELSE LET q == made[i - 1]
                 root == IF i = 2 /\ q.k.free > 0 THEN 1 ELSE 0
             IN  IF ~q.go \/ ~creatable(q.k, d) THEN [q EXCEPT !.go = FALSE]
                 ELSE [k |-> [create(q.k, d, Components[i]) EXCEPT !.free = @ - root],
                       ids |-> Append(q.ids, q.k.created + 1), tables |-> q.tables + root,
                       go |-> (i = 2 => root = 1) /\ (i = 3 => heap)]
  IN  made[Len(Components)]

(* refund_child_domain; then the domain object is destroyed in the domain  *)
(* of the parent.  The child's domain was never published.                 *)
drop_domain(k, d) ==
  LET p == k.domains[d].parent
      k1 == IF refundable(k, d) THEN refund_to_parent(k, d) ELSE k
  IN  [destroy(k1, p, d) EXCEPT !.domains = without(@, d)]

(* The early returns while components are missing.  Once the address space *)
(* has a root table, its frame is freed but its object is not destroyed.   *)
abandon_components(q, d) ==
  LET kept == IF q.tables = 0 THEN {} ELSE {q.ids[2]}
  IN  drop_domain(destroy_all([q.k EXCEPT !.free = @ + q.tables], d,
                              SelectSeq(q.ids, LAMBDA id : id \notin kept)), d)

(* Mutant of rollback_process_components: the page tables are not freed. *)
rollback_process_components_tables(k, d, ids, tables) ==
  drop_domain(destroy_all([k EXCEPT !.cspaces = without(@, ids[3])], d, Reverse(ids)), d)

rollback_process_components(k, d, ids, tables) ==
  drop_domain(destroy_all([k EXCEPT !.free = @ + tables, !.cspaces = without(@, ids[3])],
                          d, Reverse(ids)), d)

rollback_process_with_stack(k, d, ids, tables) ==
  rollback_process_components([k EXCEPT !.free = @ + StackFrames], d, ids, tables)

delete_bootstrap_handles(k, c) ==
  FoldSet(LAMBDA h, q : delete(q, c, h), k, DOMAIN k.cspaces[c].held)

(* What the five bootstrap handles name, and their roles *)
bootstrap_objects(ids, factory) == <<ids[2], ids[3], ids[4], factory, ids[5]>>
BootstrapRoles == <<0, 10, 1, 2, 4>>

(* provision_child_bootstrap: the factory, five root handles, the charge   *)
(* and frame of the manifest page, and its mapping, which may run out of   *)
(* frames for page tables.                                                 *)
provision_child_bootstrap(k, d, ids, tables) ==
  LET c == ids[3]
      factory == k.created + 1
      k1 == create(k, d, "Factory")
      inserted[i \in 0..5] ==
        IF i = 0 THEN [k |-> k1, n |-> 0]
        ELSE LET q == inserted[i - 1]
             IN  IF q.n < i - 1 \/ ~insertable(q.k, c, d) THEN q
                 ELSE [k |-> insert(q.k, c, bootstrap_objects(ids, factory)[i]), n |-> i]
      q == inserted[5]
      undo(x) == destroy(delete_bootstrap_handles(x, c), d, factory)
      k2 == [charge(q.k, d, "memory", 1) EXCEPT !.free = @ - 1]
  IN  IF ~creatable(k, d) THEN [k |-> k, tables |-> tables, ok |-> FALSE]
      ELSE IF q.n < 5 \/ ~has_room(q.k, d, "memory", 1) \/ q.k.free = 0
      THEN [k |-> undo(q.k), tables |-> tables, ok |-> FALSE]
      ELSE IF k2.free < TableFrames
      THEN [k |-> undo(release([k2 EXCEPT !.free = 1], d, "memory", 1)),
            tables |-> tables + k2.free, ok |-> FALSE]
      ELSE [k |-> [k2 EXCEPT !.free = @ - TableFrames], tables |-> tables + TableFrames, ok |-> TRUE]

rollback_process_bootstrap(k, d, ids, tables, factory) ==
  LET k1 == destroy(delete_bootstrap_handles(k, ids[3]), d, factory)
  IN  rollback_process_with_stack(release([k1 EXCEPT !.free = @ + 1], d, "memory", 1), d, ids, tables)

(* Every registry, once the Process handle is in the creator's space *)
publish_process(k, d, ids, tables, factory, supervisor) ==
  LET c == ids[3]
      first == k.issued - 5     \* the five bootstrap handles, then the Process handle
  IN  [k EXCEPT
        !.aspaces = @ @@ (ids[2] :> tables), !.threads = @ @@ (ids[4] :> "New"),
        !.notices = @ @@ (ids[5] :> [caps |-> 1, closed |-> FALSE, signalled |-> FALSE]),
        !.factories = @ @@ (factory :> d),
        !.domains[d].processes = @ + 1,
        !.processes = @ @@ (ids[1] :>
          [state |-> "Prepared", domain |-> d, aspace |-> ids[2], cspace |-> c,
           thread |-> ids[4], notice |-> ids[5], factory |-> factory,
           supervisor |-> supervisor, configured |-> FALSE, length |-> 0, entered |-> FALSE,
           installed |-> <<>>,
           manifest |-> [i \in 1..5 |-> [role |-> BootstrapRoles[i], handle |-> first + i - 1]]])]

(* create_process_syscall through a factory of domain p, by the process    *)
(* supervisor, whose capability space is c                                 *)
create_process(k, c, p, supervisor, limits, heap) ==
  LET d == k.created + 1
      k1 == create(k, p, "ResourceDomain")
      q == create_components(new_child(k1, p, d, limits), d, heap)
      k2 == [q.k EXCEPT !.free = @ - StackFrames,
                        !.cspaces = @ @@ (q.ids[3] :> [domain |-> d, held |-> <<>>])]
      b == provision_child_bootstrap(k2, d, q.ids, q.tables)
      factory == k2.created + 1
  IN  IF ~creatable(k, p) THEN k
      ELSE IF ~reservable(k1, p, limits) THEN destroy(k1, p, d)
      ELSE IF ~q.go THEN abandon_components(q, d)
      ELSE IF q.k.free < StackFrames THEN rollback_process_components(q.k, d, q.ids, q.tables)
      ELSE IF ~b.ok THEN rollback_process_with_stack(b.k, d, q.ids, b.tables)
      ELSE IF ~insertable(b.k, c, p)
      THEN rollback_process_bootstrap(b.k, d, q.ids, b.tables, factory)
      ELSE publish_process(insert(b.k, c, q.ids[1]), d, q.ids, b.tables, factory, supervisor)
-----------------------------------------------------------------------------
(* InstallCapability.  Boot modules, device memory and service endpoints   *)
(* take the first free slot of the table of roles, others their own.       *)
repeatable(role) == role \in {5, 8, 9}

role_slot(installed, role) ==
  LET unused == (0..(MaxEntries - 1)) \ DOMAIN installed
  IN  IF repeatable(role) THEN unused ELSE unused \cap {role}

(* Mutant of inc_installed_ref: the installed handle is not counted. *)
inc_installed_ref_none(k, id) == k

(* The reference of a handle just derived.  InstallCapability counts none  *)
(* for a contiguous frame; Derive does.                                    *)
inc_installed_ref(k, id) ==
  IF id \in DOMAIN k.memory
  THEN IF k.memory[id].kind = "ContiguousFrame" THEN k
       ELSE [k EXCEPT !.memory[id].caps = @ + 1]
  ELSE IF id \in DOMAIN k.mappings THEN [k EXCEPT !.mappings[id].caps = @ + 1]
  ELSE IF id \in DOMAIN k.notices THEN [k EXCEPT !.notices[id].caps = @ + 1]
  ELSE k

inc_capability_ref(k, id) ==
  IF id \in DOMAIN k.memory THEN [k EXCEPT !.memory[id].caps = @ + 1]
  ELSE IF id \in DOMAIN k.mappings THEN [k EXCEPT !.mappings[id].caps = @ + 1]
  ELSE IF id \in DOMAIN k.notices THEN [k EXCEPT !.notices[id].caps = @ + 1]
  ELSE k

append_refused(manifest, role) ==
  \/ Len(manifest) >= MaxEntries
  \/ ~repeatable(role) /\ \E i \in DOMAIN manifest : manifest[i].role = role

(* Mutant of undo_install: the manifest lists the handle all the same. *)
undo_install_listed(k, c, h) ==
  LET p == CHOOSE p \in DOMAIN k.processes : k.processes[p].cspace = c
  IN  [delete_handle_internal(k, c, h) EXCEPT
         !.processes[p].manifest = Append(@, [role |-> 8, handle |-> h])]

(* Every refusal after the derivation deletes the handle again. *)
undo_install(k, c, h) == delete_handle_internal(k, c, h)

install_process_capability(k, p, id, role) ==
  LET c == k.processes[p].cspace
      d == k.processes[p].domain
      h == k.issued + 1
      slots == role_slot(k.processes[p].installed, role)
      k1 == inc_installed_ref(insert(k, c, id), id)
      k2 == [k1 EXCEPT !.processes[p].installed = @ @@ (Min(slots) :> role)]
  IN  IF ~insertable(k, c, d) THEN k
      ELSE IF slots = {} THEN undo_install(k1, c, h)
      ELSE IF append_refused(k.processes[p].manifest, role) THEN undo_install(k2, c, h)
      ELSE [k2 EXCEPT !.processes[p].manifest = Append(@, [role |-> role, handle |-> h])]

(* ConfigureMainThread: the length of the manifest goes into the initial   *)
(* registers of the thread.                                                *)
configurable(k, p) ==
  LET q == k.processes[p]
  IN  q.aspace \in DOMAIN k.aspaces /\ q.thread \in DOMAIN k.threads /\ k.threads[q.thread] = "New"

configure_main_thread(k, p) ==
  LET k1 == [k EXCEPT !.processes[p].length = Len(k.processes[p].manifest)]
  IN  IF k.processes[p].state = "Prepared" THEN [k1 EXCEPT !.processes[p].configured = TRUE] ELSE k1

(* Start enqueues the main thread, then makes the process Runnable; where  *)
(* the thread was not configured it returns with the thread enqueued.      *)
start(k, p) ==
  LET t == k.processes[p].thread
      k1 == [k EXCEPT !.threads[t] = "Ready", !.ready = @ \cup {t}]
  IN  IF k.threads[t] # "New" THEN k
      ELSE IF ~k.processes[p].configured THEN k1
      ELSE [k1 EXCEPT !.processes[p].state = "Runnable"]

Exitable(k, p) == k.processes[p].state \notin {"ExitRequested", "Exiting", "Zombie", "Reaped"}

signal(k, n) ==
  IF n \in DOMAIN k.notices /\ ~k.notices[n].closed
  THEN [k EXCEPT !.notices[n].signalled = TRUE] ELSE k

(* request_exit, mark_exiting and mark_zombie in one call; the thread is   *)
(* dying and leaves the scheduler, and the exit notification is signalled. *)
become_zombie(k, p) ==
  LET t == k.processes[p].thread
  IN  signal([k EXCEPT !.processes[p].state = "Zombie", !.threads[t] = "Dying",
                       !.ready = @ \ {t}], k.processes[p].notice)

(* The components leave their registries and give their frames back. *)
unpublish_process(k, p) ==
  LET q == k.processes[p]
  IN  [k EXCEPT !.free = @ + 1 + k.aspaces[q.aspace] + StackFrames,
                !.aspaces = without(@, q.aspace), !.threads = without(@, q.thread),
                !.cspaces = without(@, q.cspace), !.notices = without(@, q.notice),
                !.factories = without(@, q.factory), !.processes = without(@, p),
                !.domains[q.domain].processes = @ - 1]

(* The domain goes with its process unless something delegated, or a child *)
(* domain, is still charged to it.                                         *)
close_domain(k, d) ==
  LET p == k.domains[d].parent
      k1 == destroy(k, p, d)
  IN  IF ~eligible(k, d) \/ p \notin DOMAIN k.domains \/ ~destroyable(k, p, d) THEN k
      ELSE IF ~refundable(k1, d) THEN k1
      ELSE [refund_to_parent(k1, d) EXCEPT !.domains = without(@, d)]

(* snapshot_handles, taken to be in the order they were issued *)
ascending(S) ==
  LET taken[i \in 0..Cardinality(S)] ==
        IF i = 0 THEN <<>> ELSE LET t == taken[i - 1] IN Append(t, Min(S \ Range(t)))
  IN  taken[Cardinality(S)]

(* reap_process_syscall by the holder of handle h in space c *)
reap(k, p, c, h) ==
  LET q == k.processes[p]
      k1 == FoldLeft(LAMBDA y, x : delete_handle_internal(y, q.cspace, x), k,
                     ascending(DOMAIN k.cspaces[q.cspace].held))
      k2 == unpublish_process(delete_handle_internal(k1, c, h), p)
      k3 == destroy_all(k2, q.domain,
                        <<p, q.aspace, q.cspace, q.thread, q.notice, q.factory>>)
  IN  close_domain(release(k3, q.domain, "memory", 1), q.domain)
-----------------------------------------------------------------------------
(* FactoryCreate of n pages through a factory of d.  (Bound: a contiguous  *)
(* frame of one page, so that any free frame will do.)                     *)
factory_memory(k, c, d, kind, n) ==
  LET k1 == [charge(k, d, "memory", n) EXCEPT !.free = @ - n]
      id == k.created + 1
      k2 == create(k1, d, kind)
      rollback(x) == release([x EXCEPT !.free = @ + n], d, "memory", n)
  IN  IF ~has_room(k, d, "memory", n) \/ k.free < n THEN k
      ELSE IF ~creatable(k1, d) THEN rollback(k1)
      ELSE IF ~insertable(k2, c, d) THEN rollback(destroy(k2, d, id))
      ELSE [insert(k2, c, id) EXCEPT
              !.memory = @ @@ (id :> [kind |-> kind, domain |-> d, pages |-> n, caps |-> 1, maps |-> 0])]

(* MapMemory of object src into address space a, by a holder of both; page *)
(* placement is in MemoryObjects.                                          *)
map_memory(k, c, src, a) ==
  LET d == k.cspaces[c].domain
      id == k.created + 1
      k1 == [create(k, d, "Mapping") EXCEPT
               !.memory[src].maps = @ + 1,
               !.mappings = @ @@ (id :> [aspace |-> a, source |-> src, caps |-> 1])]
  IN  IF ~creatable(k, d) \/ a \notin DOMAIN k.aspaces THEN k
      ELSE IF ~insertable(k1, c, d) THEN drop_mapping(k1, id)
      ELSE insert(k1, c, id)
-----------------------------------------------------------------------------
(* A process whose main thread runs user code *)
Acting(p) == p \in DOMAIN processes /\ processes[p].state \in {"Runnable", "Running"} /\ processes[p].entered

space(p) == processes[p].cspace
Held(p) == DOMAIN cspaces[space(p)].held
target(p, h) == cspaces[space(p)].held[h]
Names(p, h, type) == names(K, space(p), h, type)

CreateProcess(p, h, limits, heap) ==
  /\ Names(p, h, "Factory") /\ target(p, h) \in DOMAIN factories
  /\ factories[target(p, h)] \in DOMAIN domains
  /\ \E k \in {create_process(K, space(p), factories[target(p, h)], p, limits, heap)} : Becomes(k)

(* ProcessControl on a process that is registered *)
Controls(p, h) == Names(p, h, "Process") /\ target(p, h) \in DOMAIN processes

ConfigureMainThread(p, h) ==
  /\ Controls(p, h) /\ configurable(K, target(p, h))
  /\ \E k \in {configure_main_thread(K, target(p, h))} : Becomes(k)

Start(p, h) ==
  /\ Controls(p, h) /\ processes[target(p, h)].state = "Prepared"
  /\ processes[target(p, h)].thread \in DOMAIN threads
  /\ \E k \in {start(K, target(p, h))} : Becomes(k)

Terminate(p, h) ==
  /\ Controls(p, h) /\ Exitable(K, target(p, h))
  /\ \E k \in {become_zombie(K, target(p, h))} : Becomes(k)

(* InstallCapability of what handle s names, into another space *)
InstallCapability(p, h, s, role) ==
  /\ Controls(p, h) /\ space(target(p, h)) # space(p)
  /\ target(p, s) \in DOMAIN arena
  /\ processes[target(p, h)].domain \in DOMAIN domains
  /\ \E k \in {install_process_capability(K, target(p, h), target(p, s), role)} : Becomes(k)

(* AcquireAddressSpace, AcquireMainThread, AcquireCapabilitySpace,         *)
(* AcquireResourceDomain: a root handle in the caller's space              *)
Acquire(p, h, part) ==
  /\ Controls(p, h)
  /\ processes[target(p, h)][part] \in DOMAIN arena
  /\ insertable(K, space(p), cspaces[space(p)].domain)
  /\ \E k \in {insert(K, space(p), processes[target(p, h)][part])} : Becomes(k)

Reap(p, h) ==
  /\ Controls(p, h) /\ processes[target(p, h)].state = "Zombie"
  /\ \E k \in {reap(K, target(p, h), space(p), h)} : Becomes(k)

FactoryCreate(p, h, kind, n) ==
  /\ Names(p, h, "Factory") /\ target(p, h) \in DOMAIN factories
  /\ factories[target(p, h)] \in DOMAIN domains
  /\ \E k \in {factory_memory(K, space(p), factories[target(p, h)], kind, n)} : Becomes(k)

MapMemory(p, h, a) ==
  /\ target(p, h) \in DOMAIN arena /\ target(p, h) \in DOMAIN memory
  /\ Names(p, a, "AddressSpace")
  /\ \E k \in {map_memory(K, space(p), target(p, h), target(p, a))} : Becomes(k)

(* Derive into the capability space that handle s names *)
Derive(p, h, s) ==
  /\ target(p, h) \in DOMAIN arena
  /\ Names(p, s, "CapabilitySpace") /\ target(p, s) \in DOMAIN cspaces
  /\ LET c == target(p, s)
     IN  /\ cspaces[c].domain \in DOMAIN domains /\ insertable(K, c, cspaces[c].domain)
         /\ \E k \in {inc_capability_ref(insert(K, c, target(p, h)), target(p, h))} : Becomes(k)

DeleteHandle(p, h) == \E k \in {delete_handle_internal(K, space(p), h)} : Becomes(k)

(* ExitProcess *)
Exit(p) == \E k \in {become_zombie(K, p)} : Becomes(k)

(* The first user instructions of a started process (libgaxera entry.rs):  *)
(* a manifest longer than the length in its registers is refused, and the  *)
(* process exits.                                                          *)
Enter(p) ==
  /\ processes[p].state = "Runnable" /\ ~processes[p].entered
  /\ IF Len(processes[p].manifest) > processes[p].length
     THEN Exit(p)
     ELSE Becomes([K EXCEPT !.processes[p].entered = TRUE])
-----------------------------------------------------------------------------
(* init, made at boot by load_and_spawn_init.  Its idle thread and image   *)
(* factory take part in nothing here.                                      *)
RootDomain == 0
RootProcess == 5

Init ==
  /\ arena = [i \in 1..5 |->
       [type |-> <<"AddressSpace", "CapabilitySpace", "Thread", "Factory", "Process">>[i],
        owner |-> RootDomain]]
  /\ created = 5 /\ issued = 4
  /\ domains = RootDomain :> [parent |-> None, limits |-> RootLimits, processes |-> 0,
                              usage |-> [objects |-> 5, caps |-> 4, memory |-> 0],
                              children |-> 0, active |-> FALSE]
  /\ cspaces = 2 :> [domain |-> RootDomain, held |-> [h \in 1..4 |-> h]]
  /\ aspaces = 1 :> 1 /\ threads = 3 :> "Running" /\ factories = 4 :> RootDomain
  /\ processes = RootProcess :>
       [state |-> "Running", domain |-> RootDomain, aspace |-> 1, cspace |-> 2, thread |-> 3,
        notice |-> None, factory |-> 4, supervisor |-> None, configured |-> TRUE,
        length |-> 4, entered |-> TRUE, installed |-> <<>>,
        manifest |-> [i \in 1..4 |-> [role |-> BootstrapRoles[i], handle |-> i]]]
  /\ notices = <<>> /\ memory = <<>> /\ mappings = <<>> /\ ready = {3}
  /\ free = FrameCount - 2 - StackFrames

(* What the holder of a Process handle may do *)
Control(p, h) ==
  \/ ConfigureMainThread(p, h)
  \/ Start(p, h)
  \/ Terminate(p, h)
  \/ Reap(p, h)
  \/ \E part \in {"aspace", "thread", "cspace", "domain"} : Acquire(p, h, part)
  \/ \E s \in Held(p), role \in InstallRoles : InstallCapability(p, h, s, role)

Next ==
  \E p \in DOMAIN processes :
    \/ Enter(p)
    \/ /\ Acting(p)
       /\ \/ p # RootProcess /\ Exit(p)
          \/ \E h \in Held(p) :
               \/ \E limits \in ChildLimits, heap \in BOOLEAN : CreateProcess(p, h, limits, heap)
               \/ Control(p, h)
               \/ \E kind \in {"MemoryObject", "ContiguousFrame"} : FactoryCreate(p, h, kind, 1)
               \/ \E s \in Held(p) : MapMemory(p, h, s) \/ Derive(p, h, s)
               \/ DeleteHandle(p, h)

Spec == Init /\ [][Next]_vars
-----------------------------------------------------------------------------
SumOver(S, F(_)) == FoldSet(LAMBDA x, n : n + F(x), 0, S)

(* No path through CreateProcess, its three rollbacks, Reap or memory      *)
(* reclamation loses a frame or frees one twice: free frames, page tables, *)
(* kernel stacks, manifest pages and memory objects add up to all of them. *)
FramesAccounted ==
  FrameCount = free + SumOver(DOMAIN aspaces, LAMBDA a : aspaces[a])
    + StackFrames * Cardinality(DOMAIN threads) + Cardinality(DOMAIN processes)
    + SumOver(DOMAIN memory, LAMBDA m : memory[m].pages)

children_of(d) == {e \in DOMAIN domains : domains[e].parent = d /\ domains[e].active}

(* A domain charges no more than its limits, and its charges for           *)
(* capabilities and memory cover what it holds of them and what it has     *)
(* reserved for its children: the handles in its spaces, the pages of its  *)
(* objects and manifests, and the whole budgets of its child domains,      *)
(* whatever failed on the way.  For objects see ObjectsLimited.            *)
QuotaCovered ==
  \A d \in DOMAIN domains :
    LET held == SumOver({c \in DOMAIN cspaces : cspaces[c].domain = d},
                        LAMBDA c : Cardinality(DOMAIN cspaces[c].held))
        pages == SumOver({m \in DOMAIN memory : memory[m].domain = d}, LAMBDA m : memory[m].pages)
                 + Cardinality({p \in DOMAIN processes \ {RootProcess} : processes[p].domain = d})
    IN  /\ \A r \in Resources : domains[d].usage[r] <= domains[d].limits[r]
        /\ domains[d].usage.caps >= held + SumOver(children_of(d), LAMBDA e : domains[e].limits.caps)
        /\ domains[d].usage.memory >= pages + SumOver(children_of(d), LAMBDA e : domains[e].limits.memory)

(* process_model.md: a domain "tracks limits for objects, capabilities, and *)
(* physical memory", and a child's quota "is reserved from its parent".    *)
(* The objects a domain pays for, with the whole budgets of its child      *)
(* domains, stay within its limit.                                         *)
ObjectsLimited ==
  \A d \in DOMAIN domains :
    Cardinality({id \in DOMAIN arena : arena[id].owner = d})
      + SumOver(children_of(d), LAMBDA e : domains[e].limits.objects) <= domains[d].limits.objects

(* The spaces with a handle to object id *)
holders(id) == {c \in DOMAIN cspaces : id \in Range(cspaces[c].held)}

(* Delegated memory survives its creator: no call, be it DeleteHandle or   *)
(* Reap of the creator, takes a memory object away that some process still *)
(* holds or maps, or the domain that pays for it, or a domain above one.   *)
(* (Contiguous frames are left out: InstallCapability counts no reference  *)
(* for them, so the holder of an installed handle can lose the frames.)    *)
DelegatedMemorySurvives ==
  [][/\ \A id \in DOMAIN memory :
          /\ memory[id].kind = "MemoryObject"
          /\ holders(id)' # {} \/ \E m \in DOMAIN mappings' : mappings'[m].source = id
          => id \in DOMAIN memory' /\ memory'[id].domain \in DOMAIN domains'
     /\ \A d \in DOMAIN domains' \ {RootDomain} : domains'[d].parent \in DOMAIN domains']_vars

(* Until a process starts, its manifest lists handles of its capability    *)
(* space, each once, also after installations that were refused.           *)
ManifestBacked ==
  \A p \in DOMAIN processes : processes[p].state = "Prepared" =>
    LET listed == {processes[p].manifest[i].handle : i \in DOMAIN processes[p].manifest}
    IN  /\ listed \subseteq DOMAIN cspaces[processes[p].cspace].held
        /\ Cardinality(listed) = Len(processes[p].manifest)
=============================================================================
