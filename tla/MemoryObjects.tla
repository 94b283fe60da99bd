---------------------------- MODULE MemoryObjects ----------------------------
(***************************************************************************)
(* Memory objects, contiguous frames and the Mapping objects that bridge   *)
(* them into address spaces: FactoryCreate for memory, MapMemory,          *)
(* UnmapMemory, Derive, DeleteHandle and Revoke (syscall.rs, teardown.rs)  *)
(* over the object arena, the resource domains, the page tables and the    *)
(* frame allocator.                                                        *)
(*                                                                         *)
(* A system call runs with interrupts masked on the only CPU, so a handler *)
(* is one action.  A handler of several fallible steps is a function from  *)
(* the kernel state K to the state it leaves, its rollbacks included.      *)
(* Handles to address spaces and factories are fixed (MapsInto); addresses *)
(* and sizes are counted in pages.  An ObjectId, index and generation, is  *)
(* the number of its creation.                                             *)
(***************************************************************************)
EXTENDS Capability, FiniteSetsExt, TLC

CONSTANTS
  AddressSpaces, MapsInto,    \* MapsInto: the <<space, address space>> held with MAP
  LastPage, PagesPerTable,    \* USER_ADDRESS_MAX and the reach of a page table
  FrameCount,                 \* frames of the segmented allocator
  ObjectLimit, MemoryLimit,   \* ResourceLimits of every domain
  ArenaCapacity,
  Sizes, RunSizes,            \* page counts asked of a factory
  Requests, PageRights,       \* sets of rights asked of Derive and of MapMemory
  Offsets,                    \* first pages asked of MapMemory
  ImageFactories,             \* spaces whose factory handle has IMAGE_FACTORY
  MAP, READ, WRITE, EXECUTE

ASSUME MemoryAssumption ==
  /\ {MAP, READ, WRITE, EXECUTE} \subseteq Rights
  /\ LastPage \in Nat \ {0} /\ PagesPerTable \in Nat \ {0} /\ FrameCount \in Nat
  /\ Sizes \subseteq Nat \ {0}

VARIABLES
  arena,        \* OBJECT_ARENA: type and owner of the live objects
  created,      \* objects created so far
  usage,        \* RESOURCE_DOMAINS: objects and memory in use
  memory,       \* MEMORY_OBJECTS
  contiguous,   \* CONTIGUOUS_FRAMES
  mappings,     \* MAPPINGS
  aspaces,      \* ADDRESS_SPACES: page-table frames and user pages
  free          \* the frames free in the allocator's bitmap

mvars == <<sys, spaces, charged, objects, arena, created, usage,
           memory, contiguous, mappings, aspaces, free>>

K == [sys |-> sys, spaces |-> spaces, charged |-> charged, arena |-> arena,
      created |-> created, usage |-> usage, memory |-> memory,
      contiguous |-> contiguous, mappings |-> mappings, aspaces |-> aspaces, free |-> free]

Becomes(k) ==
  /\ sys' = k.sys /\ spaces' = k.spaces /\ charged' = k.charged
  /\ arena' = k.arena /\ objects' = DOMAIN k.arena /\ created' = k.created
  /\ usage' = k.usage /\ memory' = k.memory /\ contiguous' = k.contiguous
  /\ mappings' = k.mappings /\ aspaces' = k.aspaces /\ free' = k.free

without(f, x) == Restrict(f, DOMAIN f \ {x})
-----------------------------------------------------------------------------
(* ObjectArena::create_internal succeeds in domain d. *)
creatable(k, d) ==
  Cardinality(DOMAIN k.arena) < ArenaCapacity /\ k.usage[d].objects < ObjectLimit

create(k, d, type) ==
  [k EXCEPT !.created = @ + 1, !.usage[d].objects = @ + 1,
            !.arena = (k.created + 1 :> [type |-> type, owner |-> d]) @@ @]

release_object(k, d) ==
  IF k.usage[d].objects = 0 THEN k ELSE [k EXCEPT !.usage[d].objects = @ - 1]

(* ObjectArena::destroy: the charge is released first, and where that      *)
(* underflows the slot stays live.                                         *)
destroy(k, d, id) ==
  IF id \in DOMAIN k.arena /\ k.arena[id].owner = d /\ k.usage[d].objects > 0
  THEN [release_object(k, d) EXCEPT !.arena = without(@, id)]
  ELSE k

charge_memory(k, d, n) == [k EXCEPT !.usage[d].memory = @ + n]

release_memory(k, d, n) ==
  IF k.usage[d].memory < n THEN k ELSE [k EXCEPT !.usage[d].memory = @ - n]

(* The frames of the segmented allocator; others it ignores. *)
Allocatable == 0..(FrameCount - 1)

(* SegmentedBitmapFrameAllocator: the n lowest free frames, or all of them *)
lowest(frames, n) ==
  LET taken[i \in 0..n] ==
        IF i = 0 THEN <<>>
        ELSE LET t == taken[i - 1]
                 rest == frames \ Range(t)
             IN  IF rest = {} THEN t ELSE Append(t, Min(rest))
  IN  taken[n]

(* allocate_contiguous: the aligned runs of n free frames *)
runs(frames, n) ==
  {b \in frames : b % n = 0 /\ b..(b + n - 1) \subseteq frames}

is_power_of_two(n) == \E e \in 0..n : 2^e = n
-----------------------------------------------------------------------------
usable(k, c, h) == lookup_in(k.sys, k.spaces[c], DOMAIN k.arena, h)

object_of(k, c, h) == k.sys.node[k.spaces[c].node[h[1]][1]].object

insertable(k, c) == k.spaces[c].free # <<>> /\ k.sys.free # <<>> /\ k.charged[c] < Budget

(* insert_new once insertable *)
insert(k, c, id, rights, p) ==
  LET i == Head(k.spaces[c].free)
      n == Head(k.sys.free)
  IN  [k EXCEPT !.charged[c] = @ + 1,
                !.sys = allocate_node(@, [object |-> id, rights |-> rights], p),
                !.spaces[c].free = Tail(@),
                !.spaces[c].node[i] = <<n, k.sys.generation[n]>>]

(* insert_descendant validates the parent and compares the rights. *)
descends(k, c, rights, p) ==
  /\ validate_node(k.sys, p, DOMAIN k.arena)
  /\ rights \subseteq k.sys.node[p[1]].rights
  /\ insertable(k, c)

(* CapabilitySystem::delete *)
delete(k, c, h) ==
  [k EXCEPT !.charged[c] = @ - 1,
            !.sys = release_node(@, k.spaces[c].node[h[1]]),
            !.spaces[c].node[h[1]] = None, !.spaces[c].generation[h[1]] = @ + 1,
            !.spaces[c].free = <<h[1]>> \o @]

(* Bound: a slot or node at its last generation is not deleted. *)
Deletable(c, h) == h[2] < MaxGeneration /\ \A i \in 1..Nodes : sys.generation[i] < MaxGeneration
-----------------------------------------------------------------------------
table_of(v) == (v - 1) \div PagesPerTable

(* Mapper::map_to, on a state and whether all went well so far: the table  *)
(* is allocated where it is missing, and a page mapped already is refused. *)
map_to(q, a, v, f, rights) ==
  LET t == table_of(v)
      missing == q.k.aspaces[a].table[t] = None
      k == IF ~missing \/ q.k.free = {} THEN q.k
           ELSE [q.k EXCEPT !.free = @ \ {Min(@)}, !.aspaces[a].table[t] = Min(q.k.free)]
  IN  IF ~q.ok \/ (missing /\ q.k.free = {}) THEN [q EXCEPT !.ok = FALSE]
      ELSE IF k.aspaces[a].page[v] # None THEN [k |-> k, ok |-> FALSE]
      ELSE [k |-> [k EXCEPT !.aspaces[a].page[v] = [frame |-> f, rights |-> rights]],
            ok |-> TRUE]

(* map_user_frames, map_physical_mmio_range: page by page; the pages that  *)
(* were mapped before one is refused stay mapped.                          *)
map_frames(k, a, v, frames, rights) ==
  LET mapped[i \in 0..Len(frames)] ==
        IF i = 0 THEN [k |-> k, ok |-> TRUE]
        ELSE map_to(mapped[i - 1], a, v + i - 1, frames[i], rights \cap {WRITE, EXECUTE})
  IN  mapped[Len(frames)]

(* unmap_user_range, where the address space still exists *)
unmap_range(k, a, v, n) ==
  IF a \notin DOMAIN k.aspaces THEN k
  ELSE [k EXCEPT !.aspaces[a].page =
          [p \in 1..LastPage |-> IF v <= p /\ p < v + n THEN None ELSE @[p]]]
-----------------------------------------------------------------------------
(* Mutant of can_destroy: mappings do not count. *)
can_destroy_mapped(o) == o.caps = 0 /\ o.pins = 0

can_destroy(o) == o.caps = 0 /\ o.maps = 0 /\ o.pins = 0

(* Mutant of reclaim_memory_object: the byte charge is kept. *)
reclaim_memory_object_charged(k, id) ==
  IF id \notin DOMAIN k.memory \/ ~can_destroy(k.memory[id]) THEN k
  ELSE LET m == k.memory[id]
           k1 == [k EXCEPT !.memory = without(@, id), !.free = @ \cup (Range(m.frames) \cap Allocatable)]
       IN  destroy(release_object(k1, m.domain), m.domain, id)

(* reclaim_memory_object_if_zero_refs: the object charge is released here  *)
(* and again by destroy.                                                   *)
reclaim_memory_object(k, id) ==
  IF id \notin DOMAIN k.memory \/ ~can_destroy(k.memory[id]) THEN k
  ELSE LET m == k.memory[id]
           k1 == [k EXCEPT !.memory = without(@, id), !.free = @ \cup (Range(m.frames) \cap Allocatable)]
       IN  destroy(release_object(release_memory(k1, m.domain, Len(m.frames)), m.domain),
                   m.domain, id)

(* Mutant of reclaim_contiguous_frame: the last frame is not freed. *)
reclaim_contiguous_frame_short(k, id) ==
  IF id \notin DOMAIN k.contiguous \/ ~can_destroy(k.contiguous[id]) THEN k
  ELSE LET f == k.contiguous[id]
           k1 == [k EXCEPT !.contiguous = without(@, id),
                           !.free = @ \cup (f.base..(f.base + f.pages - 2))]
       IN  destroy(release_object(release_memory(k1, f.owner, f.pages), f.owner), f.owner, id)

(* reclaim_contiguous_frame_if_zero_refs, with the same two releases *)
reclaim_contiguous_frame(k, id) ==
  IF id \notin DOMAIN k.contiguous \/ ~can_destroy(k.contiguous[id]) THEN k
  ELSE LET f == k.contiguous[id]
           k1 == [k EXCEPT !.contiguous = without(@, id),
                           !.free = @ \cup (f.base..(f.base + f.pages - 1))]
       IN  destroy(release_object(release_memory(k1, f.owner, f.pages), f.owner), f.owner, id)

(* dec_mapping_ref or remove_mapping on what backs m *)
dec_mapping_ref(k, m) ==
  IF m.kind = "MemoryObject" /\ m.source \in DOMAIN k.memory
  THEN [k EXCEPT !.memory[m.source].maps = @ - 1]
  ELSE IF m.kind = "ContiguousFrame" /\ m.source \in DOMAIN k.contiguous
  THEN [k EXCEPT !.contiguous[m.source].maps = @ - 1]
  ELSE k

reclaim(k, id) == reclaim_contiguous_frame(reclaim_memory_object(k, id), id)

(* MemoryObjectTransientPin and its Drop *)
pin(k, id) == [k EXCEPT !.memory[id].pins = @ + 1]
unpin(k, id) == reclaim_memory_object([k EXCEPT !.memory[id].pins = @ - 1], id)

(* A mapping leaves its address space, MAPPINGS and the arena, where       *)
(* domain d pays for it, and drops its reference.                          *)
remove_mapping(k, id, d) ==
  LET m == k.mappings[id]
      k1 == unmap_range(k, m.aspace, m.page, m.pages)
  IN  dec_mapping_ref(destroy([k1 EXCEPT !.mappings = without(@, id)], d, id), m)

(* ... and what it was the last reference to is reclaimed. *)
tear_down(k, id, d) == reclaim(remove_mapping(k, id, d), k.mappings[id].source)
-----------------------------------------------------------------------------
(* FactoryCreate: charge_memory, frames, arena.create, insert_root, and    *)
(* the registry.  kind is "Image" through an image factory.                *)
memory_rights(c) ==
  {MAP, READ, WRITE, MANAGE} \cup (IF c \in ImageFactories THEN {EXECUTE} ELSE {})

factory_memory(k, c, n) ==
  LET frames == lowest(k.free, n)
      k1 == charge_memory([k EXCEPT !.free = @ \ Range(frames)], c, n)
      rollback(q) == release_memory([q EXCEPT !.free = @ \cup Range(frames)], c, n)
      id == k.created + 1
      k2 == create(k1, c, "MemoryObject")
  IN  IF k.usage[c].memory + n > MemoryLimit THEN k
      ELSE IF Len(frames) < n \/ ~creatable(k1, c) THEN rollback(k1)
      ELSE IF ~insertable(k2, c) THEN rollback(destroy(k2, c, id))
      ELSE [insert(k2, c, id, memory_rights(c), None) EXCEPT !.memory = @ @@ (id :>
              [frames |-> frames, domain |-> c, caps |-> 1, maps |-> 0, pins |-> 0,
               kind |-> IF c \in ImageFactories THEN "Image" ELSE "Anonymous"])]

(* The same for a ContiguousFrame, whose page count is a power of two *)
factory_contiguous(k, c, n) ==
  LET base == IF runs(k.free, n) = {} THEN 0 ELSE Min(runs(k.free, n))
      run == base..(base + n - 1)
      k1 == charge_memory([k EXCEPT !.free = @ \ run], c, n)
      rollback(q) == release_memory([q EXCEPT !.free = @ \cup run], c, n)
      id == k.created + 1
      k2 == create(k1, c, "ContiguousFrame")
  IN  IF k.usage[c].memory + n > MemoryLimit \/ runs(k.free, n) = {} THEN k
      ELSE IF ~creatable(k1, c) THEN rollback(k1)
      ELSE IF ~insertable(k2, c) THEN rollback(destroy(k2, c, id))
      ELSE [insert(k2, c, id, {MAP, READ, WRITE}, None) EXCEPT !.contiguous = @ @@ (id :>
              [base |-> base, pages |-> n, owner |-> c, caps |-> 1, maps |-> 0, pins |-> 0])]
-----------------------------------------------------------------------------
new_mapping(a, v, n, rights, kind, source, base, offset, lineage_parent) ==
  [aspace |-> a, page |-> v, pages |-> n, rights |-> rights, kind |-> kind,
   source |-> source, base |-> base, offset |-> offset, lineage |-> lineage_parent,
   caps |-> 1, closed |-> FALSE]

(* insert_descendant of the mapping made in k below node p, or the undo of *)
(* everything: k holds its pages, its object and its registration.         *)
publish_mapping(k, c, id, p) ==
  LET m == k.mappings[id]
  IN  IF descends(k, c, m.rights \cup {MAP}, p)
      THEN insert(k, c, id, m.rights \cup {MAP}, p)
      ELSE remove_mapping(k, id, c)

(* What MapMemory asks of a MemoryObject before it changes anything: n     *)
(* pages of obj, named with rights held, at page v with rights r *)
memory_request(obj, held, v, n, r) ==
  /\ r \subseteq held
  /\ ~({WRITE, EXECUTE} \subseteq r)
  /\ ~(obj.kind = "Anonymous" /\ EXECUTE \in r)
  /\ n > 0 /\ v + n - 1 <= LastPage

(* The mapping of page o of src on, whose pages are mapped in k, is        *)
(* counted, registered and named.                                          *)
register_memory_mapping(k, c, p, m, id) ==
  publish_mapping([k EXCEPT !.memory[m.source].maps = @ + 1, !.mappings = @ @@ (id :> m)],
                  c, id, p)

(* MapMemory of a MemoryObject, from page o of it, with rights r *)
map_memory_object(k, c, h, a, v, r, o) ==
  LET p == k.spaces[c].node[h[1]]
      src == k.sys.node[p[1]].object
      obj == k.memory[src]
      n == Len(obj.frames) - o
      id == k.created + 1
      k1 == create(pin(k, src), c, "Mapping")
      q == map_frames(k1, a, v, SubSeq(obj.frames, o + 1, o + n), r)
  IN  IF src \notin DOMAIN k.memory THEN k
      ELSE IF ~memory_request(obj, k.sys.node[p[1]].rights, v, n, r) THEN k
      ELSE IF ~creatable(k, c) THEN unpin(pin(k, src), src)
      ELSE IF a \notin DOMAIN k.aspaces THEN unpin(destroy(k1, c, id), src)
      ELSE IF ~q.ok THEN unpin(destroy(q.k, c, id), src)
      ELSE unpin(register_memory_mapping(q.k, c, p,
                   new_mapping(a, v, n, r, "MemoryObject", src, None, o, p), id), src)

(* The range is mapped in k: the new mapping of it is created, registered  *)
(* and named; it keeps no reference on what backs the range.               *)
register_range(k, c, p, m) ==
  LET id == k.created + 1
  IN  IF ~creatable(k, c) THEN unmap_range(k, m.aspace, m.page, m.pages)
      ELSE publish_mapping([create(k, c, "Mapping") EXCEPT !.mappings = @ @@ (id :> m)], c, id, p)

(* MapMemory of a Mapping that has a physical address *)
map_mapping(k, c, h, a, v, r) ==
  LET p == k.spaces[c].node[h[1]]
      src == k.sys.node[p[1]].object
      m == k.mappings[src]
      base == m.base + m.offset
      q == map_frames(k, a, v, [i \in 1..m.pages |-> base + i - 1], r)
  IN  IF ~(r \subseteq k.sys.node[p[1]].rights) \/ src \notin DOMAIN k.mappings THEN k
      ELSE IF v + m.pages - 1 > LastPage \/ a \notin DOMAIN k.aspaces
              \/ m.kind = "MemoryObject" THEN k
      ELSE IF ~q.ok THEN q.k
      ELSE register_range(q.k, c, p,
             new_mapping(a, v, m.pages, r, "PhysicalRange", None, base, 0, None))

(* add_mapping, and the same for the run mapped in k *)
register_run(k, c, p, m) ==
  LET id == k.created + 1
      k1 == [k EXCEPT !.contiguous[m.source].maps = @ + 1]
  IN  IF ~creatable(k, c) THEN unmap_range(dec_mapping_ref(k1, m), m.aspace, m.page, m.pages)
      ELSE publish_mapping([create(k1, c, "Mapping") EXCEPT !.mappings = @ @@ (id :> m)], c, id, p)

(* MapMemory of a ContiguousFrame, from page o of it; the range is not     *)
(* compared with the end of the user half here.                            *)
map_contiguous(k, c, h, a, v, r, o) ==
  LET p == k.spaces[c].node[h[1]]
      src == k.sys.node[p[1]].object
      f == k.contiguous[src]
      n == f.pages - o
      q == map_frames(k, a, v, [i \in 1..n |-> f.base + o + i - 1], r)
  IN  IF src \notin DOMAIN k.contiguous \/ a \notin DOMAIN k.aspaces THEN k
      ELSE IF n <= 0 THEN k
      ELSE IF ~q.ok THEN q.k
      ELSE register_run(q.k, c, p,
             new_mapping(a, v, n, r, "ContiguousFrame", src, f.base, o, None))
-----------------------------------------------------------------------------
type_of(c, h) == arena[object_of(K, c, h)].type

(* Bound: ObjectIds left to create with *)
MayCreate == created + 1 \in Objects

FactoryCreate(c) ==
  /\ MayCreate
  /\ \/ \E n \in Sizes : \E k \in {factory_memory(K, c, n)} : Becomes(k)
     \/ \E n \in RunSizes : is_power_of_two(n) /\ \E k \in {factory_contiguous(K, c, n)} : Becomes(k)

(* OperationCode::MapMemory: the three sources, tried in this order *)
MapMemory(c, h, a, v, r, o) ==
  /\ MayCreate
  /\ Usable(c, h) /\ MAP \in rights_of(c, h)
  /\ \/ /\ type_of(c, h) = "MemoryObject"
        /\ \E k \in {map_memory_object(K, c, h, a, v, r, o)} : Becomes(k)
     \/ /\ type_of(c, h) = "Mapping" /\ o = 0
        /\ \E k \in {map_mapping(K, c, h, a, v, r)} : Becomes(k)
     \/ /\ type_of(c, h) = "ContiguousFrame" /\ READ \in rights_of(c, h)
        /\ \E k \in {map_contiguous(K, c, h, a, v, r, o)} : Becomes(k)

(* OperationCode::UnmapMemory closes the mapping first; the object is      *)
(* destroyed in the caller's domain, whose it need not be.                 *)
UnmapMemory(c, h) ==
  /\ Deletable(c, h)
  /\ Usable(c, h) /\ MAP \in rights_of(c, h) /\ type_of(c, h) = "Mapping"
  /\ LET id == object_of(K, c, h)
     IN  /\ id \in DOMAIN mappings /\ ~mappings[id].closed
         /\ IF mappings[id].aspace \notin DOMAIN aspaces
            THEN Becomes([K EXCEPT !.mappings[id].closed = TRUE])
            ELSE \E k \in {tear_down(delete(K, c, h), id, c)} : Becomes(k)

(* Mutant of inc_capability_ref: a derived handle is not counted. *)
inc_capability_ref_none(k, id) == k

(* Derive's reference on what the new handle names *)
inc_capability_ref(k, id) ==
  IF id \in DOMAIN k.memory THEN [k EXCEPT !.memory[id].caps = @ + 1]
  ELSE IF id \in DOMAIN k.contiguous THEN [k EXCEPT !.contiguous[id].caps = @ + 1]
  ELSE IF id \in DOMAIN k.mappings THEN [k EXCEPT !.mappings[id].caps = @ + 1]
  ELSE k

(* OperationCode::Derive *)
DeriveHandle(c, h, d, r) ==
  /\ Usable(c, h)
  /\ r \subseteq rights_of(c, h)
  /\ insertable(K, d)
  /\ LET id == object_of(K, c, h)
     IN  \E k \in {inc_capability_ref(insert(K, d, id, r, node_for(c, h)), id)} : Becomes(k)

(* delete_handle_internal: what the handle names is looked up first, so a  *)
(* revoked handle is deleted without dropping its reference.               *)
dec_capability_ref(k, id) ==
  IF id \in DOMAIN k.memory
  THEN reclaim_memory_object([k EXCEPT !.memory[id].caps = @ - 1], id)
  ELSE IF id \in DOMAIN k.contiguous
  THEN reclaim_contiguous_frame([k EXCEPT !.contiguous[id].caps = @ - 1], id)
  ELSE IF id \notin DOMAIN k.mappings THEN k
  ELSE IF k.mappings[id].caps > 1 THEN [k EXCEPT !.mappings[id].caps = @ - 1]
  ELSE tear_down(k, id, k.arena[id].owner)

delete_handle_internal(k, c, h) ==
  IF usable(k, c, h) THEN dec_capability_ref(delete(k, c, h), object_of(k, c, h))
  ELSE delete(k, c, h)

DeleteHandle(c, h) ==
  /\ Deletable(c, h)
  /\ node_for(c, h) # None
  /\ \E k \in {delete_handle_internal(K, c, h)} : Becomes(k)

(* Mutant of perform_kernel_selective_revoke: only mappings made through   *)
(* the handle itself are torn down.                                        *)
perform_kernel_selective_revoke_direct(k, p) ==
  LET k1 == [k EXCEPT !.sys = revoke_descendants(@, p)]
      torn == {id \in DOMAIN k.mappings : k.mappings[id].lineage = p /\ ~k.mappings[id].closed}
  IN  FoldSet(LAMBDA id, q : tear_down(q, id, k.arena[id].owner), k1, torn)

perform_kernel_selective_revoke(k, p) ==
  LET k1 == [k EXCEPT !.sys = revoke_descendants(@, p)]
      torn == {id \in DOMAIN k.mappings :
                 /\ k.mappings[id].lineage # None
                 /\ p \in ancestors(k.sys, k.mappings[id].lineage)
                 /\ ~k.mappings[id].closed}
  IN  FoldSet(LAMBDA id, q : tear_down(q, id, k.arena[id].owner), k1, torn)

(* OperationCode::Revoke: the descendants and their mappings go before the *)
(* handle is validated.                                                    *)
RevokeHandle(c, h) ==
  /\ node_for(c, h) # None
  /\ \E k \in {perform_kernel_selective_revoke(K, node_for(c, h))} :
       Becomes(IF usable(k, c, h) /\ MANAGE \in rights_of(c, h)
               THEN [k EXCEPT !.sys.node[node_for(c, h)[1]].revoked = TRUE]
               ELSE k)
-----------------------------------------------------------------------------
EmptyKernel ==
  [sys |-> [node |-> [i \in 1..Nodes |-> FreeNode], generation |-> [i \in 1..Nodes |-> 1],
            free |-> [i \in 1..Nodes |-> i]],
   spaces |-> [c \in Spaces |->
                 [node |-> [i \in 1..Slots |-> None], generation |-> [i \in 1..Slots |-> 1],
                  free |-> [i \in 1..Slots |-> i]]],
   charged |-> [c \in Spaces |-> 0], arena |-> <<>>, created |-> 0,
   usage |-> [c \in Spaces |-> [objects |-> 0, memory |-> 0]],
   memory |-> <<>>, contiguous |-> <<>>, mappings |-> <<>>,
   aspaces |-> [a \in AddressSpaces |->
                  [table |-> [t \in 0..table_of(LastPage) |-> None],
                   page |-> [p \in 1..LastPage |-> None]]],
   free |-> Allocatable]

MemInit ==
  \E k \in {EmptyKernel} :
    /\ sys = k.sys /\ spaces = k.spaces /\ charged = k.charged /\ arena = k.arena
    /\ objects = DOMAIN k.arena /\ created = k.created /\ usage = k.usage
    /\ memory = k.memory /\ contiguous = k.contiguous /\ mappings = k.mappings
    /\ aspaces = k.aspaces /\ free = k.free

(* Bound: runs are asked for where they end in the user half. *)
RunInUserHalf(c, h, v, o) ==
  \A id \in DOMAIN contiguous : Usable(c, h) /\ object_of(K, c, h) = id =>
    v + contiguous[id].pages - o - 1 <= LastPage

MapSome(c, h) ==
  \E a \in AddressSpaces, v \in 1..LastPage, r \in PageRights, o \in Offsets :
    <<c, a>> \in MapsInto /\ RunInUserHalf(c, h, v, o) /\ MapMemory(c, h, a, v, r, o)

MemNext ==
  \E c \in Spaces :
    \/ FactoryCreate(c)
    \/ \E h \in Held(c) :
         \/ MapSome(c, h)
         \/ \E d \in Spaces, r \in Requests : DeriveHandle(c, h, d, r)
         \/ UnmapMemory(c, h)
         \/ DeleteHandle(c, h)
         \/ RevokeHandle(c, h)

MemSpec == MemInit /\ [][MemNext]_mvars
-----------------------------------------------------------------------------
frames_of(o) == Range(o.frames) \cap Allocatable
run_of(f) == f.base..(f.base + f.pages - 1)

(* The frame behind page i of mapping m *)
frame_at(m, i) ==
  IF m.kind = "MemoryObject" THEN memory[m.source].frames[m.offset + i] ELSE m.base + m.offset + i - 1

(* What MapMemory reported as mapped is mapped: the pages of every open    *)
(* mapping lead to the frames of the object that backs it, with its        *)
(* permissions, and that object is still registered.  (The device ranges   *)
(* of boot are registered at address 0 and mapped nowhere.)                *)
MappingsInstalled ==
  \A id \in DOMAIN mappings :
    LET m == mappings[id]
    IN  (~m.closed /\ m.page > 0 /\ m.aspace \in DOMAIN aspaces) =>
          /\ m.kind = "MemoryObject" => m.source \in DOMAIN memory
          /\ m.kind = "ContiguousFrame" => m.source \in DOMAIN contiguous
          /\ \A i \in 1..m.pages : aspaces[m.aspace].page[m.page + i - 1] =
               [frame |-> frame_at(m, i), rights |-> m.rights \cap {WRITE, EXECUTE}]

(* INV-MEM-02: no frame is lost or used twice.  Every frame of the         *)
(* allocator is free, in exactly one memory object, in exactly one         *)
(* contiguous run, or a page table, through every failure and rollback.    *)
FramesConserved ==
  LET holders(f) ==
        {<<"memory", id>> : id \in {i \in DOMAIN memory : f \in frames_of(memory[i])}}
          \cup {<<"run", id>> : id \in {i \in DOMAIN contiguous : f \in run_of(contiguous[i])}}
          \cup {<<"table", a>> : a \in {b \in DOMAIN aspaces : f \in Range(aspaces[b].table)}}
          \cup (IF f \in free THEN {<<"free", None>>} ELSE {})
  IN  \A f \in Allocatable : Cardinality(holders(f)) = 1

SumOf(f) == FoldFunction(+, 0, f)

(* The bytes charged to a domain are those of the memory objects and       *)
(* contiguous frames registered for it.                                    *)
MemoryChargesExact ==
  \A c \in Spaces : usage[c].memory =
    SumOf([id \in {i \in DOMAIN memory : memory[i].domain = c} |-> Len(memory[id].frames)])
    + SumOf([id \in {i \in DOMAIN contiguous : contiguous[i].owner = c} |-> contiguous[id].pages])

naming(id) == {q \in Spaces \X Handles :
                 /\ node_for(q[1], q[2]) # None /\ Usable(q[1], q[2])
                 /\ object_of(K, q[1], q[2]) = id}

(* What the reference classes count.  The mappings made through an         *)
(* object's own handles are counted one by one, and its handles at least   *)
(* as many times as there are usable ones, so an object that a usable      *)
(* handle names is registered.  Two things are not counted exactly: a      *)
(* revoked handle keeps its count when it is deleted, and a PhysicalRange, *)
(* which is mapped through a Mapping, has none (FramesHeldWhileShown).     *)
RefsCover ==
  /\ \A id \in DOMAIN memory :
       /\ memory[id].maps = Cardinality({m \in DOMAIN mappings :
            mappings[m].kind = "MemoryObject" /\ mappings[m].source = id})
       /\ memory[id].pins = 0 /\ memory[id].caps >= Cardinality(naming(id))
  /\ \A id \in DOMAIN contiguous :
       /\ contiguous[id].maps = Cardinality({m \in DOMAIN mappings :
            mappings[m].kind = "ContiguousFrame" /\ mappings[m].source = id})
       /\ contiguous[id].caps >= Cardinality(naming(id))
  /\ \A id \in DOMAIN arena : naming(id) # {} =>
       /\ arena[id].type = "MemoryObject" => id \in DOMAIN memory
       /\ arena[id].type = "ContiguousFrame" => id \in DOMAIN contiguous

(* ADR 0038: "Physical frames are released only when all three reference   *)
(* classes reach zero".  No frame that an open mapping shows is free.      *)
FramesHeldWhileShown ==
  \A id \in DOMAIN mappings :
    LET m == mappings[id]
    IN  (~m.closed /\ m.page > 0 /\ m.aspace \in DOMAIN aspaces) =>
          \A i \in 1..m.pages : frame_at(m, i) \notin free

(* Revoking a memory handle tears down the mappings made through it and    *)
(* through every handle derived from it, in every address space, although  *)
(* handles in between may have been deleted: no open mapping of a memory   *)
(* object descends from a revoked capability.                              *)
RevokedUnmapped ==
  \A id \in DOMAIN mappings :
    mappings[id].kind = "MemoryObject" /\ ~mappings[id].closed =>
      \A p \in lineage(sys, mappings[id].lineage) : names(sys, p) => ~sys.node[p[1]].revoked

(* INV-MEM-02: "mapping operations execute as compensating transactions    *)
(* with complete rollback".  Every user page belongs to an open mapping.   *)
PagesBacked ==
  \A a \in DOMAIN aspaces : \A v \in 1..LastPage : aspaces[a].page[v] # None =>
    \E id \in DOMAIN mappings :
      LET m == mappings[id]
      IN  ~m.closed /\ m.aspace = a /\ m.page <= v /\ v < m.page + m.pages
=============================================================================
