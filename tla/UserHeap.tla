------------------------------ MODULE UserHeap -----------------------------
(***************************************************************************)
(* The allocator of a user program (src/crates/libgaxera/src/heap.rs): a   *)
(* table of blocks over chunks of memory the program asks the kernel for.  *)
(* The kernel may refuse any chunk, at its creation or when it is mapped.  *)
(***************************************************************************)
EXTENDS Integers, Sequences, FiniteSets, FiniteSetsExt, SequencesExt

CONSTANTS MaxBlocks, MaxChunks,   \* MAX_BLOCKS (1024), the length of chunk_handles (64)
          ChunkSize, HeapEnd,     \* CHUNK_SIZE, HEAP_END_VADDR - HEAP_START_VADDR
          Layouts                 \* [size, align] of the requests

ASSUME UserHeapAssumption ==
  MaxBlocks \in Nat \ {0} /\ MaxChunks \in Nat /\ ChunkSize \in Nat \ {0} /\ HeapEnd \in Nat

VARIABLES arena,     \* HeapArena
          live,      \* what allocate returned and was not handed back
          granted,   \* chunks the kernel holds mapped for this program
          dropped    \* bytes that no block describes any more

hvars == <<arena, live, granted, dropped>>

Slots == 1..MaxBlocks
Empty == [state |-> "inactive"]
Block(s, a, n) == [state |-> s, vaddr |-> a, size |-> n]
span(b) == b.vaddr..(b.vaddr + b.size - 1)

NewArena == [blocks |-> [i \in Slots |-> Empty], chunks |-> 0, next |-> 0, up |-> FALSE]

adjustment(b, align) == (align - (b.vaddr % align)) % align

find_free_block(bs, l) ==
  SelectInSeq([i \in Slots |-> bs[i]],
              LAMBDA b : b.state = "free" /\ b.size >= l.size + adjustment(b, l.align))

find_inactive_slot(bs) == SelectInSeq([i \in Slots |-> bs[i]], LAMBDA b : b.state = "inactive")

(* A free block of its own for a range, if the table has a slot for it. *)
with_free(bs, a, n) ==
  IF n > 0 /\ find_inactive_slot(bs) > 0
  THEN [bs EXCEPT ![find_inactive_slot(bs)] = Block("free", a, n)] ELSE bs

(* Mutant of split: the block keeps its whole size. *)
split_whole(bs, i, l) ==
  LET b == bs[i]
      at == b.vaddr + adjustment(b, l.align)
  IN  with_free(with_free([bs EXCEPT ![i] = Block("used", at, b.size)],
                          b.vaddr, at - b.vaddr),
                at + l.size, b.size - l.size - (at - b.vaddr))

(* split_and_allocate: the aligned part is used, the rest before and after *)
(* it becomes free blocks.                                                 *)
split(bs, i, l) ==
  LET b == bs[i]
      at == b.vaddr + adjustment(b, l.align)
  IN  with_free(with_free([bs EXCEPT ![i] = Block("used", at, l.size)],
                          b.vaddr, at - b.vaddr),
                at + l.size, b.size - l.size - (at - b.vaddr))

(* coalesce: each pass lets every free block, in table order, absorb the   *)
(* free block that starts where it ends; passes repeat until one changes   *)
(* nothing.                                                                *)
absorb(bs, i) ==
  LET next == {j \in Slots \ {i} : bs[i].state = "free" /\ bs[j].state = "free"
                                   /\ bs[j].vaddr = bs[i].vaddr + bs[i].size}
  IN  IF next = {} THEN bs
      ELSE LET j == CHOOSE j \in next : TRUE
           IN  [bs EXCEPT ![i].size = @ + bs[j].size, ![j] = Empty]

in_order == [i \in Slots |-> i]

coalesce(bs) == FoldLeft(LAMBDA c, pass : FoldLeft(absorb, c, in_order), bs, in_order)

(* grow_heap refuses before it asks the kernel when a table is full ...     *)
may_ask(a) == a.chunks < MaxChunks /\ HeapEnd - a.next >= ChunkSize

(* ... and gives the chunk back when no block is left to describe it.       *)
may_grow(a) == may_ask(a) /\ find_inactive_slot(a.blocks) > 0

grow_heap(a) ==
  [a EXCEPT !.blocks = coalesce(with_free(a.blocks, a.next, ChunkSize)),
            !.chunks = @ + 1, !.next = @ + ChunkSize]

(* The arena after k chunks were added *)
grown(a, k) == FoldLeft(LAMBDA c, i : grow_heap(c), a, [i \in 1..k |-> i])

(* The numbers of chunks the loop of allocate may add to the coalesced      *)
(* arena: until the request fits, a table is full or the kernel refuses.    *)
growths(a, l) ==
  {k \in 0..MaxChunks :
     /\ k <= MaxChunks - a.chunks
     /\ \A i \in 0..(k - 1) : may_grow(grown(a, i)) /\ find_free_block(grown(a, i).blocks, l) = 0}
-----------------------------------------------------------------------------
described(a) == UNION {span(a.blocks[i]) : i \in {i \in Slots : a.blocks[i].state # "inactive"}}

Started == ~arena.up /\ arena' = [arena EXCEPT !.up = TRUE] /\ UNCHANGED <<live, granted, dropped>>

(* The arena a is used for the request l, or cannot serve it. *)
serve(a, l) ==
  LET i == find_free_block(a.blocks, l)
  IN  IF i = 0 THEN arena' = a /\ UNCHANGED <<live, dropped>>
      ELSE LET bs == split(a.blocks, i, l)
               b == a.blocks[i]
           IN  /\ arena' = [a EXCEPT !.blocks = bs]
               /\ live' = live \cup {[at |-> b.vaddr + adjustment(b, l.align), layout |-> l]}
               /\ dropped' = dropped \cup (span(b) \ described(arena'))

(* allocate: first fit; else coalesce and fit; else grow.  The request's    *)
(* size is raised to its alignment.                                         *)
HeapAllocate(req) ==
  LET l == [req EXCEPT !.size = IF @ < req.align THEN req.align ELSE @]
  IN  /\ arena.up
      /\ IF find_free_block(arena.blocks, l) > 0
         THEN serve(arena, l) /\ UNCHANGED granted
         ELSE \E a \in {[arena EXCEPT !.blocks = coalesce(@)]} :
              \E k \in growths(a, l) : \E b \in {grown(a, k)} :
                 serve(b, l) /\ granted' = granted \cup {a.next + ChunkSize * i : i \in 0..(k - 1)}

HeapDeallocate(x) ==
  /\ x \in live /\ live' = live \ {x}
  /\ LET i == SelectInSeq([i \in Slots |-> arena.blocks[i]],
                          LAMBDA b : b.state = "used" /\ b.vaddr = x.at)
     IN  arena' = IF i = 0 THEN arena ELSE [arena EXCEPT !.blocks[i].state = "free"]
  /\ UNCHANGED <<granted, dropped>>

(* The chunks whose handles teardown deletes *)
released(a) == {ChunkSize * i : i \in 0..(a.chunks - 1)}

(* teardown, as the program ends and nothing uses its allocations any more *)
Teardown ==
  /\ arena.up /\ arena' = NewArena /\ granted' = granted \ released(arena)
  /\ live' = {} /\ dropped' = {}

HInit == arena = NewArena /\ live = {} /\ granted = {} /\ dropped = {}

HNext == Started \/ Teardown \/ (\E l \in Layouts : HeapAllocate(l)) \/ (\E x \in live : HeapDeallocate(x))

HSpec == HInit /\ [][HNext]_hvars
-----------------------------------------------------------------------------
chunk_range(a) == 0..(a.next - 1)
extent_of(x) == x.at..(x.at + x.layout.size - 1)

(* No two allocations share a byte, each is aligned and lies in memory the *)
(* kernel has mapped; every mapped byte is in exactly one block or was     *)
(* dropped because the table was full; and the chunks the kernel keeps are *)
(* the ones teardown releases.                                             *)
AllocationsDisjoint ==
  /\ \A x, y \in live : x # y => extent_of(x) \cap extent_of(y) = {}
  /\ \A x \in live : x.at % x.layout.align = 0
                     /\ \E i \in Slots : arena.blocks[i] = Block("used", x.at, x.layout.size)
  /\ \A i, j \in Slots : i # j /\ arena.blocks[i].state # "inactive" /\ arena.blocks[j].state # "inactive"
                           => span(arena.blocks[i]) \cap span(arena.blocks[j]) = {}
  /\ UNION {c..(c + ChunkSize - 1) : c \in granted} = chunk_range(arena)
  /\ described(arena) \cup dropped = chunk_range(arena)
=============================================================================
