----------------------------- MODULE SlabCache -----------------------------
(***************************************************************************)
(* The kernel's slab cache (kernel-core/src/slab.rs): pages of equal slots *)
(* whose free list is threaded through the free slots themselves, so that  *)
(* the owner of a slot overwrites the link that was in it.                 *)
(***************************************************************************)
EXTENDS Naturals, Sequences, SequencesExt, FiniteSets

CONSTANTS SlabFrames,   \* frames alloc_frame can hand out
          SlotCount     \* slots_per_page(), below NoSlot

ASSUME SlabAssumption == SlotCount \in Nat \ {0} /\ IsFiniteSet(SlabFrames)

NoSlot == SlotCount + 7     \* u16::MAX, beyond every slot of a page

VARIABLES pages,     \* sequence of [frame, free_head, allocated_count]
          words,     \* frame -> slot -> the first word of that slot
          inuse      \* history: <<frame, slot>> handed out and not given back

slabvars == <<pages, words, inuse>>

SlabSlots == 0..(SlotCount - 1)

position(found) == IF found = {} THEN 0 ELSE CHOOSE k \in found : \A j \in found : k <= j

(* A new page: each free slot holds the index of the next. *)
linked == [s \in SlabSlots |-> IF s + 1 < SlotCount THEN s + 1 ELSE NoSlot]

take_slot(all, contents, k) ==
  LET page == all[k]
      slot == page.free_head
      next == contents[page.frame][slot]
  IN  /\ pages' = [all EXCEPT ![k] = [page EXCEPT !.free_head = next, !.allocated_count = @ + 1]]
      /\ inuse' = inuse \cup {<<page.frame, slot>>}

(* allocate: the first page with a free slot, or a new page; fails without *)
(* a frame.  The caller then owns the slot and writes what it likes there. *)
allocate_slot ==
  LET k == position({j \in DOMAIN pages : pages[j].allocated_count < SlotCount})
  IN  IF k # 0 THEN take_slot(pages, words, k) /\ UNCHANGED words
      ELSE \E f \in SlabFrames \ {p.frame : p \in ToSet(pages)} :
             /\ words' = [words EXCEPT ![f] = linked]
             /\ take_slot(Append(pages, [frame |-> f, free_head |-> 0, allocated_count |-> 0]), words', Len(pages) + 1)

WriteSlot(f, s, value) ==
  /\ <<f, s>> \in inuse
  /\ words' = [words EXCEPT ![f][s] = value] /\ UNCHANGED <<pages, inuse>>

(* The free list of a page as the double-free check walks it *)
walked(page) ==
  LET step[n \in 0..(SlotCount + 1)] ==
        IF n = 0 THEN page.free_head
        ELSE IF step[n - 1] \notin SlabSlots THEN NoSlot ELSE words[page.frame][step[n - 1]]
  IN  {step[n] : n \in 0..SlotCount} \ {NoSlot}

(* Mutant of refused: the walk for a double free looks at the head only. *)
refused_head(page, slot) ==
  slot \notin SlabSlots \/ page.allocated_count = 0 \/ slot = page.free_head

refused(page, slot) ==
  slot \notin SlabSlots \/ page.allocated_count = 0 \/ slot \in walked(page)

(* deallocate, of any slot of any frame, live or not.  A refused pointer   *)
(* changes nothing; an emptied page gives its frame back.                  *)
deallocate_slot(f, s) ==
  LET k == position({j \in DOMAIN pages : pages[j].frame = f})
      page == pages[k]
      left == [page EXCEPT !.free_head = s, !.allocated_count = @ - 1]
  IN  /\ k # 0 /\ ~refused(page, s)
      /\ words' = [words EXCEPT ![f][s] = page.free_head]
      /\ pages' = IF left.allocated_count = 0 THEN RemoveAt(pages, k) ELSE [pages EXCEPT ![k] = left]
      /\ inuse' = inuse \ {<<f, s>>}

SlabInit == pages = <<>> /\ words = [f \in SlabFrames |-> linked] /\ inuse = {}

SlabNext ==
  \/ allocate_slot
  \/ \E f \in SlabFrames, s \in SlabSlots :
       deallocate_slot(f, s) \/ \E value \in {0, NoSlot} : WriteSlot(f, s, value)

SlabSpec == SlabInit /\ [][SlabNext]_slabvars
-----------------------------------------------------------------------------
(* No slot is handed out twice, whatever its owner writes into it and      *)
(* however often it gives a slot back: in every page the free list read    *)
(* through the slots is exactly the slots not handed out, their number is  *)
(* the one the page counts, and a frame with a slot in use is a page.      *)
SlotsPartitioned ==
  /\ \A k \in DOMAIN pages :
       LET owned_here == {s \in SlabSlots : <<pages[k].frame, s>> \in inuse}
       IN  /\ walked(pages[k]) = SlabSlots \ owned_here
           /\ pages[k].allocated_count = Cardinality(owned_here)
  /\ {u[1] : u \in inuse} = {p.frame : p \in ToSet(pages)} /\ Cardinality({p.frame : p \in ToSet(pages)}) = Len(pages)
=============================================================================
