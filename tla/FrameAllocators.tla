-------------------------- MODULE FrameAllocators --------------------------
(***************************************************************************)
(* The physical frame allocators (src/kernel/src/memory/physical.rs) over  *)
(* the boot memory map (src/kernel/src/memory/boot.rs): the cursor that    *)
(* serves the boot code and records what it gave in a list of merged       *)
(* reservations, the handover to the bitmap over all usable ranges, and    *)
(* the bitmap.  The boot loader's map is any sequence of regions; firmware *)
(* may describe them unaligned, unordered or overlapping.                  *)
(***************************************************************************)
EXTENDS Integers, Sequences, FiniteSetsExt

CONSTANTS PageBytes,         \* PAGE_SIZE
          WordBits,          \* bits in a word of the bitmap
          WordsPerFrame,     \* words of the bitmap that one frame holds
          AddressLimit,      \* one past the highest address
          MaxMemoryRegions, MaxUsableRanges, MaxBootReservations,
          RegionMaps,        \* what the boot loader may report
          RunLengths         \* sizes of contiguous requests

ASSUME FrameAssumption ==
  /\ PageBytes \in Nat \ {0} /\ WordBits \in Nat \ {0} /\ WordsPerFrame \in Nat \ {0}
  /\ RunLengths \subseteq Nat \ {0}
  /\ RegionMaps \subseteq Seq([start : Nat, len : Nat, type : Nat])

VARIABLES fphase,    \* "loader", "boot", "run" or "halt"
          regions,   \* BootContext: the sorted memory map
          boot,      \* BootstrapFrameAllocator
          bitmap,    \* SegmentedBitmapFrameAllocator
          given      \* frames that callers hold

fvars == <<fphase, regions, boot, bitmap, given>>

Frames(r) == {a \in r.start..(r.end - 1) : a % PageBytes = 0}
-----------------------------------------------------------------------------
(* push_memory_region refuses an empty region, one that wraps, and one too many. *)
captured(map) ==
  /\ Len(map) <= MaxMemoryRegions
  /\ \A i \in DOMAIN map : map[i].len > 0 /\ map[i].start + map[i].len < AddressLimit

region_before(r, s) ==
  \/ r.start < s.start
  \/ r.start = s.start /\ (r.type < s.type \/ (r.type = s.type /\ r.len < s.len))

(* sort_regions inserts each region behind the last one it does not precede. *)
inserted(sorted, r) ==
  LET k == Max({0} \cup {j \in DOMAIN sorted : ~region_before(r, sorted[j])})
  IN  SubSeq(sorted, 1, k) \o <<r>> \o SubSeq(sorted, k + 1, Len(sorted))

sort_regions(map) ==
  LET sorted[i \in 0..Len(map)] == IF i = 0 THEN <<>> ELSE inserted(sorted[i - 1], map[i])
  IN  sorted[Len(map)]

align_up(a) == ((a + PageBytes - 1) \div PageBytes) * PageBytes
align_down(a) == (a \div PageBytes) * PageBytes

(* The usable regions as ranges of whole pages; type 0 is Usable. *)
whole_pages(r) == [start |-> align_up(r.start), end |-> align_down(r.start + r.len)]

usable_ranges(map) ==
  LET usable(r) == r.type = 0 /\ whole_pages(r).start < whole_pages(r).end
      ranges[i \in 0..Len(map)] ==
        IF i = 0 THEN <<>>
        ELSE IF usable(map[i]) THEN Append(ranges[i - 1], whole_pages(map[i])) ELSE ranges[i - 1]
  IN  ranges[Len(map)]

normalizable(map) ==
  LET rs == usable_ranges(map)
  IN  /\ \A i \in DOMAIN map : map[i].type = 0 => map[i].start + PageBytes - 1 < AddressLimit
      /\ Len(rs) <= MaxUsableRanges
      /\ \A i \in 2..Len(rs) : rs[i].start >= rs[i - 1].end
-----------------------------------------------------------------------------
(* BootstrapFrameAllocator *)
from_boot_context(map) ==
  LET rs == usable_ranges(map)
  IN  [ranges |-> rs, next |-> [i \in DOMAIN rs |-> rs[i].start], current |-> 1, reserved |-> <<>>]

touches(r, s) == r.start <= s.end /\ r.end >= s.start

(* Mutant of reserve_range: the merged range forgets where it began. *)
reserve_range_forgets(reserved, r) ==
  LET n == Len(reserved)
  IN  IF n > 0 /\ touches(r, reserved[n]) THEN [reserved EXCEPT ![n] = r] ELSE Append(reserved, r)

(* A range that touches the last reservation widens it. *)
reserve_range(reserved, r) ==
  LET n == Len(reserved)
  IN  IF n > 0 /\ touches(r, reserved[n])
      THEN [reserved EXCEPT ![n] = [start |-> Min({r.start, @.start}), end |-> Max({r.end, @.end})]]
      ELSE Append(reserved, r)

contains_frame(reserved, f) == \E i \in DOMAIN reserved : f \in Frames(reserved[i])

(* The first range, from the current one on, with n frames left.  The      *)
(* cursor has passed the ranges before it and never returns to them.       *)
room(b, n) == {i \in b.current..Len(b.ranges) : b.next[i] + n * PageBytes <= b.ranges[i].end}

boot_allocate(b, n) ==
  LET i == Min(room(b, n))
      r == [start |-> b.next[i], end |-> b.next[i] + n * PageBytes]
      moved == [b EXCEPT !.current = i, !.next[i] = r.end]
      reserved == reserve_range(b.reserved, r)
  IN  IF room(b, n) = {} THEN [b |-> [b EXCEPT !.current = Len(b.ranges) + 1], got |-> {}]
      ELSE IF Len(reserved) > MaxBootReservations THEN [b |-> moved, got |-> {}]
      ELSE [b |-> [moved EXCEPT !.reserved = reserved], got |-> Frames(r)]
-----------------------------------------------------------------------------
(* SegmentedBitmapFrameAllocator: each range covers the indices from its   *)
(* bitmap_start on.                                                        *)
frame_count(r) == (r.end - r.start) \div PageBytes

managed_ranges(rs) ==
  LET placed[i \in 0..Len(rs)] ==
        IF i = 0 THEN [spans |-> <<>>, frames |-> 0]
        ELSE LET q == placed[i - 1]
             IN  [spans |-> Append(q.spans, [start |-> rs[i].start, end |-> rs[i].end,
                                             bitmap_start |-> q.frames]),
                  frames |-> q.frames + frame_count(rs[i])]
  IN  placed[Len(rs)]

required_words(frames) == (frames + WordBits - 1) \div WordBits

frame_address(spans, index) ==
  LET i == Min({j \in DOMAIN spans : index < spans[j].bitmap_start + frame_count(spans[j])})
  IN  spans[i].start + (index - spans[i].bitmap_start) * PageBytes

managed(spans, f) == \E i \in DOMAIN spans : f \in Frames(spans[i])

frame_index(spans, f) ==
  LET i == Min({j \in DOMAIN spans : f \in Frames(spans[j])})
  IN  spans[i].bitmap_start + (f - spans[i].start) \div PageBytes

(* Every bit starts used; what no reservation covers is then marked free. *)
new_bitmap(m, reserved) ==
  [spans |-> m.spans, frames |-> m.frames,
   unused |-> {index \in 0..(m.frames - 1) :
                 ~contains_frame(reserved, frame_address(m.spans, index))}]

index_of(f) == frame_index(bitmap.spans, f)

(* allocate_contiguous: aligned runs of n free frames in one range *)
free_runs(n) ==
  {base \in UNION {Frames(bitmap.spans[i]) : i \in DOMAIN bitmap.spans} :
     /\ base % (n * PageBytes) = 0
     /\ \E i \in DOMAIN bitmap.spans :
          base >= bitmap.spans[i].start /\ base + n * PageBytes <= bitmap.spans[i].end
     /\ \A k \in 0..(n - 1) : index_of(base + k * PageBytes) \in bitmap.unused}

frame_run(base, n) == {base + k * PageBytes : k \in 0..(n - 1)}
-----------------------------------------------------------------------------
Capture ==
  /\ fphase = "loader"
  /\ \E map \in RegionMaps :
       LET sorted == sort_regions(map)
       IN  IF captured(map) /\ normalizable(sorted)
           THEN /\ fphase' = "boot" /\ regions' = sorted /\ boot' = from_boot_context(sorted)
                /\ UNCHANGED <<bitmap, given>>
           ELSE fphase' = "halt" /\ UNCHANGED <<regions, boot, bitmap, given>>

(* A boot allocation that fails stops the boot. *)
BootAllocate(n) ==
  /\ fphase = "boot"
  /\ \E q \in {boot_allocate(boot, n)} :
       /\ boot' = q.b /\ given' = given \cup q.got
       /\ fphase' = IF q.got = {} THEN "halt" ELSE "boot"
       /\ UNCHANGED <<regions, bitmap>>

(* The frames of the bitmap itself, then initialize_global_allocator; an   *)
(* empty bitmap is an InvalidReservation.                                  *)
Handover ==
  /\ fphase = "boot"
  /\ \E m \in {managed_ranges(usable_ranges(regions))} :
       LET n == (required_words(m.frames) + WordsPerFrame - 1) \div WordsPerFrame
       IN  IF n = 0 THEN fphase' = "halt" /\ UNCHANGED <<boot, bitmap, given>>
           ELSE \E q \in {boot_allocate(boot, n)} :
                  /\ boot' = q.b /\ given' = given \cup q.got
                  /\ IF q.got = {} THEN fphase' = "halt" /\ UNCHANGED bitmap
                     ELSE fphase' = "run" /\ bitmap' = new_bitmap(m, q.b.reserved)
  /\ UNCHANGED regions

Allocate ==
  /\ fphase = "run" /\ bitmap.unused # {}
  /\ LET index == Min(bitmap.unused)
     IN  /\ bitmap' = [bitmap EXCEPT !.unused = @ \ {index}]
         /\ given' = given \cup {frame_address(bitmap.spans, index)}
  /\ UNCHANGED <<fphase, regions, boot>>

AllocateContiguous(n) ==
  /\ fphase = "run"
  /\ \E runs \in {free_runs(n)} :
       /\ runs # {}
       /\ bitmap' = [bitmap EXCEPT !.unused = @ \ {index_of(f) : f \in frame_run(Min(runs), n)}]
       /\ given' = given \cup frame_run(Min(runs), n)
  /\ UNCHANGED <<fphase, regions, boot>>

(* A caller returns a frame or a run of frames it holds.  A run stops at   *)
(* the first frame the allocator does not manage or believes to be free.   *)
DeallocateContiguous(base, n) ==
  /\ fphase = "run" /\ frame_run(base, n) \subseteq given
  /\ LET refused(f) == ~managed(bitmap.spans, f) \/ index_of(f) \in bitmap.unused
         freed == {f \in frame_run(base, n) : \A g \in frame_run(base, n) : g <= f => ~refused(g)}
     IN  /\ bitmap' = [bitmap EXCEPT !.unused = @ \cup {index_of(f) : f \in freed}]
         /\ given' = given \ freed
  /\ UNCHANGED <<fphase, regions, boot>>

FrInit ==
  /\ fphase = "loader" /\ regions = <<>> /\ given = {}
  /\ bitmap = [spans |-> <<>>, frames |-> 0, unused |-> {}]
  /\ boot = [ranges |-> <<>>, next |-> <<>>, current |-> 1, reserved |-> <<>>]

FrNext ==
  \/ Capture \/ Handover \/ Allocate
  \/ \E n \in RunLengths : BootAllocate(n) \/ AllocateContiguous(n)
  \/ \E n \in RunLengths, base \in given : DeallocateContiguous(base, n)

FrSpec == FrInit /\ [][FrNext]_fvars
-----------------------------------------------------------------------------
(* Frames that the allocator in charge takes to be free *)
free ==
  IF fphase = "run" THEN {frame_address(bitmap.spans, index) : index \in bitmap.unused}
  ELSE {f \in UNION {Frames(boot.ranges[i]) : i \in DOMAIN boot.ranges} :
          ~contains_frame(boot.reserved, f)}

Pool == INSTANCE FramePool WITH free <- free, given <- given

(* The two allocators together are one pool: no frame the boot code took   *)
(* is free after the handover, none that it left is lost, and none is      *)
(* given twice, whatever the shape of the memory map.                      *)
PoolRefined == Pool!Spec
=============================================================================
