------------------------------ MODULE Storage ------------------------------
(***************************************************************************)
(* The storage engine (src/crates/gax_storage_engine) over a block device  *)
(* with a write cache.  Each device call of format, mount and write_object *)
(* is a step, so that power may fail between any two; what the cache held  *)
(* then reaches the medium in part and in any order, and a block being     *)
(* written may end up torn, which its checksum reveals.  A device call may *)
(* also fail, and the engine goes on with the error.                       *)
(***************************************************************************)
EXTENDS Integers, FiniteSets, FiniteSetsExt

CONSTANTS TotalBlocks, MinBlocks, \* of the device; what format demands (128)
          EraseAlign,             \* erase_block_align (8)
          ReservedBlocks,         \* what mount sets aside (2 + 64)
          Sizes,                  \* payload sizes in blocks, 0 included
          MaxWrites, MaxFaults    \* bounds: generations, power failures and failed calls

ASSUME StorageAssumption ==
  TotalBlocks \in Nat \ {0, 1} /\ EraseAlign \in Nat \ {0} /\ ReservedBlocks \in Nat /\ Sizes \subseteq Nat

VARIABLES medium,     \* block -> content that survives a power failure
          cached,     \* block -> what was written to it since the last flush
          engine,     \* GaxStorageEngine in memory
          job,        \* the call in progress and its next device call
          committed,  \* generation of the last commit that was flushed
          objects,    \* headers that write_object returned, with what was written
          written,    \* the transactions whose superblock was handed to the device
          exposed,    \* an extent was laid over a superblock, or a mount trusted
                      \* a superblock that was still in the cache
          faults      \* power failures and failed device calls so far

svars == <<medium, cached, engine, job, committed, objects, written, exposed, faults>>

Blocks == 0..(TotalBlocks - 1)
SuperBlocks == {0, 1}                 \* SUPERBLOCK_0_OFFSET, SUPERBLOCK_1_OFFSET
Unwritten == [kind |-> "none"]
Zero == [kind |-> "zero"]
Torn == [kind |-> "torn"]
Super(g) == [kind |-> "super", generation |-> g]
Payload(g) == [kind |-> "payload", of |-> g]
Header(g) == [kind |-> "header", of |-> g]
NoJob == [at |-> "idle"]
Down == [up |-> FALSE]

read_block(b) == IF cached[b] = Unwritten THEN medium[b] ELSE cached[b]
clean == [b \in Blocks |-> Unwritten]

Fault == faults < MaxFaults /\ faults' = faults + 1

(* One device write, after which the call goes on; a device that refuses it *)
(* ends the call with an error.                                             *)
write_blocks(bs, c, next) ==
  \/ cached' = [b \in Blocks |-> IF b \in bs THEN c ELSE cached[b]] /\ job' = next
     /\ UNCHANGED faults
  \/ bs # {} /\ Fault /\ job' = NoJob /\ UNCHANGED cached
-----------------------------------------------------------------------------
(* SuperblockHeader::deserialize: magic and checksum *)
valid(c) == c.kind = "super"

(* The newer of the superblocks that deserialize *)
recover_active(sb) ==
  IF valid(sb[1]) /\ (~valid(sb[0]) \/ sb[1].generation > sb[0].generation) THEN 1 ELSE 0

recoverable(sb) == valid(sb[0]) \/ valid(sb[1])

(* ExtentAllocator::allocate_extent: the first aligned run of free blocks.  *)
(* The scan steps over an allocated block to the next aligned start.        *)
extent_starts(used, n) ==
  {s \in Blocks : s % EraseAlign = 0 /\ s + n <= TotalBlocks /\ (s..(s + n - 1)) \cap used = {}}

extent(used, n) == Min(extent_starts(used, n))..(Min(extent_starts(used, n)) + n - 1)

(* mount ignores that the reservation did not fit. *)
reserve(n) == IF extent_starts({}, n) = {} THEN {} ELSE extent({}, n)

opened(sb, used) ==
  [up |-> TRUE, index |-> recover_active(sb), generation |-> sb[recover_active(sb)].generation,
   used |-> used]
-----------------------------------------------------------------------------
(* format: both superblocks with generation 1, then a flush.  The extent   *)
(* allocator starts with every block free.                                 *)
Format ==
  /\ job = NoJob /\ ~engine.up /\ committed = 0 /\ TotalBlocks >= MinBlocks
  /\ write_blocks({0}, Super(1), [at |-> "format1"])
  /\ UNCHANGED <<medium, engine, committed, objects, written, exposed>>

Format1 ==
  /\ job.at = "format1" /\ write_blocks({1}, Super(1), [at |-> "formatted"])
  /\ UNCHANGED <<medium, engine, committed, objects, written, exposed>>

flushed == [b \in Blocks |-> read_block(b)]

Formatted ==
  /\ job.at = "formatted" /\ medium' = flushed /\ cached' = clean
  /\ engine' = opened([i \in SuperBlocks |-> Super(1)], {}) /\ committed' = 1 /\ job' = NoJob
  /\ UNCHANGED <<objects, written, exposed, faults>>

(* mount reads both superblocks and sets their blocks and the journal aside. *)
Mount ==
  /\ job = NoJob /\ ~engine.up
  /\ LET sb == [i \in SuperBlocks |-> read_block(i)]
     IN  /\ recoverable(sb)
         /\ engine' = opened(sb, reserve(ReservedBlocks))
         /\ committed' = opened(sb, {}).generation
         /\ exposed' = (exposed \/ \E i \in SuperBlocks : cached[i] # Unwritten)
  /\ UNCHANGED <<medium, cached, job, objects, written, faults>>

(* The owner drops the engine and the headers it was given. *)
Close ==
  /\ engine.up /\ job = NoJob /\ engine' = Down /\ objects' = {}
  /\ UNCHANGED <<medium, cached, job, committed, written, exposed, faults>>

(* write_object: allocate and write the payload, unless it is empty ...    *)
BeginWrite(n) ==
  /\ engine.up /\ job = NoJob /\ engine.generation <= MaxWrites
  /\ n > 0 => extent_starts(engine.used, n) # {}
  /\ LET ext == IF n = 0 THEN {} ELSE extent(engine.used, n)
     IN  /\ engine' = [engine EXCEPT !.used = @ \cup ext]
         /\ write_blocks(ext, Payload(engine.generation + 1), [at |-> "header", ext |-> ext])
         /\ exposed' = (exposed \/ ext \cap SuperBlocks # {})
  /\ UNCHANGED <<medium, committed, objects, written>>

(* ... then the header; without room for it the payload's extent stays      *)
(* allocated.                                                               *)
WriteHeader ==
  /\ job.at = "header"
  /\ IF extent_starts(engine.used, 1) = {}
     THEN job' = NoJob /\ UNCHANGED <<engine, cached, exposed, faults>>
     ELSE LET ext == extent(engine.used, 1)
          IN  /\ engine' = [engine EXCEPT !.used = @ \cup ext]
              /\ write_blocks(ext, Header(engine.generation + 1),
                              [at |-> "super", ext |-> job.ext, hdr |-> ext])
              /\ exposed' = (exposed \/ ext \cap SuperBlocks # {})
  /\ UNCHANGED <<medium, committed, objects, written>>

(* Mutant of commit_target: always the first superblock. *)
commit_target_first(e) == 0

(* commit_generation writes the superblock that is not the active one.      *)
commit_target(e) == IF e.index = 0 THEN 1 ELSE 0

transaction == [ext |-> job.ext, hdr |-> job.hdr, gen |-> engine.generation + 1]

WriteSuper ==
  /\ job.at = "super"
  /\ write_blocks({commit_target(engine)}, Super(engine.generation + 1),
                  [at |-> "flush", ext |-> job.ext, hdr |-> job.hdr])
  /\ written' = IF job' = NoJob THEN written ELSE written \cup {transaction}
  /\ UNCHANGED <<medium, engine, committed, objects, exposed>>

FlushCommit ==
  /\ job.at = "flush" /\ medium' = flushed /\ cached' = clean
  /\ engine' = [engine EXCEPT !.index = commit_target(engine), !.generation = @ + 1]
  /\ committed' = engine.generation + 1
  /\ objects' = objects \cup {transaction}
  /\ job' = NoJob /\ UNCHANGED <<written, exposed, faults>>

(* flush_cache fails: the call returns the error, the cache stays dirty and *)
(* the engine keeps the superblock it had.                                  *)
FlushFails ==
  /\ job.at \in {"formatted", "flush"} /\ Fault /\ job' = NoJob
  /\ UNCHANGED <<medium, cached, engine, committed, objects, written, exposed>>

(* Power fails: what was cached for a block is lost, kept or torn, and no  *)
(* order between the blocks is kept.                                       *)
Crash ==
  /\ Fault
  /\ \E kept \in SUBSET {b \in Blocks : cached[b] # Unwritten} : \E torn \in SUBSET kept :
       medium' = [b \in Blocks |-> IF b \in torn THEN Torn
                                  ELSE IF b \in kept THEN cached[b] ELSE medium[b]]
  /\ cached' = clean /\ engine' = Down /\ job' = NoJob /\ objects' = {}
  /\ UNCHANGED <<committed, written, exposed>>

SInit ==
  /\ medium = [b \in Blocks |-> Zero] /\ cached = clean
  /\ engine = Down /\ job = NoJob /\ committed = 0 /\ objects = {} /\ written = {} /\ exposed = FALSE
  /\ faults = 0

SNext ==
  \/ Format \/ Format1 \/ Formatted \/ Mount \/ Close \/ (\E n \in Sizes : BeginWrite(n))
  \/ WriteHeader \/ WriteSuper \/ FlushCommit \/ FlushFails \/ Crash

SSpec == SInit /\ [][SNext]_svars
-----------------------------------------------------------------------------
mounted(sb) == sb[recover_active(sb)].generation
on_medium == [i \in SuperBlocks |-> medium[i]]

(* Whatever a power failure leaves on the medium: a mount finds the last   *)
(* generation whose commit was flushed or the one being committed, never   *)
(* an older one, never none.  This is about the superblocks alone, and     *)
(* only while no extent was laid over one; an engine that comes from       *)
(* format does that with its first write, one that was mounted does not.   *)
RecoversCommitted ==
  committed > 0 /\ ~exposed /\ ~engine.up =>
    recoverable(on_medium) /\ mounted(on_medium) \in {committed, committed + 1}

(* gaxfs_specification.md: "Crash consistency is 100% guaranteed", data    *)
(* being flushed before the superblock that commits it.  After a power     *)
(* failure the generation a mount selects has its payload and its header   *)
(* on the medium, whole.                                                   *)
CommitsWhole ==
  ~exposed /\ ~engine.up /\ recoverable(on_medium) /\ mounted(on_medium) > 1 =>
    \E o \in written : /\ o.gen = mounted(on_medium)
                       /\ \A b \in o.ext : medium[b] = Payload(o.gen)
                       /\ \A b \in o.hdr : medium[b] = Header(o.gen)

(* What write_object acknowledged reads back as it was written, until the  *)
(* engine is closed or power fails.                                        *)
ObjectsReadBack ==
  engine.up =>
    \A o \in objects : (\A b \in o.ext : read_block(b) = Payload(o.gen))
                       /\ (\A b \in o.hdr : read_block(b) = Header(o.gen))
=============================================================================
