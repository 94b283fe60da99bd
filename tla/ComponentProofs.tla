--------------------------- MODULE ComponentProofs ---------------------------
(***************************************************************************)
(* Theorems about components that share no state: interrupt delivery, the  *)
(* storage engine and the packet ring of the network server.               *)
(***************************************************************************)
EXTENDS IrqDriver, Storage, PacketRing, TLAPS

(* The provers a leaf is tried with that names none *)
USE ZenonT(3), SMTT(30), Z3T(30)
-----------------------------------------------------------------------------
(* A mount after any number of power failures finds the last commit, for   *)
(* every size of volume and number of writes.  What has to be kept is that *)
(* one superblock holds the committed generation and has no write pending, *)
(* and that the other can only become newer.                               *)

EngineUp ==
  engine = [up |-> TRUE, index |-> engine.index, generation |-> committed, used |-> engine.used]

(* Before the first commit a superblock is blank, torn or the one format   *)
(* writes.                                                                 *)
Unformatted ==
  /\ committed = 0 /\ engine = Down
  /\ job.at \in {"idle", "format1", "formatted"}
  /\ \A i \in SuperBlocks : /\ medium[i] \in {Zero, Torn, Super(1)}
                            /\ cached[i] \in {Unwritten, Super(1)}
  /\ job.at \in {"format1", "formatted"} => cached[0] = Super(1)
  /\ job.at = "formatted" => cached[1] = Super(1)

(* Superblock a holds the committed generation and no write to it pends;   *)
(* on superblock t only the next generation is ever written.               *)
Holds(a, t) ==
  /\ medium[a] = Super(committed) /\ cached[a] = Unwritten
  /\ cached[t] \in {Unwritten, Super(committed + 1)}
  /\ valid(medium[t]) => /\ medium[t] = Super(medium[t].generation)
                         /\ medium[t].generation \in 1..(committed + 1)
  /\ job.at = "flush" => cached[t] = Super(committed + 1)
  /\ engine.up => EngineUp /\ engine.index = a /\ medium[t] # Super(committed + 1)

OneCommitted ==
  /\ committed \in Nat \ {0}
  /\ engine = Down \/ engine.up = TRUE
  /\ job.at \in {"idle", "header", "super", "flush"}
  /\ job.at # "idle" => engine.up
  /\ Holds(0, 1) \/ Holds(1, 0)

StorageInv ==
  /\ exposed \in BOOLEAN
  /\ ~exposed => Unformatted \/ OneCommitted
-----------------------------------------------------------------------------
(* What deserialize tells apart: only a superblock written whole is valid,  *)
(* and it carries the generation it was written with.                       *)
LEMMA Contents ==
  /\ ~valid(Zero) /\ ~valid(Torn) /\ ~valid(Unwritten)
  /\ \A g : valid(Super(g)) /\ Super(g).generation = g /\ Super(g) # Unwritten
BY DEF valid, Zero, Torn, Unwritten, Super

(* Both superblocks lie on the device. *)
LEMMA SuperBlocksExist == 0 \in Blocks /\ 1 \in Blocks
BY StorageAssumption DEF Blocks

(* A blank device satisfies the invariant. *)
LEMMA StorageInitially == SInit => StorageInv
<1>1. SUFFICES ASSUME SInit PROVE Unformatted
  BY DEF SInit, StorageInv
<1>2. \A i \in SuperBlocks : medium[i] = Zero /\ cached[i] = Unwritten
  BY <1>1, SuperBlocksExist DEF SInit, SuperBlocks, clean
<1>3. job.at = "idle" /\ committed = 0 /\ engine = Down
  BY <1>1 DEF SInit, NoJob
<1> QED BY <1>2, <1>3 DEF Unformatted

(* The steps of format write generation 1 to both superblocks before the    *)
(* flush that makes it the committed one.                                   *)
LEMMA FormatSteps ==
  ASSUME StorageInv, Format \/ Format1 \/ Formatted
  PROVE  StorageInv'
<1>1. CASE Format
  BY <1>1, SuperBlocksExist
  DEF Format, write_blocks, StorageInv, Unformatted, OneCommitted, SuperBlocks, NoJob
<1>2. CASE Format1
  BY <1>2, SuperBlocksExist
  DEF Format1, write_blocks, StorageInv, Unformatted, OneCommitted, SuperBlocks, NoJob
<1>3. CASE Formatted
  <2>1. SUFFICES ASSUME ~exposed PROVE OneCommitted'
    BY <1>3 DEF Formatted, StorageInv
  <2>2. cached[0] = Super(1) /\ cached[1] = Super(1)
    BY <1>3, <2>1 DEF Formatted, StorageInv, Unformatted, OneCommitted
  <2>3. medium'[0] = Super(1) /\ medium'[1] = Super(1)
    BY <1>3, <2>2, Contents, SuperBlocksExist DEF Formatted, flushed, read_block
  <2>4. cached'[0] = Unwritten /\ cached'[1] = Unwritten
    BY <1>3, SuperBlocksExist DEF Formatted, clean
  <2>5. engine' = [up |-> TRUE, index |-> 0, generation |-> 1, used |-> {}]
    <3> DEFINE sb == [i \in SuperBlocks |-> Super(1)]
    <3>1. sb[0] = Super(1) /\ sb[1] = Super(1)
      BY DEF SuperBlocks
    <3> HIDE DEF sb
    <3>2. recover_active(sb) = 0
      BY <3>1, Contents DEF recover_active
    <3>3. engine' = opened(sb, {})
      BY <1>3 DEF Formatted, sb
    <3> QED
      BY <3>1, <3>2, <3>3, Contents DEF opened
  <2>6. committed' = 1 /\ job'.at = "idle"
    BY <1>3 DEF Formatted, NoJob
  <2>7. Super(1) # Super(2)
    BY Contents
  <2>8. engine'.up = TRUE /\ engine'.index = 0 /\ EngineUp'
    BY <2>5, <2>6 DEF EngineUp
  <2>9. Holds(0, 1)'
    BY <2>3, <2>4, <2>6, <2>7, <2>8, Contents DEF Holds
  <2> QED
    BY <2>6, <2>8, <2>9 DEF OneCommitted
<1> QED BY <1>1, <1>2, <1>3

(* A mount takes the newer superblock; the other one is then older. *)
LEMMA MountStep ==
  ASSUME StorageInv, Mount
  PROVE  StorageInv'
<1> DEFINE sb == [i \in SuperBlocks |-> read_block(i)]
           r == recover_active(sb)
<1>1. SUFFICES ASSUME ~exposed, cached[0] = Unwritten, cached[1] = Unwritten
               PROVE  OneCommitted'
  BY DEF Mount, StorageInv, SuperBlocks
<1>2. sb[0] = medium[0] /\ sb[1] = medium[1]
  BY <1>1 DEF read_block, SuperBlocks
<1>3. engine' = [up |-> TRUE, index |-> r, generation |-> committed',
                 used |-> reserve(ReservedBlocks)]
      /\ committed' = sb[r].generation
  BY DEF Mount, opened
<1>4. valid(sb[0]) \/ valid(sb[1])
  BY DEF Mount, recoverable
<1>5. \A i \in SuperBlocks : valid(medium[i]) =>
        medium[i] = Super(medium[i].generation) /\ medium[i].generation \in Nat \ {0}
  <2>1. CASE Unformatted
    BY <2>1, Contents DEF Unformatted
  <2>2. CASE OneCommitted
    BY <2>2, Contents DEF OneCommitted, Holds, SuperBlocks
  <2> QED BY <1>1, <2>1, <2>2 DEF StorageInv
<1> HIDE DEF sb
<1>6. job'.at = "idle" /\ medium' = medium /\ cached' = cached
  BY DEF Mount, NoJob
<1>7. engine'.up = TRUE /\ EngineUp' /\ engine'.index = r
  BY <1>3 DEF EngineUp
<1>8. CASE r = 0
  <2>1. valid(medium[0]) /\ (valid(medium[1]) => medium[1].generation <= medium[0].generation)
    BY <1>2, <1>4, <1>5, <1>8 DEF recover_active, SuperBlocks
  <2>2. medium[0] = Super(committed') /\ committed' \in Nat \ {0}
    BY <1>2, <1>3, <1>5, <1>8, <2>1 DEF SuperBlocks
  <2>3. valid(medium[1]) => /\ medium[1] = Super(medium[1].generation)
                            /\ medium[1].generation \in 1..committed'
    BY <1>5, <2>1, <2>2, Contents DEF SuperBlocks
  <2>4. medium[1] # Super(committed' + 1)
    BY <2>2, <2>3, Contents
  <2>5. Holds(0, 1)'
    BY <1>1, <1>6, <1>7, <1>8, <2>2, <2>3, <2>4 DEF Holds
  <2> QED BY <1>6, <1>7, <2>2, <2>5 DEF OneCommitted
<1>9. CASE r = 1
  <2>1. valid(medium[1]) /\ (valid(medium[0]) => medium[0].generation <= medium[1].generation)
    BY <1>2, <1>5, <1>9 DEF recover_active, SuperBlocks
  <2>2. medium[1] = Super(committed') /\ committed' \in Nat \ {0}
    BY <1>2, <1>3, <1>5, <1>9, <2>1 DEF SuperBlocks
  <2>3. valid(medium[0]) => /\ medium[0] = Super(medium[0].generation)
                            /\ medium[0].generation \in 1..committed'
    BY <1>5, <2>1, <2>2, Contents DEF SuperBlocks
  <2>4. medium[0] # Super(committed' + 1)
    BY <2>2, <2>3, Contents
  <2>5. Holds(1, 0)'
    BY <1>1, <1>6, <1>7, <1>9, <2>2, <2>3, <2>4 DEF Holds
  <2> QED BY <1>6, <1>7, <2>2, <2>5 DEF OneCommitted
<1> QED BY <1>8, <1>9 DEF recover_active

(* Allocating an extent changes nothing of the engine but its used blocks.  *)
LEMMA UsedGrows ==
  ASSUME NEW i, NEW g, NEW u, NEW v
  PROVE  [[up |-> TRUE, index |-> i, generation |-> g, used |-> u] EXCEPT !.used = v]
         = [up |-> TRUE, index |-> i, generation |-> g, used |-> v]
<1>1. \A b : [[up |-> b, index |-> i, generation |-> g, used |-> u] EXCEPT !.used = v]
             = [up |-> b, index |-> i, generation |-> g, used |-> v]
  OBVIOUS
<1> QED BY <1>1

(* Payload and header writes touch no superblock unless that is recorded as *)
(* exposed, and leave the engine's view of the committed generation alone.  *)
LEMMA ObjectSteps ==
  ASSUME StorageInv, (\E n \in Sizes : BeginWrite(n)) \/ WriteHeader
  PROVE  StorageInv'
<1>1. SUFFICES ASSUME ~exposed, ~exposed' PROVE OneCommitted'
  BY DEF StorageInv, BeginWrite, WriteHeader
<1>2. OneCommitted /\ engine.up /\ EngineUp
  <2>1. engine.up \/ job.at = "header"
    BY DEF BeginWrite, WriteHeader
  <2>2. ~Unformatted
    BY <2>1 DEF Unformatted, Down
  <2>3. OneCommitted /\ engine.up
    BY <1>1, <2>1, <2>2 DEF StorageInv, OneCommitted
  <2> QED BY <2>3 DEF OneCommitted, Holds
<1>3. /\ medium' = medium /\ committed' = committed
      /\ cached'[0] = cached[0] /\ cached'[1] = cached[1]
      /\ job'.at \in {"idle", "header", "super"}
      /\ engine'.up = TRUE /\ engine'.index = engine.index /\ EngineUp'
  <2>1. ASSUME NEW n \in Sizes, BeginWrite(n) PROVE <1>3!:
    <3> DEFINE ext == IF n = 0 THEN {} ELSE extent(engine.used, n)
    <3>1. /\ engine' = [engine EXCEPT !.used = @ \cup ext] /\ 0 \notin ext /\ 1 \notin ext
          /\ write_blocks(ext, Payload(engine.generation + 1), [at |-> "header", ext |-> ext])
      BY <1>1, <2>1 DEF BeginWrite, SuperBlocks
    <3> HIDE DEF ext
    <3>2. engine'.up = TRUE /\ engine'.index = engine.index /\ EngineUp'
      <4>1. committed' = committed
        BY <2>1 DEF BeginWrite
      <4>2. engine' = [up |-> TRUE, index |-> engine.index, generation |-> committed,
                       used |-> engine.used \cup ext]
        BY <1>2, <3>1, UsedGrows DEF EngineUp
      <4> QED BY <4>1, <4>2 DEF EngineUp
    <3>3. /\ cached'[0] = cached[0] /\ cached'[1] = cached[1]
          /\ job'.at \in {"idle", "header", "super"}
      BY <3>1, SuperBlocksExist DEF write_blocks, NoJob
    <3> QED
      BY <2>1, <3>2, <3>3 DEF BeginWrite
  <2>2. ASSUME WriteHeader, extent_starts(engine.used, 1) # {} PROVE <1>3!:
    <3> DEFINE ext == extent(engine.used, 1)
    <3>1. /\ engine' = [engine EXCEPT !.used = @ \cup ext] /\ 0 \notin ext /\ 1 \notin ext
          /\ write_blocks(ext, Header(engine.generation + 1),
                          [at |-> "super", ext |-> job.ext, hdr |-> ext])
      BY <1>1, <2>2 DEF WriteHeader, SuperBlocks
    <3> HIDE DEF ext
    <3>2. engine'.up = TRUE /\ engine'.index = engine.index /\ EngineUp'
      <4>1. committed' = committed
        BY <2>2 DEF WriteHeader
      <4>2. engine' = [up |-> TRUE, index |-> engine.index, generation |-> committed,
                       used |-> engine.used \cup ext]
        BY <1>2, <3>1, UsedGrows DEF EngineUp
      <4> QED BY <4>1, <4>2 DEF EngineUp
    <3>3. /\ cached'[0] = cached[0] /\ cached'[1] = cached[1]
          /\ job'.at \in {"idle", "header", "super"}
      BY <3>1, SuperBlocksExist DEF write_blocks, NoJob
    <3> QED
      BY <2>2, <3>2, <3>3 DEF WriteHeader
  <2>3. ASSUME WriteHeader, extent_starts(engine.used, 1) = {} PROVE <1>3!:
    BY <1>2, <2>3 DEF WriteHeader, NoJob, EngineUp
  <2> QED BY <2>1, <2>2, <2>3
<1> QED
  BY <1>2, <1>3 DEF OneCommitted, Holds

(* The commit goes to the superblock that does not hold the committed       *)
(* generation, and becomes the committed one when the flush returns.        *)
LEMMA CommitSteps ==
  ASSUME StorageInv, WriteSuper \/ FlushCommit \/ FlushFails
  PROVE  StorageInv'
<1>1. CASE WriteSuper
  <2>1. SUFFICES ASSUME ~exposed PROVE OneCommitted'
    BY <1>1 DEF WriteSuper, StorageInv
  <2>2. OneCommitted /\ engine.up
    BY <1>1, <2>1 DEF WriteSuper, StorageInv, Unformatted, OneCommitted
  <2>3. engine.generation = committed
    BY <2>2 DEF OneCommitted, Holds, EngineUp
  <2>4. /\ UNCHANGED <<medium, engine, committed>>
        /\ \/ /\ job'.at = "flush"
              /\ cached'[commit_target(engine)] = Super(committed + 1)
              /\ cached'[1 - commit_target(engine)] = cached[1 - commit_target(engine)]
           \/ job'.at = "idle" /\ cached' = cached
    BY <1>1, <2>3, SuperBlocksExist DEF WriteSuper, write_blocks, commit_target, NoJob
  <2> QED
    BY <2>2, <2>4 DEF OneCommitted, Holds, EngineUp, commit_target
<1>2. CASE FlushCommit
  <2>1. SUFFICES ASSUME ~exposed PROVE OneCommitted'
    BY <1>2 DEF FlushCommit, StorageInv
  <2>2. OneCommitted /\ engine.up /\ EngineUp /\ committed \in Nat \ {0}
    BY <1>2, <2>1 DEF FlushCommit, StorageInv, Unformatted, OneCommitted, Holds
  <2>3. committed' = committed + 1 /\ job'.at = "idle"
        /\ cached'[0] = Unwritten /\ cached'[1] = Unwritten
    BY <1>2, <2>2, SuperBlocksExist DEF FlushCommit, EngineUp, NoJob, clean
  <2>4. engine'.up = TRUE /\ engine'.index = commit_target(engine) /\ EngineUp'
    BY <1>2, <2>2, <2>3 DEF FlushCommit, EngineUp
  <2>5. medium'[0] = read_block(0) /\ medium'[1] = read_block(1)
    BY <1>2, SuperBlocksExist DEF FlushCommit, flushed
  <2>6. Super(committed) # Super(committed + 2)
    BY <2>2, Contents
  <2>7. ASSUME NEW a, NEW t, Holds(a, t), medium'[a] = read_block(a), medium'[t] = read_block(t),
               commit_target(engine) = t, cached'[a] = Unwritten, cached'[t] = Unwritten
        PROVE  Holds(t, a)'
    <3>1. medium'[a] = Super(committed) /\ medium'[t] = Super(committed + 1)
      BY <1>2, <2>7, Contents DEF Holds, read_block, FlushCommit
    <3> QED
      BY <2>2, <2>3, <2>4, <2>6, <2>7, <3>1, Contents DEF Holds
  <2>8. CASE Holds(0, 1)
    <3>1. commit_target(engine) = 1
      BY <2>2, <2>8 DEF Holds, commit_target
    <3>2. Holds(1, 0)'
      BY <2>3, <2>5, <2>7, <2>8, <3>1
    <3> QED BY <2>2, <2>3, <2>4, <3>2 DEF OneCommitted
  <2>9. CASE Holds(1, 0)
    <3>1. commit_target(engine) = 0
      BY <2>2, <2>9 DEF Holds, commit_target
    <3>2. Holds(0, 1)'
      BY <2>3, <2>5, <2>7, <2>9, <3>1
    <3> QED BY <2>2, <2>3, <2>4, <3>2 DEF OneCommitted
  <2> QED BY <2>2, <2>8, <2>9 DEF OneCommitted
<1>3. CASE FlushFails
  BY <1>3 DEF FlushFails, StorageInv, Unformatted, OneCommitted, Holds, EngineUp, NoJob
<1> QED BY <1>1, <1>2, <1>3

(* Dropping the engine or losing power forgets no flushed superblock: the   *)
(* one with the committed generation has no write pending, and the other    *)
(* can at worst tear or come out as the generation being committed.         *)
LEMMA LossSteps ==
  ASSUME StorageInv, Close \/ Crash
  PROVE  StorageInv'
<1>1. SUFFICES ASSUME ~exposed PROVE Unformatted' \/ OneCommitted'
  BY DEF StorageInv, Close, Crash
<1>2. engine' = Down /\ job'.at = "idle" /\ committed' = committed /\ engine'.up = FALSE
  BY DEF Close, Crash, Down, NoJob
<1>3. \A i \in SuperBlocks : /\ cached'[i] \in {Unwritten, cached[i]}
                             /\ \/ medium'[i] = medium[i]
                                \/ cached[i] # Unwritten /\ medium'[i] \in {Torn, cached[i]}
  <2>1. CASE Close
    BY <2>1, SuperBlocksExist DEF Close, SuperBlocks
  <2>2. CASE Crash
    BY ZenonT(30), <2>2, SuperBlocksExist DEF Crash, SuperBlocks, clean
  <2> QED BY <2>1, <2>2
<1>4. CASE Unformatted
  BY <1>2, <1>3, <1>4 DEF Unformatted
<1>5. CASE OneCommitted
  <2>1. ASSUME NEW a \in SuperBlocks, NEW t \in SuperBlocks, Holds(a, t) PROVE Holds(a, t)'
    <3>1. medium'[a] = Super(committed) /\ cached'[a] = Unwritten
      BY <1>3, <2>1 DEF Holds
    <3>2. cached'[t] \in {Unwritten, Super(committed + 1)}
      BY <1>3, <2>1 DEF Holds
    <3>3. valid(medium'[t]) => /\ medium'[t] = Super(medium'[t].generation)
                               /\ medium'[t].generation \in 1..(committed + 1)
      BY <1>3, <1>5, <2>1, Contents DEF Holds, OneCommitted
    <3> QED BY <1>2, <3>1, <3>2, <3>3 DEF Holds
  <2> QED BY <1>2, <1>5, <2>1 DEF OneCommitted, SuperBlocks
<1> QED BY <1>1, <1>4, <1>5 DEF StorageInv

(* Every step of the engine, the device and the power supply keeps it. *)
LEMMA StorageStep == StorageInv /\ [SNext]_svars => StorageInv'
<1>1. CASE UNCHANGED svars
  BY ZenonT(30), <1>1 DEF svars, StorageInv, Unformatted, OneCommitted, Holds, EngineUp
<1> QED
  BY <1>1, FormatSteps, MountStep, ObjectSteps, CommitSteps, LossSteps DEF SNext

(* The invariant says where the committed generation is; the mount's choice *)
(* of the newer superblock then finds it or the one being committed.        *)
LEMMA InvRecovers == StorageInv => RecoversCommitted
<1> DEFINE sb == on_medium
<1>1. SUFFICES ASSUME StorageInv, committed > 0, ~exposed, ~engine.up
               PROVE  recoverable(sb) /\ mounted(sb) \in {committed, committed + 1}
  BY DEF RecoversCommitted
<1>2. sb[0] = medium[0] /\ sb[1] = medium[1]
  BY DEF SuperBlocks, on_medium
<1>3. OneCommitted
  BY <1>1 DEF StorageInv, Unformatted
<1> HIDE DEF sb
<1>4. CASE Holds(0, 1)
  BY <1>2, <1>3, <1>4, Contents DEF Holds, OneCommitted, recoverable, recover_active, mounted
<1>5. CASE Holds(1, 0)
  BY <1>2, <1>3, <1>5, Contents DEF Holds, OneCommitted, recoverable, recover_active, mounted
<1> QED BY <1>3, <1>4, <1>5 DEF OneCommitted

(* However often power fails, and whatever the write cache kept, lost or    *)
(* tore, a mount finds the last generation commit_generation flushed or the *)
(* one it was committing, on a volume of any size, as long as no extent was *)
(* laid over a superblock and no mount read a superblock from the cache.    *)
THEOREM CommitSurvives == SSpec => []RecoversCommitted
BY StorageInitially, StorageStep, InvRecovers, PTL DEF SSpec
-----------------------------------------------------------------------------
(* The packet ring is a queue, for every capacity and every index range    *)
(* the capacity divides.  First division with remainder, as the index      *)
(* arithmetic of ring.rs uses it.                                          *)

(* A number is its quotient and its remainder put together. *)
LEMMA Division ==
  ASSUME NEW a \in Nat, NEW n \in Nat \ {0}
  PROVE  a \div n \in Nat /\ a % n \in 0..(n - 1) /\ a = n * (a \div n) + (a % n)
OBVIOUS

(* ...and the remainder is the only number below the divisor for which it is. *)
LEMMA Remainder ==
  ASSUME NEW n \in Nat \ {0}, NEW q \in Nat, NEW r \in 0..(n - 1)
  PROVE  (n * q + r) % n = r
OBVIOUS

(* Two numbers less than a divisor apart have different remainders. *)
LEMMA Apart ==
  ASSUME NEW n \in Nat \ {0}, NEW a \in Nat, NEW d \in 1..(n - 1)
  PROVE  (a + d) % n # a % n
<1> DEFINE q == a \div n
           p == (a + d) \div n
           r == a % n
           s == (a + d) % n
<1>1. q \in Nat /\ r \in 0..(n - 1) /\ a = n * q + r
  BY Division
<1>2. p \in Nat /\ s \in 0..(n - 1) /\ a + d = n * p + s
  <2>1. a + d \in Nat
    OBVIOUS
  <2> QED
    BY <2>1, Division
<1> HIDE DEF q, p, r, s
<1>3. ASSUME s = r PROVE FALSE
  <2>1. n * p - n * q = d
    BY <1>1, <1>2, <1>3
  <2>2. n * (p - q) = d
    BY <1>1, <1>2, <2>1
  <2>3. p - q >= 1 => n * (p - q) >= n
    BY <1>1, <1>2
  <2>4. p - q <= 0 => n * (p - q) <= 0
    BY <1>1, <1>2
  <2> QED
    BY <1>1, <1>2, <2>2, <2>3, <2>4
<1> QED
  BY <1>3 DEF r, s

(* The slot of an index is that of the free-running count it wraps. *)
LEMMA SlotOfWrapped ==
  ASSUME NEW x \in Nat
  PROVE  slot_of(x % IndexRange) = x % RingCapacity
<1> DEFINE m == IndexRange \div RingCapacity
           q == x \div IndexRange
           r == x % IndexRange
           p == r \div RingCapacity
           s == r % RingCapacity
<1>1. m \in Nat /\ IndexRange = RingCapacity * m
  <2>1. IndexRange \in Nat /\ RingCapacity \in Nat \ {0} /\ IndexRange % RingCapacity = 0
    BY RingAssumption
  <2>2. m \in Nat /\ IndexRange = RingCapacity * m + (IndexRange % RingCapacity)
    BY <2>1, Division
  <2> HIDE DEF m
  <2> QED
    BY <2>1, <2>2
<1>2. q \in Nat /\ r \in Nat /\ x = IndexRange * q + r
  BY RingAssumption, Division
<1>3. p \in Nat /\ s \in 0..(RingCapacity - 1) /\ r = RingCapacity * p + s
  BY <1>2, RingAssumption, Division
<1> HIDE DEF m, q, r, p, s
<1>4. IndexRange * q = RingCapacity * (m * q)
  BY <1>1, <1>2, RingAssumption
<1>5. m * q \in Nat
  BY <1>1, <1>2
<1>6. x = RingCapacity * (m * q + p) + s
  <2>1. \A k, l, c \in Nat : c * (k + l) = c * k + c * l
    OBVIOUS
  <2>2. RingCapacity * (m * q + p) = RingCapacity * (m * q) + RingCapacity * p
    BY <2>1, <1>3, <1>5, RingAssumption
  <2> QED
    BY <1>2, <1>3, <1>4, <1>5, <2>2, RingAssumption
<1>7. m * q + p \in Nat
  BY <1>3, <1>5
<1>8. x % RingCapacity = s
  BY <1>3, <1>6, <1>7, Remainder, RingAssumption
<1> QED
  BY <1>8 DEF slot_of, r, s
-----------------------------------------------------------------------------
(* The packet ring.  Len(queued) is the distance of the indices, the slots *)
(* queued are those of the counts from the consumer's on, and what a side  *)
(* loaded of its own index is still there when it stores.                  *)
RingInv ==
  /\ ring \in [producer_index : 0..(IndexRange - 1), consumer_index : 0..(IndexRange - 1)]
  /\ queued \in Seq(Nat)
  /\ Len(queued) = wrapping_sub(ring.producer_index, ring.consumer_index) /\ Len(queued) <= RingCapacity
  /\ \A k \in 1..Len(queued) : queued[k] = (ring.consumer_index + k - 1) % RingCapacity
  /\ taken[1] = taken[2]
  /\ pushing # <<>> => pushing[1] = ring.producer_index /\ Len(queued) < RingCapacity
  /\ popping # <<>> => popping[1] = ring.consumer_index /\ queued # <<>>

(* The wrapping operations on indices, without their remainders *)
LEMMA Wrapping ==
  ASSUME NEW a \in 0..(IndexRange - 1), NEW b \in 0..(IndexRange - 1)
  PROVE  /\ wrapping_sub(a, b) = IF a >= b THEN a - b ELSE a + IndexRange - b
         /\ wrapping_next(a) = IF a + 1 = IndexRange THEN 0 ELSE a + 1
<1>1. IndexRange \in Nat \ {0}
  BY RingAssumption
<1>2. \A x \in Nat : x < IndexRange => x % IndexRange = x
  BY <1>1
<1>3. \A x \in Nat : IndexRange <= x /\ x < 2 * IndexRange => x % IndexRange = x - IndexRange
  BY <1>1
<1>4. wrapping_sub(a, b) = IF a >= b THEN a - b ELSE a + IndexRange - b
  <2>1. CASE a >= b
    <3>1. a + IndexRange - b \in Nat /\ IndexRange <= a + IndexRange - b /\ a + IndexRange - b < 2 * IndexRange
      BY <1>1, <2>1
    <3> QED
      BY <1>1, <1>3, <2>1, <3>1 DEF wrapping_sub
  <2>2. CASE ~(a >= b)
    <3>1. a + IndexRange - b \in Nat /\ a + IndexRange - b < IndexRange
      BY <1>1, <2>2
    <3> QED
      BY <1>1, <1>2, <2>2, <3>1 DEF wrapping_sub
  <2> QED
    BY <2>1, <2>2
<1>5. wrapping_next(a) = IF a + 1 = IndexRange THEN 0 ELSE a + 1
  BY <1>1, <1>2, <1>3 DEF wrapping_next
<1> QED
  BY <1>4, <1>5

(* A push lengthens the distance of the indices by one unless they are     *)
(* about to meet, a pop shortens it unless they have met.                  *)
LEMMA Distance ==
  ASSUME NEW a \in 0..(IndexRange - 1), NEW b \in 0..(IndexRange - 1)
  PROVE  /\ wrapping_sub(a, b) < RingCapacity => wrapping_sub(wrapping_next(a), b) = wrapping_sub(a, b) + 1
         /\ wrapping_sub(a, b) >= 1 => wrapping_sub(a, wrapping_next(b)) = wrapping_sub(a, b) - 1
<1>1. IndexRange \in Nat \ {0} /\ RingCapacity \in Nat \ {0} /\ RingCapacity < IndexRange
  BY RingAssumption
<1> DEFINE c == wrapping_next(a)
           d == wrapping_next(b)
<1>2. c = IF a + 1 = IndexRange THEN 0 ELSE a + 1
  BY Wrapping
<1>3. d = IF b + 1 = IndexRange THEN 0 ELSE b + 1
  BY Wrapping
<1> HIDE DEF c, d
<1>4. c \in 0..(IndexRange - 1) /\ d \in 0..(IndexRange - 1)
  BY <1>1, <1>2, <1>3
<1>5. wrapping_sub(a, b) = IF a >= b THEN a - b ELSE a + IndexRange - b
  BY Wrapping
<1>6. wrapping_sub(c, b) = IF c >= b THEN c - b ELSE c + IndexRange - b
  BY <1>4, Wrapping
<1>7. wrapping_sub(a, d) = IF a >= d THEN a - d ELSE a + IndexRange - d
  BY <1>4, Wrapping
<1>8. wrapping_sub(a, b) < RingCapacity => wrapping_sub(c, b) = wrapping_sub(a, b) + 1
  BY <1>1, <1>2, <1>5, <1>6
<1>9. wrapping_sub(a, b) >= 1 => wrapping_sub(a, d) = wrapping_sub(a, b) - 1
  BY <1>1, <1>3, <1>5, <1>7
<1> QED
  BY <1>8, <1>9 DEF c, d

(* Where the distance of the indices is n, the producer's slot is n slots  *)
(* after the consumer's.                                                   *)
LEMMA ProducerSlot ==
  ASSUME NEW a \in 0..(IndexRange - 1), NEW b \in 0..(IndexRange - 1)
  PROVE  slot_of(a) = (b + wrapping_sub(a, b)) % RingCapacity
<1>1. IndexRange \in Nat \ {0} /\ RingCapacity \in Nat \ {0}
  BY RingAssumption
<1> DEFINE n == wrapping_sub(a, b)
<1>2. n = IF a >= b THEN a - b ELSE a + IndexRange - b
  BY Wrapping
<1> HIDE DEF n
<1>3. b + n \in Nat /\ (b + n = a \/ b + n = a + IndexRange)
  BY <1>1, <1>2
<1>4. (b + n) % IndexRange = a
  BY <1>1, <1>3
<1>5. slot_of((b + n) % IndexRange) = (b + n) % RingCapacity
  BY <1>3, SlotOfWrapped
<1> QED
  BY <1>4, <1>5 DEF n

(* A wrap of the consumer's index does not move the slots. *)
LEMMA NextSlot ==
  ASSUME NEW b \in 0..(IndexRange - 1), NEW k \in Nat, k < IndexRange
  PROVE  (wrapping_next(b) + k) % RingCapacity = (b + k + 1) % RingCapacity
<1>1. IndexRange \in Nat \ {0} /\ RingCapacity \in Nat \ {0}
  BY RingAssumption
<1>2. wrapping_next(b) = IF b + 1 = IndexRange THEN 0 ELSE b + 1
  BY Wrapping
<1>3. CASE b + 1 # IndexRange
  BY <1>1, <1>2, <1>3
<1>4. CASE b + 1 = IndexRange
  <2>1. b + k + 1 \in Nat /\ (b + k + 1) % IndexRange = k /\ k % IndexRange = k
    BY <1>1, <1>4
  <2>2. slot_of(k) = (b + k + 1) % RingCapacity
    BY <2>1, SlotOfWrapped
  <2>3. wrapping_next(b) + k = k
    BY <1>2, <1>4
  <2> QED
    BY <2>2, <2>3 DEF slot_of
<1> QED
  BY <1>3, <1>4

(* Every step of either side keeps the ring's invariant. *)
LEMMA RingStep ==
  ASSUME RingInv, [RingNext]_rvars
  PROVE  RingInv'
<1> DEFINE P == ring.producer_index
           C == ring.consumer_index
<1>1. IndexRange \in Nat \ {0} /\ RingCapacity \in Nat \ {0} /\ RingCapacity < IndexRange
  BY RingAssumption
<1>2. P \in 0..(IndexRange - 1) /\ C \in 0..(IndexRange - 1) /\ queued \in Seq(Nat) /\ Len(queued) \in Nat
  BY DEF RingInv
<1>3. CASE LoadForPush
  <2>1. ring' = ring /\ queued' = queued /\ taken' = taken /\ popping' = popping
    BY <1>3 DEF LoadForPush
  <2>2. pushing'[1] = P
    BY <1>3 DEF LoadForPush
  <2>3. Len(queued) < RingCapacity
    BY <1>1, <1>2, <1>3 DEF LoadForPush, is_full, RingInv
  <2> QED
    BY <2>1, <2>2, <2>3 DEF RingInv
<1>4. CASE LoadForPop
  <2>1. ring' = ring /\ queued' = queued /\ taken' = taken /\ pushing' = pushing
    BY <1>4 DEF LoadForPop
  <2>2. popping'[1] = C /\ P # C
    BY <1>4 DEF LoadForPop
  <2>3. Len(queued) # 0
    <3>1. wrapping_sub(P, C) = IF P >= C THEN P - C ELSE P + IndexRange - C
      BY <1>2, Wrapping
    <3>2. Len(queued) = wrapping_sub(P, C)
      BY DEF RingInv
    <3> QED
      BY <1>1, <1>2, <2>2, <3>1, <3>2
  <2>4. queued # <<>>
    BY <2>3, <1>2
  <2> QED
    BY <2>1, <2>2, <2>4 DEF RingInv
<1>5. CASE push_slot
  <2>1. pushing[1] = P /\ Len(queued) < RingCapacity /\ Len(queued) = wrapping_sub(P, C)
    BY <1>5 DEF push_slot, RingInv
  <2>2. ring' = [ring EXCEPT !.producer_index = wrapping_next(P)]
    BY <1>5, <2>1 DEF push_slot
  <2>3. wrapping_next(P) \in 0..(IndexRange - 1) /\ wrapping_next(P) = IF P + 1 = IndexRange THEN 0 ELSE P + 1
    <3>1. wrapping_next(P) = IF P + 1 = IndexRange THEN 0 ELSE P + 1
      BY <1>2, Wrapping
    <3> QED
      BY <1>1, <1>2, <3>1
  <2>4. ring' \in [producer_index : 0..(IndexRange - 1), consumer_index : 0..(IndexRange - 1)]
        /\ ring'.producer_index = wrapping_next(P) /\ ring'.consumer_index = C
    BY <2>2, <2>3 DEF RingInv
  <2>5. slot_of(P) \in Nat
    BY <1>1, <1>2 DEF slot_of
  <2>6. queued' = Append(queued, slot_of(P))
    BY <1>5, <2>1 DEF push_slot
  <2>7. queued' \in Seq(Nat) /\ Len(queued') = Len(queued) + 1 /\ queued'[Len(queued) + 1] = slot_of(P)
        /\ \A k \in 1..Len(queued) : queued'[k] = queued[k]
    BY <1>2, <2>5, <2>6
  <2>8. wrapping_sub(wrapping_next(P), C) = wrapping_sub(P, C) + 1
    BY <1>1, <1>2, <2>1, Distance
  <2>9. slot_of(P) = (C + Len(queued)) % RingCapacity
    BY <1>2, <2>1, ProducerSlot
  <2>10. \A k \in 1..Len(queued') : queued'[k] = (C + k - 1) % RingCapacity
    <3> SUFFICES ASSUME NEW k \in 1..Len(queued') PROVE queued'[k] = (C + k - 1) % RingCapacity
      OBVIOUS
    <3>1. CASE k = Len(queued) + 1
      <4>1. C + k - 1 = C + Len(queued)
        BY <1>2, <3>1
      <4> QED
        BY <2>7, <2>9, <3>1, <4>1
    <3>2. CASE k # Len(queued) + 1
      <4>1. k \in 1..Len(queued)
        BY <1>2, <2>7, <3>2
      <4> QED
        BY <2>7, <4>1 DEF RingInv
    <3> QED
      BY <3>1, <3>2
  <2>11. queued' # <<>>
    BY <1>2, <2>7
  <2>12. pushing' = <<>> /\ popping' = popping /\ taken' = taken
    BY <1>5 DEF push_slot
  <2>13. Len(queued') = wrapping_sub(ring'.producer_index, ring'.consumer_index) /\ Len(queued') <= RingCapacity
    BY <1>1, <1>2, <2>1, <2>4, <2>7, <2>8
  <2> QED
    BY <2>4, <2>7, <2>10, <2>11, <2>12, <2>13 DEF RingInv
<1>6. CASE pop_slot
  <2>1. popping[1] = C /\ queued # <<>> /\ Len(queued) = wrapping_sub(P, C) /\ Len(queued) <= RingCapacity
    BY <1>6 DEF pop_slot, RingInv
  <2>2. ring' = [ring EXCEPT !.consumer_index = wrapping_next(C)]
    BY <1>6, <2>1 DEF pop_slot
  <2>3. wrapping_next(C) \in 0..(IndexRange - 1) /\ wrapping_next(C) = IF C + 1 = IndexRange THEN 0 ELSE C + 1
    <3>1. wrapping_next(C) = IF C + 1 = IndexRange THEN 0 ELSE C + 1
      BY <1>2, Wrapping
    <3> QED
      BY <1>1, <1>2, <3>1
  <2>4. ring' \in [producer_index : 0..(IndexRange - 1), consumer_index : 0..(IndexRange - 1)]
        /\ ring'.consumer_index = wrapping_next(C) /\ ring'.producer_index = P
    BY <2>2, <2>3 DEF RingInv
  <2>5. queued' = Tail(queued) /\ pushing' = pushing /\ popping' = <<>> /\ taken' = <<slot_of(C), Head(queued)>>
    BY <1>6, <2>1 DEF pop_slot
  <2>6. Len(queued) >= 1 /\ Head(queued) = queued[1]
    BY <1>2, <2>1
  <2>7. queued' \in Seq(Nat) /\ Len(queued') = Len(queued) - 1
        /\ \A k \in 1..(Len(queued) - 1) : queued'[k] = queued[k + 1]
    BY <1>2, <2>1, <2>5
  <2>8. wrapping_sub(P, wrapping_next(C)) = wrapping_sub(P, C) - 1
    BY <1>2, <2>1, <2>6, Distance
  <2>9. taken'[1] = taken'[2]
    <3>1. queued[1] = (C + 1 - 1) % RingCapacity
      BY <1>2, <2>6 DEF RingInv
    <3>2. C + 1 - 1 = C
      BY <1>2
    <3> QED
      BY <2>5, <2>6, <3>1, <3>2 DEF slot_of
  <2>10. \A k \in 1..Len(queued') : queued'[k] = (wrapping_next(C) + k - 1) % RingCapacity
    <3> SUFFICES ASSUME NEW k \in 1..Len(queued') PROVE queued'[k] = (wrapping_next(C) + k - 1) % RingCapacity
      OBVIOUS
    <3>1. k \in 1..(Len(queued) - 1) /\ k + 1 \in 1..Len(queued)
      <4>1. Len(queued) \in Nat /\ k \in 1..(Len(queued) - 1)
        BY <1>2, <2>7
      <4> QED
        BY <4>1
    <3>2. queued'[k] = (C + (k + 1) - 1) % RingCapacity
      BY <2>7, <3>1 DEF RingInv
    <3>3. k - 1 \in Nat /\ k - 1 < IndexRange
      BY <1>1, <1>2, <2>1, <3>1
    <3>4. (wrapping_next(C) + (k - 1)) % RingCapacity = (C + (k - 1) + 1) % RingCapacity
      BY <1>2, <3>3, NextSlot
    <3>5. C + (k + 1) - 1 = C + (k - 1) + 1 /\ wrapping_next(C) + (k - 1) = wrapping_next(C) + k - 1
      BY <1>2, <2>3, <3>1
    <3> QED
      BY <3>2, <3>4, <3>5
  <2>11. Len(queued') = wrapping_sub(ring'.producer_index, ring'.consumer_index) /\ Len(queued') <= RingCapacity
         /\ (Len(queued) < RingCapacity => Len(queued') < RingCapacity)
    BY <1>1, <1>2, <2>1, <2>4, <2>7, <2>8
  <2> QED
    BY <2>4, <2>5, <2>7, <2>9, <2>10, <2>11 DEF RingInv
<1>7. CASE UNCHANGED rvars
  BY <1>7 DEF RingInv, rvars
<1> QED
  BY <1>3, <1>4, <1>5, <1>6, <1>7 DEF RingNext

(* push_slot and pop_slot make the ring a queue, for every capacity and    *)
(* every index width the capacity divides: RingIsQueue holds in every      *)
(* reachable state.                                                        *)
THEOREM RingQueues == RingSpec => []RingIsQueue
<1>1. RingInit => RingInv
  <2> SUFFICES ASSUME RingInit PROVE RingInv
    OBVIOUS
  <2>1. IndexRange \in Nat \ {0} /\ RingCapacity \in Nat \ {0}
    BY RingAssumption
  <2>2. wrapping_sub(0, 0) = IF 0 >= 0 THEN 0 - 0 ELSE 0 + IndexRange - 0
    BY <2>1, Wrapping
  <2> QED
    BY <2>1, <2>2 DEF RingInit, RingInv
<1>2. RingInv /\ [RingNext]_rvars => RingInv'
  BY RingStep
<1>3. RingInv => RingIsQueue
  <2> SUFFICES ASSUME RingInv PROVE RingIsQueue
    OBVIOUS
  <2> DEFINE P == ring.producer_index
             C == ring.consumer_index
  <2>1. IndexRange \in Nat \ {0} /\ RingCapacity \in Nat \ {0}
    BY RingAssumption
  <2>2. P \in 0..(IndexRange - 1) /\ C \in 0..(IndexRange - 1) /\ queued \in Seq(Nat) /\ Len(queued) \in Nat
    BY DEF RingInv
  <2>3. ASSUME pushing # <<>>, NEW k \in DOMAIN queued PROVE queued[k] # slot_of(pushing[1])
    <3>1. k \in 1..Len(queued) /\ pushing[1] = P /\ Len(queued) < RingCapacity
      BY <2>2, <2>3 DEF RingInv
    <3>2. queued[k] = (C + k - 1) % RingCapacity
      BY <3>1 DEF RingInv
    <3>3. slot_of(P) = (C + Len(queued)) % RingCapacity
      BY ZenonT(30), <2>2, ProducerSlot DEF RingInv
    <3>4. C + k - 1 \in Nat /\ Len(queued) - k + 1 \in 1..(RingCapacity - 1)
          /\ C + Len(queued) = (C + k - 1) + (Len(queued) - k + 1)
      <4>1. \A c, n \in Nat : n < RingCapacity => \A j \in 1..n :
              /\ c + j - 1 \in Nat /\ n - j + 1 \in 1..(RingCapacity - 1)
              /\ c + n = (c + j - 1) + (n - j + 1)
        BY <2>1
      <4>2. C \in Nat /\ Len(queued) \in Nat
        BY <2>1, <2>2
      <4> QED
        BY <3>1, <4>1, <4>2
    <3>5. (C + k - 1 + (Len(queued) - k + 1)) % RingCapacity # (C + k - 1) % RingCapacity
      BY <2>1, <3>4, Apart
    <3> QED
      BY <3>1, <3>2, <3>3, <3>4, <3>5
  <2> QED
    BY <2>3 DEF RingInv, RingIsQueue
<1> QED
  BY <1>1, <1>2, <1>3, PTL DEF RingSpec
-----------------------------------------------------------------------------
(* Controller and interrupt object agree, for any processes, drivers and   *)
(* objects, and any choice of trigger modes.  The argument needs who owns  *)
(* the vector slot: with two live objects, or with a handle to a dead one, *)
(* a system call could mask the line behind an armed object.               *)

Slot == [active : BOOLEAN, generation : Nat, interrupt : Ids \cup {None},
         notification : Holders \cup {None}, pending : {0, 1}]
Object == [live : BOOLEAN, generation : Nat, bound : Holders \cup {None},
           refs : Nat, masked : BOOLEAN, in_flight : BOOLEAN]

IrqTypes ==
  /\ slot \in Slot /\ objs \in [Ids -> Object]
  /\ caps \subseteq Holders \X Ids
  /\ masked \in BOOLEAN

(* S has n members: it can be numbered from 1 to n. *)
Counts(S, n) ==
  /\ n \in Nat
  /\ \E f \in [1..n -> S] : /\ \A c \in S : \E i \in 1..n : f[i] = c
                            /\ \A i, j \in 1..n : f[i] = f[j] => i = j

HandlesTo(o, handles) == {c \in handles : c[2] = o}

(* An active slot carries the identity, generation and binding of the one  *)
(* live object.                                                            *)
SlotOwned ==
  /\ slot.active <=> Live # {}
  /\ \A o \in Live : /\ slot.interrupt = o
                     /\ slot.generation = objs[o].generation
                     /\ slot.notification = objs[o].bound

(* The reference count is the number of handles, and none outlives its     *)
(* object.                                                                 *)
HandlesCounted ==
  /\ \A o \in Live : Counts(HandlesTo(o, caps), objs[o].refs)
  /\ \A c \in caps : c[2] \in Live

(* An object that is not bound, or in flight, is masked. *)
MaskedUntilAcked ==
  \A o \in Live : /\ objs[o].bound = None => objs[o].masked
                  /\ objs[o].in_flight => objs[o].masked /\ objs[o].bound # None

IrqInv == IrqTypes /\ SlotOwned /\ HandlesCounted /\ MaskedUntilAcked /\ ControllerAgrees
-----------------------------------------------------------------------------
(* Counting: a single handle, none, one more, one less. *)
LEMMA CountSingle == \A c : Counts({c}, 1)
<1> SUFFICES ASSUME NEW c PROVE Counts({c}, 1)
  OBVIOUS
<1> DEFINE f == [i \in 1..1 |-> c]
<1>1. f \in [1..1 -> {c}] /\ f[1] = c /\ 1 \in 1..1 /\ \A i, j \in 1..1 : i = j
  OBVIOUS
<1> HIDE DEF f
<1>2. \A d \in {c} : \E i \in 1..1 : f[i] = d
  BY <1>1
<1>3. 1 \in Nat
  OBVIOUS
<1> QED BY <1>1, <1>2, <1>3 DEF Counts

LEMMA CountNone == ASSUME NEW S, Counts(S, 0) PROVE S = {}
BY DEF Counts

LEMMA CountMore ==
  ASSUME NEW S, NEW n, Counts(S, n), NEW c, c \notin S
  PROVE  Counts(S \cup {c}, n + 1)
<1>1. PICK f \in [1..n -> S] : /\ \A d \in S : \E i \in 1..n : f[i] = d
                              /\ \A i, j \in 1..n : f[i] = f[j] => i = j
  BY DEF Counts
<1>2. n \in Nat
  BY DEF Counts
<1> DEFINE g == [i \in 1..n + 1 |-> IF i = n + 1 THEN c ELSE f[i]]
<1>3. g \in [1..n + 1 -> S \cup {c}]
  BY <1>2
<1>4. \A d \in S \cup {c} : \E i \in 1..n + 1 : g[i] = d
  BY <1>1, <1>2
<1>5. \A i, j \in 1..n + 1 : g[i] = g[j] => i = j
  BY <1>1, <1>2
<1> HIDE DEF g
<1>6. n + 1 \in Nat
  BY <1>2
<1> QED BY <1>3, <1>4, <1>5, <1>6 DEF Counts

LEMMA CountLess ==
  ASSUME NEW S, NEW n, Counts(S, n), NEW c \in S
  PROVE  n > 0 /\ Counts(S \ {c}, n - 1)
<1>1. PICK f \in [1..n -> S] : /\ \A d \in S : \E i \in 1..n : f[i] = d
                              /\ \A i, j \in 1..n : f[i] = f[j] => i = j
  BY DEF Counts
<1>2. PICK k \in 1..n : f[k] = c
  BY <1>1
<1>3. n \in Nat /\ n > 0
  BY <1>2 DEF Counts
<1> DEFINE g == [i \in 1..n - 1 |-> IF i = k THEN f[n] ELSE f[i]]
<1>4. g \in [1..n - 1 -> S \ {c}]
  BY <1>1, <1>2, <1>3
<1>5. \A d \in S \ {c} : \E i \in 1..n - 1 : g[i] = d
  <2> SUFFICES ASSUME NEW d \in S \ {c} PROVE \E i \in 1..n - 1 : g[i] = d
    OBVIOUS
  <2>1. PICK i \in 1..n : f[i] = d
    BY <1>1
  <2>2. i # k
    BY <1>2, <2>1
  <2> QED BY <1>2, <1>3, <2>1, <2>2
<1>6. \A i, j \in 1..n - 1 : g[i] = g[j] => i = j
  BY <1>1, <1>2, <1>3
<1> HIDE DEF g
<1>7. n - 1 \in Nat
  BY <1>3
<1> QED BY <1>3, <1>4, <1>5, <1>6, <1>7 DEF Counts
-----------------------------------------------------------------------------
(* The vector slots, registries and handles the kernel starts with satisfy *)
(* the invariant: nothing is live and every line is masked.                *)
LEMMA IrqInitially == Init => IrqInv
<1> SUFFICES ASSUME Init PROVE IrqInv
  OBVIOUS
<1>1. Live = {}
  BY DEF Init, Live, Unborn
<1>3. Unborn \in Object
  BY DEF Unborn, Object
<1>4. slot \in Slot
  BY DEF Init, Slot
<1>5. IrqTypes
  BY <1>3, <1>4 DEF IrqTypes, Init
<1> QED
  BY <1>1, <1>5 DEF Init, IrqInv, SlotOwned, HandlesCounted, MaskedUntilAcked, ControllerAgrees

(* A step that leaves the handles alone, keeps who is live and how many    *)
(* references there are, preserves the count (every InterruptControl       *)
(* operation and the interrupt handler).                                   *)
LEMMA CountKept ==
  ASSUME HandlesCounted, caps' = caps, Live' = Live, \A o \in Live : objs'[o].refs = objs[o].refs
  PROVE  HandlesCounted'
BY DEF HandlesCounted, HandlesTo

(* A step that leaves one object live counts when that object does and     *)
(* every handle is one to it (creation, derivation, deletion).             *)
LEMMA CountOne ==
  ASSUME NEW o, Live' = {o}, Counts(HandlesTo(o, caps'), objs'[o].refs),
         \A c \in caps' : c[2] = o
  PROVE  HandlesCounted'
BY DEF HandlesCounted

(* A step that leaves one object live keeps slot, object and controller in *)
(* agreement when these agree for that object.                             *)
LEMMA OneLive ==
  ASSUME NEW o, Live' = {o}, slot'.active, slot'.interrupt = o,
         slot'.generation = objs'[o].generation, slot'.notification = objs'[o].bound,
         objs'[o].bound = None => objs'[o].masked,
         objs'[o].in_flight => objs'[o].masked /\ objs'[o].bound # None,
         masked' <=> objs'[o].masked
  PROVE  SlotOwned' /\ MaskedUntilAcked' /\ ControllerAgrees'
BY DEF SlotOwned, MaskedUntilAcked, ControllerAgrees

(* The types of the next state, from those of its parts. *)
LEMMA TypesKept ==
  ASSUME slot' \in Slot, objs' \in [Ids -> Object], masked' \in BOOLEAN,
         caps' \subseteq Holders \X Ids
  PROVE  IrqTypes'
BY DEF IrqTypes, Slot, Object, Ids

(* Unfolding who is live and what a live object is, once. *)
LEMMA LiveObject ==
  ASSUME IrqInv, NEW o \in Live
  PROVE  /\ o \in Ids /\ objs[o] \in Object /\ objs[o].live
         /\ slot.active /\ slot.interrupt = o /\ slot.generation = objs[o].generation
         /\ slot.notification = objs[o].bound
         /\ \A p \in Live : p = o
BY DEF IrqInv, IrqTypes, SlotOwned, Live

(* What the step of one live object must show: it stays the owner of the   *)
(* slot and agrees with the controller (InterruptControl, the handler).    *)
LEMMA OneObjectStep ==
  ASSUME IrqInv, NEW o \in Live, NEW x \in Object, slot' \in Slot, masked' \in BOOLEAN,
         objs' = [objs EXCEPT ![o] = x], caps' = caps,
         x.live, x.refs = objs[o].refs, x.generation = objs[o].generation,
         slot'.active, slot'.interrupt = o, slot'.generation = x.generation,
         slot'.notification = x.bound,
         x.bound = None => x.masked,
         x.in_flight => x.masked /\ x.bound # None,
         masked' = x.masked
  PROVE  IrqInv'
<1>1. /\ o \in Ids /\ \A p \in Live : p = o
      /\ objs \in [Ids -> Object] /\ objs[o].live
  BY LiveObject DEF IrqInv, IrqTypes
<1>2. objs' \in [Ids -> Object] /\ objs'[o] = x
  BY <1>1
<1>3. Live' = {o} /\ Live = {o}
  BY <1>1, <1>2 DEF Live
<1>4. IrqTypes'
  BY <1>2 DEF IrqInv, IrqTypes, Ids, Slot, Object
<1>5. SlotOwned'
  BY <1>2, <1>3 DEF SlotOwned
<1>6. HandlesCounted'
  BY <1>2, <1>3, CountKept DEF IrqInv
<1>7. MaskedUntilAcked' /\ ControllerAgrees'
  BY <1>2, <1>3 DEF MaskedUntilAcked, ControllerAgrees
<1> QED
  BY <1>4, <1>5, <1>6, <1>7 DEF IrqInv
-----------------------------------------------------------------------------
(* A handle names a live object. *)
LEMMA HandleLive ==
  ASSUME IrqInv, NEW c \in caps
  PROVE  c[2] \in Live
BY DEF IrqInv, HandlesCounted

(* InterruptControl: binding, masking, unmasking and acknowledging keep    *)
(* object, slot and controller in agreement.                               *)
LEMMA ControlStep ==
  ASSUME IrqInv, NEW o \in Ids, NEW h \in Holders,
         BindNotification(h, o) \/ Mask(h, o) \/ Unmask(h, o) \/ Ack(h, o)
  PROVE  IrqInv'
<1> DEFINE x == objs[o]
<1>1. <<h, o>> \in caps
  BY DEF BindNotification, Mask, Unmask, Ack
<1>2. o \in Live
  BY <1>1, HandleLive
<1>3. /\ x \in Object /\ x.live /\ slot \in Slot /\ masked \in BOOLEAN
      /\ slot.active /\ slot.interrupt = o /\ slot.generation = x.generation
      /\ slot.notification = x.bound /\ \A p \in Live : p = o
  BY <1>2, LiveObject DEF IrqInv, IrqTypes
<1>4. /\ x.bound = None => x.masked
      /\ x.in_flight => x.masked /\ x.bound # None
      /\ masked = x.masked
  BY <1>2, <1>3 DEF IrqInv, MaskedUntilAcked, ControllerAgrees, Object
<1>5. CASE BindNotification(h, o)
  <2> DEFINE y == [x EXCEPT !.bound = h]
  <2>1. y \in Object /\ y.bound = h /\ y.masked = x.masked /\ y.in_flight = x.in_flight
        /\ y.live /\ y.refs = x.refs /\ y.generation = x.generation
    BY <1>3 DEF Object
  <2>2. /\ objs' = [objs EXCEPT ![o] = y] /\ slot' = [slot EXCEPT !.notification = h]
        /\ masked' = masked /\ caps' = caps /\ x.bound = None
    BY <1>5, <1>3 DEF BindNotification, leased
  <2>3. /\ slot' \in Slot /\ slot'.active /\ slot'.interrupt = o
        /\ slot'.generation = x.generation /\ slot'.notification = h
    BY <2>2, <1>3 DEF Slot
  <2> HIDE DEF y
  <2> QED
    BY <1>2, <1>3, <1>4, <2>1, <2>2, <2>3, OneObjectStep, IrqAssumption
<1>6. CASE Mask(h, o)
  <2> DEFINE y == [x EXCEPT !.masked = TRUE]
  <2>1. y \in Object /\ y.bound = x.bound /\ y.masked = TRUE /\ y.in_flight = x.in_flight
        /\ y.live /\ y.refs = x.refs /\ y.generation = x.generation
    BY <1>3 DEF Object
  <2>2. objs' = [objs EXCEPT ![o] = y] /\ slot' = slot /\ masked' = TRUE /\ caps' = caps
    BY <1>6 DEF Mask
  <2> HIDE DEF y
  <2> QED
    BY <1>2, <1>3, <1>4, <2>1, <2>2, OneObjectStep
<1>7. CASE Unmask(h, o)
  <2> DEFINE y == [x EXCEPT !.masked = FALSE]
  <2>1. y \in Object /\ y.bound = x.bound /\ y.masked = FALSE /\ y.in_flight = x.in_flight
        /\ y.live /\ y.refs = x.refs /\ y.generation = x.generation
    BY <1>3 DEF Object
  <2>2. objs' = [objs EXCEPT ![o] = y] /\ slot' = slot /\ caps' = caps
        /\ masked' = objs'[o].masked /\ x.bound # None /\ ~x.in_flight
    BY <1>7 DEF Unmask, unmask
  <2>3. objs'[o] = y
    BY <2>2 DEF IrqInv, IrqTypes
  <2> HIDE DEF y
  <2> QED
    BY ZenonT(30), <1>2, <1>3, <1>4, <2>1, <2>2, <2>3, OneObjectStep
<1>8. CASE Ack(h, o)
  <2> DEFINE y == [x EXCEPT !.in_flight = FALSE, !.masked = FALSE]
  <2>1. y \in Object /\ y.bound = x.bound /\ y.masked = FALSE /\ y.in_flight = FALSE
        /\ y.live /\ y.refs = x.refs /\ y.generation = x.generation
    BY <1>3 DEF Object
  <2>2. unmask([x EXCEPT !.in_flight = FALSE]) = y
    BY <1>3, <1>4, <1>8 DEF Ack, unmask, Object
  <2>3. objs' = [objs EXCEPT ![o] = y] /\ slot' = slot /\ masked' = FALSE /\ caps' = caps
        /\ x.bound # None
    BY <1>4, <1>8, <2>2 DEF Ack
  <2> HIDE DEF y
  <2> QED
    BY <1>2, <1>3, <2>1, <2>3, OneObjectStep
<1> QED
  BY <1>5, <1>6, <1>7, <1>8

(* device_interrupt_handler masks the line of an active vector, and the    *)
(* object behind it is masked afterwards, whether or not it was delivered. *)
LEMMA HandlerStep ==
  ASSUME IrqInv, DeviceInterrupt
  PROVE  IrqInv'
<1> DEFINE o == slot.interrupt
           n == slot.notification
           begins == slot.active /\ n # None /\ begin_delivery_ok(o)
<1>1. caps' = caps /\ masked' = (masked \/ slot.active)
      /\ slot \in Slot /\ masked \in BOOLEAN
  BY DEF DeviceInterrupt, IrqInv, IrqTypes
<1>2. /\ slot' \in Slot /\ slot'.active = slot.active /\ slot'.interrupt = o
      /\ slot'.generation = slot.generation /\ slot'.notification = n
  BY <1>1 DEF DeviceInterrupt, Slot
<1>3. objs' = IF begins THEN [objs EXCEPT ![o].masked = TRUE, ![o].in_flight = TRUE] ELSE objs
  BY DEF DeviceInterrupt
<1>4. CASE ~slot.active
  <2>1. Live = {} /\ objs' = objs /\ masked' = masked
    BY <1>1, <1>3, <1>4 DEF IrqInv, SlotOwned
  <2>2. Live' = {}
    BY <2>1 DEF Live
  <2>3. IrqTypes' /\ SlotOwned'
    BY <1>1, <1>2, <1>4, <2>1, <2>2 DEF IrqInv, IrqTypes, SlotOwned, Slot, Object, Ids
  <2>4. HandlesCounted'
    BY <1>1, <2>1, <2>2, CountKept DEF IrqInv
  <2>5. MaskedUntilAcked' /\ ControllerAgrees'
    BY <2>1, <2>2 DEF IrqInv, MaskedUntilAcked, ControllerAgrees
  <2> QED
    BY <2>3, <2>4, <2>5 DEF IrqInv
<1>5. CASE slot.active
  <2> DEFINE x == objs[o]
  <2>1. o \in Live
    BY <1>5 DEF IrqInv, SlotOwned
  <2>2. /\ o \in Ids /\ x \in Object /\ x.live /\ slot.generation = x.generation /\ n = x.bound
        /\ objs \in [Ids -> Object]
    BY <2>1, LiveObject DEF IrqInv, IrqTypes
  <2>3. /\ x.bound = None => x.masked
        /\ x.in_flight => x.masked /\ x.bound # None
    BY <2>1 DEF IrqInv, MaskedUntilAcked
  <2>4. masked' = TRUE
    BY <1>1, <1>5
  <2>5. CASE begins
    <3> DEFINE y == [x EXCEPT !.masked = TRUE, !.in_flight = TRUE]
    <3>1. y \in Object /\ y.bound = x.bound /\ y.masked = TRUE
          /\ y.live /\ y.refs = x.refs /\ y.generation = x.generation
      BY <2>2 DEF Object
    <3>2. objs' = [objs EXCEPT ![o] = y]
      BY <1>3, <2>2, <2>5
    <3>3. y.bound # None
      BY <2>5, <2>2, <3>1
    <3> HIDE DEF y
    <3> QED
      BY <1>1, <1>2, <1>5, <2>1, <2>2, <2>4, <3>1, <3>2, <3>3, OneObjectStep
  <2>6. CASE ~begins
    <3>1. x.masked
      BY <1>5, <2>1, <2>2, <2>3, <2>6 DEF begin_delivery_ok
    <3>2. objs' = [objs EXCEPT ![o] = x]
      BY <1>3, <2>2, <2>6
    <3>3. x.masked = TRUE
      BY <2>2, <3>1 DEF Object
    <3> QED
      BY <1>1, <1>2, <1>5, <2>1, <2>2, <2>3, <2>4, <3>2, <3>3, OneObjectStep
  <2> QED
    BY <2>5, <2>6
<1> QED
  BY <1>4, <1>5

(* What neither the registries nor the controller see: the device, the     *)
(* driver that services it, a signal that is taken.                        *)
LEMMA QuietStep ==
  ASSUME IrqInv, UNCHANGED <<slot, objs, caps, masked>>
  PROVE  IrqInv'
BY DEF IrqInv, IrqTypes, SlotOwned, HandlesCounted, MaskedUntilAcked, ControllerAgrees,
       Live, HandlesTo, Slot, Object, Ids
-----------------------------------------------------------------------------
(* FactoryCreate: the line was free, so nothing was live and no handle was *)
(* left; the new object has the slot and one handle.                       *)
LEMMA CreateStep ==
  ASSUME IrqInv, NEW o \in Ids, Create(o)
  PROVE  IrqInv'
<1> DEFINE y == [Unborn EXCEPT !.live = TRUE, !.refs = 1, !.generation = slot.generation]
<1>1. Live = {} /\ slot \in Slot /\ objs \in [Ids -> Object]
  BY DEF Create, IrqInv, IrqTypes, SlotOwned
<1>2. caps = {}
  BY <1>1 DEF IrqInv, HandlesCounted
<1>3. /\ y \in Object /\ y.live /\ y.refs = 1 /\ y.generation = slot.generation
      /\ y.bound = None /\ y.masked = TRUE /\ y.in_flight = FALSE
  BY <1>1 DEF Unborn, Object, Slot
<1>4. objs' = [objs EXCEPT ![o] = y] /\ masked' = TRUE /\ caps' = {<<Creator, o>>}
      /\ slot' = [slot EXCEPT !.active = TRUE, !.interrupt = o, !.notification = None, !.pending = 0]
  BY <1>2 DEF Create
<1>5. /\ slot' \in Slot /\ slot'.active /\ slot'.interrupt = o /\ slot'.notification = None
      /\ slot'.generation = slot.generation
  BY <1>1, <1>4 DEF Slot
<1> HIDE DEF y
<1>6. objs' \in [Ids -> Object] /\ objs'[o] = y /\ \A p \in Ids \ {o} : objs'[p] = objs[p]
  BY <1>1, <1>3, <1>4
<1>7. Live' = {o}
  BY <1>1, <1>3, <1>6 DEF Live, Ids
<1>9. IrqTypes'
  BY <1>4, <1>5, <1>6, IrqAssumption, TypesKept
<1>10. SlotOwned' /\ MaskedUntilAcked' /\ ControllerAgrees'
  BY ZenonT(30), <1>3, <1>4, <1>5, <1>6, <1>7, OneLive
<1>11. HandlesTo(o, caps') = {<<Creator, o>>}
  BY <1>4 DEF HandlesTo
<1>12. Counts(HandlesTo(o, caps'), objs'[o].refs)
  BY <1>3, <1>6, <1>11, CountSingle
<1>13. \A c \in caps' : c[2] = o
  BY <1>4
<1>14. HandlesCounted'
  BY <1>7, <1>12, <1>13, CountOne
<1> QED
  BY <1>9, <1>10, <1>14 DEF IrqInv

(* Every handle is one to the live object, which counts them. *)
LEMMA AllHandles ==
  ASSUME IrqInv, NEW o \in Live
  PROVE  Counts(caps, objs[o].refs) /\ caps = HandlesTo(o, caps)
<1>1. \A c \in caps : c[2] = o
  BY LiveObject DEF IrqInv, HandlesCounted
<1> QED
  BY <1>1 DEF IrqInv, HandlesTo, HandlesCounted

(* Derive and InstallCapability: one handle and one reference more. *)
LEMMA DeriveStep ==
  ASSUME IrqInv, NEW o \in Ids, NEW h \in Holders, NEW g \in Holders, Derive(h, g, o)
  PROVE  IrqInv'
<1> DEFINE x == objs[o]
           y == [x EXCEPT !.refs = @ + 1]
<1>1. o \in Live
  BY HandleLive DEF Derive
<1>2. /\ x \in Object /\ x.live /\ slot.active /\ slot.interrupt = o /\ \A p \in Live : p = o
      /\ slot.generation = x.generation /\ slot.notification = x.bound /\ objs \in [Ids -> Object]
  BY <1>1, LiveObject DEF IrqInv, IrqTypes
<1>3. /\ y \in Object /\ y.live /\ y.refs = x.refs + 1 /\ y.generation = x.generation
      /\ y.bound = x.bound /\ y.masked = x.masked /\ y.in_flight = x.in_flight
  BY <1>2 DEF Object
<1>4. /\ objs' = [objs EXCEPT ![o] = y] /\ masked' = masked /\ slot' = slot
      /\ caps' = caps \cup {<<g, o>>} /\ <<g, o>> \notin caps
  BY DEF Derive
<1> HIDE DEF y
<1>5. objs' \in [Ids -> Object] /\ objs'[o] = y
  BY <1>2, <1>3, <1>4
<1>6. Live' = {o} /\ Live = {o}
  BY ZenonT(30), <1>1, <1>2, <1>3, <1>4, <1>5 DEF Live, Ids
<1>7. Counts(caps, x.refs) /\ caps = HandlesTo(o, caps)
  BY <1>1, AllHandles
<1>8. Counts(caps', x.refs + 1)
  BY <1>4, <1>7, CountMore
<1>9. HandlesTo(o, caps') = caps' /\ \A c \in caps' : c[2] = o
  BY <1>4, <1>7 DEF HandlesTo
<1>10. IrqTypes'
  <2>1. slot' \in Slot /\ masked' \in BOOLEAN /\ caps \subseteq Holders \X Ids
    BY <1>4 DEF IrqInv, IrqTypes
  <2>2. caps' \subseteq Holders \X Ids
    BY <1>4, <2>1
  <2> QED
    BY <1>5, <2>1, <2>2, TypesKept
<1>11. SlotOwned' /\ MaskedUntilAcked' /\ ControllerAgrees'
  <2>1. /\ x.bound = None => x.masked
        /\ x.in_flight => x.masked /\ x.bound # None
    BY <1>1 DEF IrqInv, MaskedUntilAcked
  <2>2. masked <=> x.masked
    BY <1>6 DEF IrqInv, ControllerAgrees
  <2> QED
    BY <1>2, <1>3, <1>4, <1>5, <1>6, <2>1, <2>2, OneLive
<1>12. Counts(HandlesTo(o, caps'), objs'[o].refs)
  BY <1>3, <1>5, <1>8, <1>9
<1>13. HandlesCounted'
  BY <1>6, <1>9, <1>12, CountOne
<1> QED
  BY <1>10, <1>11, <1>13 DEF IrqInv

(* delete_handle_internal: the last handle ends the object and frees the   *)
(* slot, another one unbinds and masks it; either way the line is masked.  *)
LEMMA DeleteStep ==
  ASSUME IrqInv, NEW o \in Ids, NEW h \in Holders, DeleteHandle(h, o)
  PROVE  IrqInv'
<1> DEFINE x == objs[o]
           unbound == [slot EXCEPT !.notification = None, !.pending = 0]
<1>1. o \in Live /\ <<h, o>> \in caps /\ caps' = caps \ {<<h, o>>} /\ masked' = TRUE
  BY HandleLive DEF DeleteHandle
<1>2. /\ x \in Object /\ x.live /\ slot \in Slot /\ slot.active /\ slot.interrupt = o
      /\ \A p \in Live : p = o
      /\ slot.generation = x.generation /\ slot.notification = x.bound /\ objs \in [Ids -> Object]
  BY <1>1, LiveObject DEF IrqInv, IrqTypes
<1>3. leased(x)
  BY <1>2 DEF leased
<1>4. Counts(caps, x.refs) /\ caps = HandlesTo(o, caps)
  BY <1>1, AllHandles
<1>5. x.refs > 0 /\ Counts(caps', x.refs - 1)
  BY <1>1, <1>4, CountLess
<1>6. HandlesTo(o, caps') = caps' /\ (\A c \in caps' : c[2] = o) /\ caps' \subseteq Holders \X Ids
  BY <1>1, <1>4 DEF HandlesTo, IrqInv, IrqTypes
<1>7. CASE x.refs = 1
  <2> DEFINE y == [Unborn EXCEPT !.generation = x.generation]
  <2>1. y \in Object /\ ~y.live
    BY <1>2 DEF Unborn, Object
  <2>2. objs' = [objs EXCEPT ![o] = y]
        /\ slot' = [unbound EXCEPT !.active = FALSE, !.interrupt = None, !.generation = @ + 1]
    BY <1>3, <1>7 DEF DeleteHandle
  <2>3. slot' \in Slot /\ ~slot'.active
    <3>1. unbound \in Slot /\ unbound.generation \in Nat
      BY <1>2 DEF Slot
    <3>2. unbound.generation + 1 \in Nat
      BY <3>1
    <3> HIDE DEF unbound
    <3> DEFINE next == unbound.generation + 1
    <3>3. slot' = [unbound EXCEPT !.active = FALSE, !.interrupt = None, !.generation = next]
      BY <2>2
    <3> HIDE DEF next
    <3> QED
      BY <3>1, <3>2, <3>3 DEF Slot, next
  <2> HIDE DEF y
  <2>4. objs' \in [Ids -> Object] /\ objs'[o] = y /\ \A p \in Ids \ {o} : objs'[p] = objs[p]
    BY <1>2, <2>1, <2>2
  <2>5. Live' = {}
    BY ZenonT(30), <1>2, <2>1, <2>4 DEF Live, Ids
  <2>6. caps' = {}
    BY <1>5, <1>7, CountNone
  <2>7. IrqTypes'
    BY <1>1, <1>6, <2>3, <2>4, TypesKept
  <2>8. SlotOwned' /\ HandlesCounted' /\ MaskedUntilAcked' /\ ControllerAgrees'
    BY <1>1, <2>3, <2>5, <2>6 DEF SlotOwned, HandlesCounted, MaskedUntilAcked, ControllerAgrees
  <2> QED
    BY <2>7, <2>8 DEF IrqInv
<1>8. CASE x.refs # 1
  <2> DEFINE z == dec_capability_ref(x)
             y == unbind_notification(z)
  <2>1. /\ z.live /\ z.generation = x.generation /\ z.bound = x.bound /\ z.masked = x.masked
        /\ z.in_flight = x.in_flight /\ z.refs = x.refs - 1
    BY <1>2 DEF Object, dec_capability_ref
  <2>3. z \in Object
    BY <1>2, <1>5 DEF Object, dec_capability_ref
  <2>4. /\ x.bound = None => x.masked
        /\ x.in_flight => x.masked /\ x.bound # None
    BY <1>1 DEF IrqInv, MaskedUntilAcked
  <2>5. objs' = [objs EXCEPT ![o] = y] /\ slot' = unbound
    <3>1. slot' = unbound
      BY <1>3, <1>8 DEF DeleteHandle
    <3>2. objs' = [objs EXCEPT ![o] = IF x.refs = 1 THEN [Unborn EXCEPT !.generation = x.generation] ELSE y]
      BY DEF DeleteHandle
    <3> HIDE DEF y
    <3> QED
      BY <1>8, <3>1, <3>2
  <2> HIDE DEF z
  <2>6. /\ y \in Object /\ y.live /\ y.generation = x.generation /\ y.refs = x.refs - 1
        /\ y.bound = None /\ y.masked /\ ~y.in_flight
    BY <2>1, <2>3, <2>4 DEF Object, unbind_notification
  <2>7. /\ slot' \in Slot /\ slot'.active /\ slot'.interrupt = o /\ slot'.notification = None
        /\ slot'.generation = x.generation
    BY <1>2, <2>5 DEF Slot
  <2> HIDE DEF y
  <2>8. objs' \in [Ids -> Object] /\ objs'[o] = y /\ \A p \in Ids \ {o} : objs'[p] = objs[p]
    BY <1>2, <2>5, <2>6
  <2>9. Live' = {o}
    BY <1>2, <2>6, <2>8 DEF Live, Ids
  <2>10. IrqTypes'
    BY <1>1, <1>6, <2>7, <2>8, TypesKept
  <2>11. SlotOwned' /\ MaskedUntilAcked' /\ ControllerAgrees'
    BY <1>1, <2>6, <2>7, <2>8, <2>9, OneLive
  <2>12. Counts(HandlesTo(o, caps'), objs'[o].refs)
    BY <1>5, <1>6, <2>6, <2>8
  <2>13. HandlesCounted'
    BY <1>6, <2>9, <2>12, CountOne
  <2> QED
    BY <2>10, <2>11, <2>13 DEF IrqInv
<1> QED
  BY <1>7, <1>8
-----------------------------------------------------------------------------
(* Every step of device, kernel and processes preserves the invariant. *)
LEMMA IrqPreserved == IrqInv /\ [Next]_irqvars => IrqInv'
<1> SUFFICES ASSUME IrqInv, [Next]_irqvars PROVE IrqInv'
  OBVIOUS
<1>1. CASE Assert \/ Drain \/ UNCHANGED irqvars \/ \E h \in Holders : TakeSignal(h)
  BY <1>1, QuietStep DEF Assert, Drain, TakeSignal, irqvars
<1>2. CASE DeviceInterrupt
  BY <1>2, HandlerStep
<1>3. CASE \E o \in Ids : Create(o)
  BY <1>3, CreateStep
<1>4. CASE \E o \in Ids, h, g \in Holders : Derive(h, g, o)
  BY <1>4, DeriveStep
<1>5. CASE \E o \in Ids, h \in Holders :
             BindNotification(h, o) \/ Mask(h, o) \/ Unmask(h, o) \/ Ack(h, o)
  BY <1>5, ControlStep
<1>6. CASE \E o \in Ids, h \in Holders : DeleteHandle(h, o)
  BY <1>6, DeleteStep
<1> QED
  BY <1>1, <1>2, <1>3, <1>4, <1>5, <1>6 DEF Next

(* The controller and the interrupt object agree, whatever system calls    *)
(* the holders of handles make, in any order, and whenever the device and  *)
(* its interrupt come in between.                                          *)
THEOREM ControllerInvariance == Spec => []ControllerAgrees
<1>1. IrqInv => ControllerAgrees
  BY DEF IrqInv
<1> QED
  BY <1>1, IrqInitially, IrqPreserved, PTL DEF Spec

(* A supervisor and its drivers do nothing but system calls. *)
LEMMA DriversCall == [DNext]_dvars => [Next]_irqvars
<1> SUFFICES ASSUME [DNext]_dvars PROVE [Next]_irqvars
  OBVIOUS
<1>1. CASE UNCHANGED dvars
  BY <1>1 DEF dvars, irqvars
<1>2. CASE Assert \/ DeviceInterrupt
  BY <1>2 DEF Next
<1>3. CASE CreateObject
  BY <1>3 DEF CreateObject, Next
<1>4. CASE Retire
  BY <1>4, IrqAssumption DEF Retire, Next
<1>5. CASE \E d \in Drivers : Launch(d)
  BY <1>5, IrqAssumption DEF Launch, Drivers, Next
<1>6. CASE \E d \in Drivers : Kill(d)
  BY <1>6 DEF Kill, Drivers, Next
<1>7. CASE \E d \in Drivers : Proceed(d)
  BY <1>7 DEF Proceed, DriverStep, Drivers, Next
<1> QED
  BY <1>1, <1>2, <1>3, <1>4, <1>5, <1>6, <1>7 DEF DNext

(* So the agreement holds while any number of drivers is launched, killed  *)
(* and replaced over any number of objects: the specification of the run.  *)
THEOREM DriversAgree == DSpec => []ControllerAgrees
<1>1. DInit => Init
  BY DEF DInit
<1>2. IrqInv => ControllerAgrees
  BY DEF IrqInv
<1> QED
  BY <1>1, <1>2, DriversCall, IrqInitially, IrqPreserved, PTL DEF DSpec
=============================================================================
