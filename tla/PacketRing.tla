----------------------------- MODULE PacketRing ----------------------------
(***************************************************************************)
(* The shared packet ring (net_types/src/ring.rs): one producer and one    *)
(* consumer, on free-running indices of a fixed width that wrap.  A push   *)
(* and a pop each load both indices and later store their own; the other   *)
(* side may run in between.  Of the two indices a side loads, one is its   *)
(* own and does not move, so the two loads are one step.                   *)
(***************************************************************************)
EXTENDS Naturals, Sequences

CONSTANTS RingCapacity,    \* a power of two
          IndexRange   \* 2^32: a multiple of RingCapacity

ASSUME RingAssumption == /\ RingCapacity \in Nat \ {0} /\ IndexRange \in Nat
                         /\ IndexRange % RingCapacity = 0 /\ IndexRange > RingCapacity

VARIABLES ring,      \* [producer_index, consumer_index]
          pushing,   \* push_slot under way: <<>> or the indices <<prod, cons>> it loaded
          popping,   \* pop_slot under way: <<>> or <<cons, prod>>
          queued,    \* history: the slots published and not taken, oldest first
          taken      \* history: the last slot taken and the one that was due

rvars == <<ring, pushing, popping, queued, taken>>

wrapping_sub(a, b) == (a + IndexRange - b) % IndexRange
wrapping_next(a) == (a + 1) % IndexRange
slot_of(index) == index % RingCapacity

(* Mutant of is_full: the capacity is tested after the push, not before. *)
is_full_late(prod, cons) == wrapping_sub(prod, cons) > RingCapacity

is_full(prod, cons) == wrapping_sub(prod, cons) >= RingCapacity

(* push_slot: the loads; on a full ring it returns the policy *)
LoadForPush ==
  /\ pushing = <<>>
  /\ ~is_full(ring.producer_index, ring.consumer_index)
  /\ pushing' = <<ring.producer_index, ring.consumer_index>>
  /\ UNCHANGED <<ring, popping, queued, taken>>

(* ...and the store, which publishes the slot *)
push_slot ==
  /\ pushing # <<>>
  /\ ring' = [ring EXCEPT !.producer_index = wrapping_next(pushing[1])]
  /\ queued' = Append(queued, slot_of(pushing[1]))
  /\ pushing' = <<>> /\ UNCHANGED <<popping, taken>>

LoadForPop ==
  /\ popping = <<>>
  /\ ring.consumer_index # ring.producer_index
  /\ popping' = <<ring.consumer_index, ring.producer_index>>
  /\ UNCHANGED <<ring, pushing, queued, taken>>

pop_slot ==
  /\ popping # <<>>
  /\ ring' = [ring EXCEPT !.consumer_index = wrapping_next(popping[1])]
  /\ taken' = <<slot_of(popping[1]), Head(queued)>> /\ queued' = Tail(queued)
  /\ popping' = <<>> /\ UNCHANGED pushing

RingInit ==
  /\ ring = [producer_index |-> 0, consumer_index |-> 0]
  /\ pushing = <<>> /\ popping = <<>> /\ queued = <<>> /\ taken = <<0, 0>>

RingNext == LoadForPush \/ push_slot \/ LoadForPop \/ pop_slot

RingSpec == RingInit /\ [][RingNext]_rvars
-----------------------------------------------------------------------------
(* Over any number of wraps, and with the two sides between each other's   *)
(* loads and stores, the ring is a queue: len counts the slots published   *)
(* and not taken, at most RingCapacity, slots come out in the order they went  *)
(* in, and a slot about to be published is not one still queued.           *)
RingIsQueue ==
  /\ Len(queued) = wrapping_sub(ring.producer_index, ring.consumer_index) /\ Len(queued) <= RingCapacity
  /\ taken[1] = taken[2]
  /\ pushing # <<>> => \A k \in DOMAIN queued : queued[k] # slot_of(pushing[1])
=============================================================================
