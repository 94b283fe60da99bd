------------------------------ MODULE MCMemory ------------------------------
(***************************************************************************)
(* MemoryObjects for TLC: two processes with a capability space and a      *)
(* domain each, which map into one address space, and bounds on the calls  *)
(* that derive handles and on those that give something up.                *)
(***************************************************************************)
EXTENDS MemoryObjects

CONSTANTS MaxDerives, MaxEnds

VARIABLES derives, ends

MCMapsInto == Spaces \X AddressSpaces
MCRequests == {{MAP, READ, EXECUTE}}
MCPageRights == {{READ, EXECUTE}, {READ, WRITE}}

(* No operation tells one space or one address space from another. *)
Symmetry == Permutations(Spaces)

MCInit == MemInit /\ derives = 0 /\ ends = 0

Derives == derives < MaxDerives /\ derives' = derives + 1 /\ UNCHANGED ends
Ends == ends < MaxEnds /\ ends' = ends + 1 /\ UNCHANGED derives
Keeps == UNCHANGED <<derives, ends>>

MCNext ==
  \E c \in Spaces :
    \/ FactoryCreate(c) /\ Keeps
    \/ \E h \in Held(c) :
         \/ MapSome(c, h) /\ Keeps
         \/ \E d \in Spaces, r \in Requests : DeriveHandle(c, h, d, r) /\ Derives
         \/ UnmapMemory(c, h) /\ Ends
         \/ DeleteHandle(c, h) /\ Ends
         \/ RevokeHandle(c, h) /\ Ends

MCSpec == MCInit /\ [][MCNext]_<<mvars, derives, ends>>
=============================================================================
