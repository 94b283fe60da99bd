----------------------------- MODULE FramePool -----------------------------
(***************************************************************************)
(* What physical frame allocation promises its callers: once the usable    *)
(* memory is known, frames pass from the free set to a caller and back,    *)
(* and are never in both places nor lost.                                  *)
(***************************************************************************)
VARIABLES free, given

Init == free = {} /\ given = {}

Discover == free = {} /\ given = {} /\ given' = {}   \* any frames may be usable

Take == free' \subseteq free /\ given' = given \cup (free \ free') /\ given \cap free = {}

Give == given' \subseteq given /\ free' = free \cup (given \ given')

Next == Discover \/ Take \/ Give

Spec == Init /\ [][Next]_<<free, given>>
=============================================================================
