----------------------------- MODULE MCKernelCore -----------------------------
(***************************************************************************)
(* Small instances of the two halves of kernel-core, checked side by side: *)
(* IPC with the scheduler, and the capability table with its history.      *)
(* They share no state; every behaviour exercises one of them while the    *)
(* other rests in its initial state.                                       *)
(***************************************************************************)
EXTENDS KernelIpc, MCCapability

CONSTANTS boot, t1, t2, Parts

VARIABLE part

(* boot starts the others; boot and t2 call and serve and t1 serves, each  *)
(* through either endpoint; t1 waits for the notification.                 *)
ClientsAndServers ==
  [t \in Threads |-> CASE t = boot -> {"Start", "Call", "Receive", "Reply", "Yield"}
                       [] t = t1   -> {"Receive", "Reply", "Wait"}
                       [] t = t2   -> {"Call", "Receive", "Reply"}]

(* No operation tells one endpoint, one space or one object from another. *)
CoreSymmetry == Permutations(Endpoints) \cup Symmetry

CoreInit == part \in Parts /\ Init /\ MCInit

CoreNext ==
  \/ part = "ipc" /\ Next /\ UNCHANGED <<part, mcvars>>
  \/ part = "capabilities" /\ MCNext /\ UNCHANGED <<part, vars>>

CoreSpec == CoreInit /\ [][CoreNext]_<<part, vars, mcvars>>
=============================================================================
