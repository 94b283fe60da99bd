-------------------------- MODULE MCKernelLifecycle --------------------------
(***************************************************************************)
(* Small instances of KernelLifecycle.                                     *)
(***************************************************************************)
EXTENDS KernelLifecycle

CONSTANTS boot, t1, t2, e1

(* boot supervises everyone. *)
Flat == [t \in Threads |-> IF t = boot THEN None ELSE boot]

AllHold == [t \in Threads |-> Endpoints]

(* t1 calls, t2 serves, boot may terminate the caller. *)
TerminatedCaller ==
  [t \in Threads |-> CASE t = boot -> {"Start", "Terminate"}
                       [] t = t1 -> {"Call"}
                       [] t = t2 -> {"Receive", "Reply"}]

=============================================================================
