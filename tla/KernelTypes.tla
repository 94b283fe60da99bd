----------------------------- MODULE KernelTypes -----------------------------
(***************************************************************************)
(* Identities shared by the modules of the thread and IPC core.            *)
(***************************************************************************)
EXTENDS Options

CONSTANTS
  Threads,      \* threads of user processes
  Idle          \* the kernel-owned idle thread

ASSUME IdentitiesDistinct == Idle \notin Threads /\ None \notin Threads \cup {Idle}

AllThreads == Threads \cup {Idle}

(* ThreadState of kernel-core; "Absent" stands for a thread whose entry    *)
(* ThreadTable::remove has taken.                                          *)
ThreadState == {"New", "Runnable", "Running", "Blocked", "Dying", "Dead"}
=============================================================================
