---------------------------- MODULE MCLiveness ----------------------------
(***************************************************************************)
(* The two protocols that must make progress, checked side by side: the    *)
(* drivers of IrqDriver and, as K, the IPC core.  They share no state;     *)
(* every behaviour exercises one of them, under its own fairness, while    *)
(* the other rests in its initial state.                                   *)
(***************************************************************************)
EXTENDS IrqDriver

CONSTANTS Threads, Idle, Capacity, MAX_ENDPOINT_CALLERS, Endpoints, Notifications,
          Boot, Program, MaxCalls, boot, t1, t2, t3

VARIABLES part, sched, eps, notifs, pc, inbox, held, ncalls

K == INSTANCE KernelIpc

kvars == <<sched, eps, notifs, pc, inbox, held, ncalls>>

(* boot starts the others and spins, t1 serves calls, t2 makes them, t3    *)
(* waits for interrupts.                                                   *)
ServerProgram ==
  [t \in Threads |-> CASE t = boot -> {"Start", "Yield"}
                       [] t = t1   -> {"Receive", "Reply"}
                       [] t = t2   -> {"Call"}
                       [] t = t3   -> {"Wait"}]

MCInit == part \in {"ipc", "drivers"} /\ DInit /\ K!Init

MCNext ==
  \/ part = "ipc" /\ K!Next /\ UNCHANGED <<part, dvars>>
  \/ part = "drivers" /\ DNext /\ UNCHANGED <<part, kvars>>

MCSpec ==
  /\ MCInit /\ [][MCNext]_<<part, dvars, kvars>>
  /\ part = "ipc" => K!Fairness
  /\ part = "drivers" => DFairness

(* Every call to a server that keeps receiving and replying returns. *)
CallCompletes == K!CallCompletes

(* An interrupt's signal is taken by the thread that waits for it. *)
SignalConsumed == K!SignalConsumed
=============================================================================
