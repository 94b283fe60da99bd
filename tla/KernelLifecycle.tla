--------------------------- MODULE KernelLifecycle ---------------------------
(***************************************************************************)
(* Process termination on top of the IPC core: Start, Terminate and Reap   *)
(* by a supervisor, ExitProcess, a user-mode page fault, and the deletion  *)
(* of an endpoint handle (teardown.rs).  A process is named by its main    *)
(* thread.  Children begin Prepared with a configured main thread; their   *)
(* construction is not part of this module.  No capability to a child's    *)
(* exit notification lets a thread wait on it (the child's handle has only *)
(* Rights::WAIT, WaitNotification asks for READ), so signalling it wakes   *)
(* nobody and it is left out; a supervisor polls with Query and Wait,      *)
(* which read proc.                                                        *)
(***************************************************************************)
EXTENDS KernelIpc

CONSTANTS
  Supervisor,   \* Process.supervisor: the creator's main thread, None for init
  Holds         \* the endpoints a process has a handle to

ASSUME LifecycleAssumption ==
  /\ Supervisor \in [Threads -> Threads \cup {None}]
  /\ Supervisor[Boot] = None
  /\ Holds \in [Threads -> SUBSET Endpoints]
  /\ \A S \in SUBSET Endpoints : Cardinality(S) \in Nat   \* they are finitely many

VARIABLE proc   \* ProcessState; "Reaped" once the process left PROCESSES

lvars == <<sched, eps, notifs, pc, inbox, held, ncalls, proc>>

Live(t) == proc[t] \in {"Runnable", "Running"}

LInit ==
  /\ Init
  /\ proc = [t \in Threads |-> IF t = Boot THEN "Running" ELSE "Prepared"]

(* ProcessControlOp::Start: queue the main thread, then make_runnable. *)
StartProcess(t, u) ==
  /\ Supervisor[u] = t
  /\ proc[u] = "Prepared"
  /\ Start(t, u)
  /\ proc' = [proc EXCEPT ![u] = "Runnable"]

(* request_exit, mark_exiting, mark_zombie: refused in a terminal state. *)
exit_ok(p) == p \notin {"ExitRequested", "Exiting", "Zombie", "Reaped"}

(* ProcessControlOp::Terminate *)
Terminate(t, u) ==
  /\ Syscall(t, "Terminate")
  /\ Supervisor[u] = t
  /\ exit_ok(proc[u])
  /\ proc' = [proc EXCEPT ![u] = "Zombie"]
  /\ sched' = remove_thread([sched EXCEPT !.thr[u] = make_dying(@)], u)
  /\ UNCHANGED <<eps, notifs, pc, inbox, held, ncalls>>

(* exit_current_process.  With an empty run queue the CPU goes to the      *)
(* supervisor's main thread, whatever its state, as long as the supervisor *)
(* is in PROCESSES, and to the idle thread otherwise.                      *)
ExitProcess(t) ==
  /\ Syscall(t, "Exit")
  /\ IF ~exit_ok(proc[t])
     THEN sched' = [sched EXCEPT !.up = FALSE] /\ UNCHANGED proc
     ELSE LET s1  == remove_thread([sched EXCEPT !.thr[t] = make_dying(@)], t)
              sup == IF Supervisor[t] # None /\ proc[Supervisor[t]] # "Reaped"
                     THEN Supervisor[t] ELSE Idle
          IN  /\ proc' = [proc EXCEPT ![t] = "Zombie"]
              /\ sched' = IF s1.rq # <<>> THEN dispatch(s1, t)
                          ELSE IF s1.thr[sup] = "Absent" THEN [s1 EXCEPT !.up = FALSE]
                          ELSE switch_to_next([s1 EXCEPT !.cur = sup], sup)
  /\ UNCHANGED <<eps, notifs, pc, inbox, held, ncalls>>

(* page_fault_handler for a fault in user mode: the thread dies; with an   *)
(* empty run queue or no current thread the kernel stops.                  *)
PageFault(t) ==
  /\ sched.up
  /\ sched.cpu = t
  /\ pc[t].op = "User"
  /\ "Fault" \in Program[t]
  /\ sched' = IF sched.cur = None \/ sched.rq = <<>>
              THEN [sched EXCEPT !.up = FALSE]
              ELSE dispatch([sched EXCEPT !.thr[t] = make_dead(make_dying(@))], t)
  /\ UNCHANGED <<eps, notifs, pc, inbox, held, ncalls, proc>>

(* wake_thread for the threads of a list, one after the other *)
wake_all(s, q) ==
  LET woken[i \in 0..Len(q)] == IF i = 0 THEN s ELSE apply_wake(woken[i - 1], q[i])
  IN  woken[Len(q)]

(* DeleteHandle on an endpoint handle: any deletion closes the endpoint. *)
CloseEndpoint(t, e) ==
  /\ Syscall(t, "Close")
  /\ e \in Holds[t]
  /\ ~eps[e].closed
  /\ eps' = [eps EXCEPT ![e] = close(@)]
  /\ sched' = wake_all(sched, woke_threads(eps[e]))
  /\ UNCHANGED <<notifs, pc, inbox, held, ncalls, proc>>

(* The orders in which the members of a set can come *)
Orders(S) == {q \in [1..Cardinality(S) -> S] : \A e \in S : \E k \in DOMAIN q : q[k] = e}

(* The handles are deleted in the order of their slots. *)
close_all(s, ends) ==
  LET after[k \in 0..Len(ends)] ==
        IF k = 0 THEN s ELSE wake_all(after[k - 1], woke_threads(eps[ends[k]]))
  IN  after[Len(ends)]

(* ProcessControlOp::Reap: every handle of the child is deleted, which     *)
(* closes the endpoints it holds, and its thread leaves the table.         *)
Reap(t, u) ==
  /\ Syscall(t, "Reap")
  /\ Supervisor[u] = t
  /\ proc[u] = "Zombie"
  /\ LET ends == {e \in Holds[u] : ~eps[e].closed}
     IN  /\ eps' = [e \in Endpoints |-> IF e \in ends THEN close(eps[e]) ELSE eps[e]]
         /\ \E order \in Orders(ends) :
              sched' = [close_all(sched, order) EXCEPT !.thr[u] = "Absent"]
  /\ proc' = [proc EXCEPT ![u] = "Reaped"]
  /\ UNCHANGED <<notifs, pc, inbox, held, ncalls>>

(* The dispatcher's gate: only a Runnable or Running process gets past it, *)
(* ExitProcess excepted.                                                   *)
LNext ==
  \/ \E t \in Threads :
       \/ /\ Live(t)
          /\ \/ \E u \in Threads : StartProcess(t, u) \/ Terminate(t, u) \/ Reap(t, u)
             \/ \E e \in Endpoints : CloseEndpoint(t, e)
             \/ /\ \/ \E e \in Endpoints : Call(t, e) \/ Receive(t, e)
                   \/ \E h \in held[t] : Reply(t, h)
                   \/ \E n \in Notifications : Wait(t, n)
                /\ UNCHANGED proc
       \/ ExitProcess(t)
       \/ PageFault(t)
       \/ (ResumeCall(t) \/ ResumeReceive(t) \/ ResumeWait(t) \/ Yield(t)) /\ UNCHANGED proc
  \/ /\ (\E n \in Notifications : Interrupt(n)) \/ Preempt \/ IdleDispatch
     /\ UNCHANGED proc

LSpec == LInit /\ [][LNext]_lvars
-----------------------------------------------------------------------------
(* Every child belongs to the boot thread, which never blocks, exits or    *)
(* faults: init's supervisor loop polls with Query.  Otherwise             *)
(* exit_current_process may switch to a supervisor that is not runnable.   *)
InitPolls ==
  /\ \A t \in Threads : Supervisor[t] \in {Boot, None}
  /\ Program[Boot] \cap {"Call", "Receive", "Wait", "Exit", "Fault"} = {}

Terminal == {"Dying", "Dead", "Absent"}

(* process_lifecycle.md: no resurrection.  A thread that was terminated,   *)
(* exited or faulted is never queued or executed again, whatever Reply,    *)
(* endpoint closure or interrupt still names it.                           *)
NoResurrection ==
  [][\A t \in Threads :
       sched.thr[t] \in Terminal =>
         /\ sched'.thr[t] \in Terminal
         /\ t \notin Queued(sched')
         /\ sched'.cpu # t]_lvars

(* Closing an endpoint strands nobody: no thread stays Blocked in a Call   *)
(* or Receive on a closed endpoint (Endpoint::close's wake list).          *)
CloseWakesAll ==
  \A t \in Threads :
    pc[t].op \in {"Call", "Receive"} /\ eps[pc[t].obj].closed => sched.thr[t] # "Blocked"

(* A process that reached Zombie has left the scheduler for good: Reap can *)
(* free its stack and page tables ("no CPU can execute in this address     *)
(* space").                                                                *)
ZombieNotExecuting ==
  \A t \in Threads :
    proc[t] \in {"Zombie", "Reaped"} => sched.cpu # t /\ t \notin Queued(sched)

=============================================================================
