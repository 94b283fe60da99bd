------------------------------ MODULE KernelIpc ------------------------------
(***************************************************************************)
(* Threads, the scheduler, endpoints and notifications composed by the     *)
(* system-call dispatcher (syscall.rs), the timer (preemption.rs), the     *)
(* device interrupt handler (exceptions.rs) and the idle thread            *)
(* (thread.rs).                                                            *)
(*                                                                         *)
(* A system call runs with interrupts masked on the only processor, so it  *)
(* is one action up to the context switch inside it.  A thread switched    *)
(* away inside a call keeps the rest of it in pc; the Resume actions are   *)
(* that rest, and while one is due nothing else can happen.  Calls the     *)
(* kernel refuses (Busy, Closed, bad token, current_thread = None) change  *)
(* nothing and are not actions.                                            *)
(***************************************************************************)
EXTENDS Scheduler, Endpoint, FiniteSets

CONSTANTS
  Endpoints, Notifications,
  Boot,         \* the thread that runs when the scheduler is set up
  Program,      \* the operations each user thread's code uses
  MaxCalls      \* bound: calls made by one thread

Operations == {"Call", "Receive", "Reply", "Wait", "Yield", "Start", "Close",
               "Exit", "Terminate", "Reap", "Fault"}

ASSUME CoreAssumption ==
  /\ Boot \in Threads
  /\ Program \in [Threads -> SUBSET Operations]
  /\ MaxCalls \in Nat
  /\ MAX_ENDPOINT_CALLERS \in Nat \ {0}
  /\ Capacity \in Nat

VARIABLES
  sched,        \* the scheduler record of module Scheduler
  eps,          \* ENDPOINTS
  notifs,       \* NOTIFICATIONS
  pc,           \* where each thread is: in user mode or inside a call
  inbox,        \* Thread.ipc_receive_buffer
  held,         \* the reply tokens a thread received, with their messages
  ncalls        \* calls made so far; <<t, k, e>> is the k-th message of t, sent to e

vars == <<sched, eps, notifs, pc, inbox, held, ncalls>>

User == [op |-> "User", obj |-> None, msg |-> <<>>]

In(op, obj, msg) == [op |-> op, obj |-> obj, msg |-> msg]

(* The CPU is in user mode of t, and the dispatcher knows t as current. *)
Syscall(t, op) ==
  /\ sched.up
  /\ sched.cpu = t
  /\ sched.cur = t
  /\ pc[t].op = "User"
  /\ op \in Program[t]

Resuming(t, op) == sched.up /\ sched.cpu = t /\ pc[t].op = op

(* Interrupts are open: user mode, or the idle thread's hlt. *)
Interruptible == sched.up /\ (sched.cpu \in Threads => pc[sched.cpu].op = "User")
-----------------------------------------------------------------------------
Init ==
  /\ sched = [thr |-> [t \in AllThreads |->
                         IF t = Boot THEN "Running" ELSE IF t = Idle THEN "Runnable" ELSE "New"],
              rq |-> <<>>, cur |-> Boot, cpu |-> Boot, up |-> TRUE]
  /\ eps = [e \in Endpoints |-> endpoint_new]
  /\ notifs = [n \in Notifications |-> notification_new]
  /\ pc = [t \in Threads |-> User]
  /\ inbox = [t \in Threads |-> <<>>]
  /\ held = [t \in Threads |-> {}]
  /\ ncalls = [t \in Threads |-> 0]

(* Process Start on a prepared child: its New main thread is queued. *)
Start(t, u) ==
  /\ Syscall(t, "Start")
  /\ sched.thr[u] = "New"
  /\ enqueue_ok(sched, u)
  /\ sched' = enqueue(sched, u)
  /\ UNCHANGED <<eps, notifs, pc, inbox, held, ncalls>>

(* OperationCode::Call.  With no other runnable thread the code does not   *)
(* switch: the caller, now Blocked and no longer current, takes its (empty)*)
(* receive buffer and returns 0.                                           *)
Call(t, e) ==
  /\ Syscall(t, "Call")
  /\ ncalls[t] < MaxCalls
  /\ call_ok(eps[e])
  /\ LET m   == <<t, ncalls[t] + 1, e>>
         r   == eps[e].receiver
         blk == block_current(sched, t)
         wk  == IF r = None THEN blk ELSE apply_wake(blk, r)
     IN  /\ eps' = [eps EXCEPT ![e] = call(@, t, m)]
         /\ ncalls' = [ncalls EXCEPT ![t] = @ + 1]
         /\ IF r # None /\ sched.thr[r] = "Absent"
            THEN sched' = [blk EXCEPT !.up = FALSE] /\ UNCHANGED <<pc, inbox>>
            ELSE IF wk.rq = <<>>
            THEN sched' = wk /\ inbox' = [inbox EXCEPT ![t] = <<>>] /\ UNCHANGED pc
            ELSE /\ sched' = dispatch(wk, t)
                 /\ pc' = [pc EXCEPT ![t] = In("Call", e, m)]
                 /\ UNCHANGED inbox
  /\ UNCHANGED <<notifs, held>>

ResumeCall(t) ==
  /\ Resuming(t, "Call")
  /\ inbox' = [inbox EXCEPT ![t] = <<>>]
  /\ pc' = [pc EXCEPT ![t] = User]
  /\ UNCHANGED <<sched, eps, notifs, held, ncalls>>

(* OperationCode::Receive: a queued call is delivered at once; otherwise   *)
(* the receiver blocks, and looks for a call when it runs again.           *)
Receive(t, e) ==
  /\ Syscall(t, "Receive")
  /\ receive_ok(eps[e])
  /\ eps' = [eps EXCEPT ![e] = receive(@, t)]
  /\ LET blk == block_current(sched, t)
     IN  \/ /\ eps[e].state = "CallersPending"
            /\ held' = [held EXCEPT ![t] =
                 @ \cup {<<make_reply_token(eps[e], Head(eps[e].callers).caller),
                           Head(eps[e].callers).message>>}]
            /\ UNCHANGED <<sched, pc>>
         \/ /\ eps[e].state = "Idle"
            /\ IF blk.rq = <<>>
               THEN sched' = blk /\ UNCHANGED pc
               ELSE /\ sched' = dispatch(blk, t)
                    /\ pc' = [pc EXCEPT ![t] = In("Receive", e, <<>>)]
            /\ UNCHANGED held
  /\ UNCHANGED <<notifs, inbox, ncalls>>

ResumeReceive(t) ==
  /\ Resuming(t, "Receive")
  /\ pc' = [pc EXCEPT ![t] = User]
  /\ LET e == pc[t].obj
     IN  IF has_received_call(eps[e])
         THEN /\ held' = [held EXCEPT ![t] = @ \cup {<<eps[e].token, eps[e].message>>}]
              /\ eps' = [eps EXCEPT ![e] = take_received_call(@)]
         ELSE UNCHANGED <<held, eps>>
  /\ UNCHANGED <<sched, notifs, inbox, ncalls>>

(* Mutant of Reply: the caller is woken without its message. *)
Reply_without_message(t, h) ==
  /\ Syscall(t, "Reply")
  /\ \E e \in Endpoints :
       /\ reply_ok(eps[e], h[1])
       /\ LET c  == eps[e].caller
              wk == apply_wake(sched, c)
          IN  /\ eps' = [eps EXCEPT ![e] = reply(@)]
              /\ sched' = IF reschedule_ok(wk, t, c) THEN reschedule(wk, t, c)
                          ELSE [wk EXCEPT !.up = FALSE]
  /\ UNCHANGED <<notifs, pc, inbox, held, ncalls>>

(* OperationCode::Reply: the first endpoint that accepts the token wins;   *)
(* the caller gets the answer to the message the token came with, is woken *)
(* and must be switched to (reschedule(..).unwrap()).                      *)
Reply(t, h) ==
  /\ Syscall(t, "Reply")
  /\ \E e \in Endpoints :
       /\ reply_ok(eps[e], h[1])
       /\ LET c  == eps[e].caller
              wk == apply_wake(sched, c)
          IN  /\ eps' = [eps EXCEPT ![e] = reply(@)]
              /\ inbox' = IF sched.thr[c] = "Absent" THEN inbox
                          ELSE [inbox EXCEPT ![c] = h[2]]
              /\ sched' = IF reschedule_ok(wk, t, c) THEN reschedule(wk, t, c)
                          ELSE [wk EXCEPT !.up = FALSE]
  /\ UNCHANGED <<notifs, pc, held, ncalls>>
-----------------------------------------------------------------------------
(* OperationCode::WaitNotification: the one blocking call that falls back  *)
(* to the idle thread when no other thread is runnable.                    *)
Wait(t, n) ==
  /\ Syscall(t, "Wait")
  /\ ~notifs[n].closed
  /\ notifs' = [notifs EXCEPT ![n] = wait(@, t)]
  /\ IF wait_blocks(notifs[n])
     THEN LET blk == block_current(sched, t)
          IN  /\ sched' = IF blk.rq = <<>>
                          THEN switch_to_next([blk EXCEPT !.cur = Idle], Idle)
                          ELSE dispatch(blk, t)
              /\ pc' = [pc EXCEPT ![t] = In("Wait", n, <<>>)]
     ELSE UNCHANGED <<sched, pc>>
  /\ UNCHANGED <<eps, inbox, held, ncalls>>

ResumeWait(t) ==
  /\ Resuming(t, "Wait")
  /\ notifs' = [notifs EXCEPT ![pc[t].obj] = take_signals(@)]
  /\ pc' = [pc EXCEPT ![t] = User]
  /\ UNCHANGED <<sched, eps, inbox, held, ncalls>>

(* device_interrupt_handler's delivery: signal(1) and wake_from_interrupt. *)
Interrupt(n) ==
  /\ Interruptible
  /\ notifs' = [notifs EXCEPT ![n] = signal(@)]
  /\ sched' = LET w == signal_wakes(notifs[n])
              IN  IF w = None THEN sched ELSE apply_wake(sched, w)
  /\ UNCHANGED <<eps, pc, inbox, held, ncalls>>

(* yield_current_thread; its error is a return value. *)
Yield(t) ==
  /\ Syscall(t, "Yield")
  /\ sched.rq # <<>>
  /\ reschedule_ok(sched, t, Head(sched.rq))
  /\ sched' = reschedule(sched, t, Head(sched.rq))
  /\ UNCHANGED <<eps, notifs, pc, inbox, held, ncalls>>

(* timer_tick_and_maybe_preempt from user mode on the tick that ends the   *)
(* quantum.  Every tick may be that one: dispatch does not reset the       *)
(* quantum, so a thread can start with any part of it left.                *)
Preempt ==
  /\ Interruptible
  /\ sched.cpu # Idle
  /\ sched.cur # None
  /\ sched.rq # <<>>
  /\ reschedule_ok(sched, sched.cur, Head(sched.rq))
  /\ sched' = reschedule(sched, sched.cur, Head(sched.rq))
  /\ UNCHANGED <<eps, notifs, pc, inbox, held, ncalls>>

(* idle_thread_entry after hlt; the idle thread's own state stays. *)
IdleDispatch ==
  /\ sched.up
  /\ sched.cpu = Idle
  /\ sched.cur = Idle
  /\ sched.rq # <<>>
  /\ LET next == Head(sched.rq)
         s1   == [sched EXCEPT !.rq = Tail(@), !.cur = next]
     IN  sched' = IF switch_ok(s1, Idle, next) THEN switch_to_next(s1, next)
                  ELSE [s1 EXCEPT !.cur = Idle]
  /\ UNCHANGED <<eps, notifs, pc, inbox, held, ncalls>>

ThreadStep(t) ==
  \/ \E u \in Threads : Start(t, u)
  \/ \E e \in Endpoints : Call(t, e)
  \/ ResumeCall(t)
  \/ \E e \in Endpoints : Receive(t, e)
  \/ ResumeReceive(t)
  \/ \E h \in held[t] : Reply(t, h)
  \/ \E n \in Notifications : Wait(t, n)
  \/ ResumeWait(t)
  \/ Yield(t)

Next ==
  \/ \E t \in Threads : ThreadStep(t)
  \/ \E n \in Notifications : Interrupt(n)
  \/ Preempt
  \/ IdleDispatch

Spec == Init /\ [][Next]_vars
-----------------------------------------------------------------------------
Message == Threads \X Nat \X Endpoints

Token == Threads \X Nat

EndpointType ==
  [state : EndpointState, callers : Seq([caller : Threads, message : Message]),
   receiver : Threads \cup {None}, caller : Threads \cup {None},
   token : Token \cup {<<>>}, message : Message \cup {<<>>},
   seq : Nat, closed : BOOLEAN]

NotificationType ==
  [signals : {0, 1}, waiter : Threads \cup {None}, closed : BOOLEAN]

(* Type invariant of the thread table, scheduler, endpoints, notifications *)
(* and per-thread call state.                                              *)
TypeOK ==
  /\ SchedType(sched)
  /\ eps \in [Endpoints -> EndpointType]
  /\ notifs \in [Notifications -> NotificationType]
  /\ pc \in [Threads -> [op : {"User", "Call", "Receive", "Wait"},
                         obj : Endpoints \cup Notifications \cup {None},
                         msg : Message \cup {<<>>}]]
  /\ inbox \in [Threads -> Message \cup {<<>>}]
  /\ held \in [Threads -> SUBSET (Token \X Message)]
  /\ ncalls \in [Threads -> Nat]

(* Between them the blocking calls, wake-ups, yields, timer and idle       *)
(* switches keep run queue, thread states, current_thread and the CPU      *)
(* consistent (Consistent of module Scheduler).                            *)
SchedConsistent == Consistent(sched)

(* No unwrap() of the IPC paths fails: Reply always finds its caller ready *)
(* to be switched to, Call finds its receiver, every switch finds two      *)
(* distinct threads.                                                       *)
KernelUp == sched.up

(* The run queue can hold every thread, each once (the code fixes 64 in    *)
(* init.rs and does not limit the number of threads to it).                *)
RoomForAll == \A q \in Seq(Threads) : Distinct(q) => Len(q) <= Capacity

(* Where a thread is registered to be woken from. *)
CallPlaces(t) ==
  {p \in Endpoints \X (1..MAX_ENDPOINT_CALLERS) :
     p[2] <= Len(eps[p[1]].callers) /\ eps[p[1]].callers[p[2]].caller = t}
    \cup {<<e, 0>> : e \in {f \in Endpoints : eps[f].caller = t}}

ReceivePlaces(t) == {e \in Endpoints : eps[e].receiver = t}

WaitPlaces(t) == {n \in Notifications : notifs[n].waiter = t}

WakePlaces(t) ==
  {<<"Call", p>> : p \in CallPlaces(t)} \cup {<<"Receive", e>> : e \in ReceivePlaces(t)}
    \cup {<<"Wait", n>> : n \in WaitPlaces(t)}

(* No wake-up is lost and none is owed twice: a Blocked thread is          *)
(* registered in exactly one place that will wake it (an endpoint's queue, *)
(* its outstanding call, its receiver slot, or a notification without      *)
(* pending signals), and a thread that is not Blocked in none.             *)
WakeupPending ==
  \A t \in Threads :
    /\ IF sched.thr[t] = "Blocked" THEN \E p \in WakePlaces(t) : WakePlaces(t) = {p}
                                   ELSE WakePlaces(t) = {}
    /\ \A n \in WaitPlaces(t) : notifs[n].signals = 0

(* A reply reaches only a thread that is inside Call, and was made with a  *)
(* token issued for a call of that thread; if the endpoint the thread is   *)
(* calling issued it, it answers the very call the thread is in, however   *)
(* late or often the server replies.  (A token names a caller and a        *)
(* sequence number, not its endpoint, and Reply offers it to every one.)   *)
ReplyReachesCaller ==
  \A t \in Threads : inbox[t] # <<>> =>
    /\ pc[t].op = "Call" /\ inbox[t][1] = t
    /\ inbox[t][3] = pc[t].obj => inbox[t] = pc[t].msg

(* What ADR 0013 says: a reply authority is tied to its endpoint and to    *)
(* one call, so a reply that reaches a thread answers the call it is in.   *)
ReplyAnswersCall ==
  \A t \in Threads : inbox[t] # <<>> => pc[t].op = "Call" /\ inbox[t] = pc[t].msg

(* A Call that was switched away and resumes has a reply in its receive    *)
(* buffer when it returns 0 to user mode.                                  *)
CallReturnsReply ==
  [][\A t \in Threads : pc[t].op = "Call" /\ pc'[t].op = "User" => inbox[t] # <<>>]_vars

-----------------------------------------------------------------------------
(* The inductive invariant behind the theorems of KernelIpcProofs.         *)

(* The CPU is in user mode of a thread that is no longer current: what     *)
(* Call and Receive leave behind when nothing else is runnable.            *)
Stranded(t) == sched.cur = None /\ sched.cpu = t

(* A registered thread is Blocked inside the call it is registered for. *)
Registered(t, op, o) ==
  /\ t \in Threads
  /\ sched.thr[t] = "Blocked"
  /\ Stranded(t) \/ (pc[t].op = op /\ pc[t].obj = o)

ThreadsAlive ==
  /\ \A t \in Threads : sched.thr[t] \in {"New", "Runnable", "Running", "Blocked"}
  /\ sched.thr[Idle] \in {"Runnable", "Running"}

PcShape ==
  /\ \A t \in Threads : /\ pc[t].op \in {"Call", "Receive"} => pc[t].obj \in Endpoints
                        /\ pc[t].op = "Wait" => pc[t].obj \in Notifications
  /\ sched.cur = None => pc[sched.cpu].op = "User"

EndpointShape ==
  \A e \in Endpoints :
    /\ eps[e].receiver # None => eps[e].state = "ReceiverWaiting"
    /\ eps[e].state = "ReplyOutstanding" => eps[e].caller # None /\ eps[e].token \in Token
    /\ eps[e].caller # None => eps[e].state = "ReplyOutstanding"
    /\ eps[e].state = "CallersPending" => eps[e].callers # <<>>

Registrations ==
  /\ \A e \in Endpoints :
       /\ eps[e].receiver # None => Registered(eps[e].receiver, "Receive", e)
       /\ eps[e].caller # None => Registered(eps[e].caller, "Call", e)
       /\ \A i \in 1..Len(eps[e].callers) : Registered(eps[e].callers[i].caller, "Call", e)
  /\ \A n \in Notifications : notifs[n].waiter # None =>
       Registered(notifs[n].waiter, "Wait", n) /\ ~Stranded(notifs[n].waiter)

CallersOnce ==
  \A e \in Endpoints : \A i \in 1..Len(eps[e].callers) :
    /\ eps[e].callers[i].caller # eps[e].caller
    /\ \A j \in 1..Len(eps[e].callers) :
         eps[e].callers[i].caller = eps[e].callers[j].caller => i = j

IInv ==
  /\ TypeOK
  /\ SchedConsistent
  /\ ThreadsAlive
  /\ PcShape
  /\ EndpointShape
  /\ Registrations
  /\ CallersOnce
-----------------------------------------------------------------------------
(* Fairness.  Of user programs: a thread that gets the CPU again and again *)
(* keeps executing the operations of its program (a dispatch lasts at      *)
(* least until the next timer tick, so it is not preempted for ever before *)
(* its next system call).  Of the kernel: a call that resumes runs on, the *)
(* timer keeps ticking, and the idle thread leaves hlt on an interrupt.    *)
Uses(op) == {t \in Threads : op \in Program[t]}

Fairness ==
  /\ \A t \in Uses("Start") : \A u \in Threads \ {Boot} : SF_vars(Start(t, u))
  /\ \A t \in Uses("Receive") : \A e \in Endpoints : SF_vars(Receive(t, e))
  /\ \A t \in Uses("Reply") : SF_vars(\E h \in held[t] : Reply(t, h))
  /\ \A t \in Uses("Wait") : \A n \in Notifications : SF_vars(Wait(t, n))
  /\ WF_vars(IdleDispatch \/ \E t \in Threads : ResumeCall(t) \/ ResumeReceive(t) \/ ResumeWait(t))
  /\ WF_vars(Preempt)

FairSpec == Spec /\ Fairness

(* Every call to a server that keeps receiving and replying returns. *)
CallCompletes == \A t \in Threads : pc[t].op = "Call" ~> pc[t].op = "User"

(* An interrupt's signal is taken by the thread that waits for it. *)
SignalConsumed == \A n \in Notifications : notifs[n].signals = 1 ~> notifs[n].signals = 0
=============================================================================
