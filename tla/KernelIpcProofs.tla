--------------------------- MODULE KernelIpcProofs ---------------------------
(***************************************************************************)
(* Theorems about the IPC core, for any set of threads, endpoints and      *)
(* notifications, any programs and any queue capacity.  IInv (KernelIpc)   *)
(* is inductive: KernelStepProofs has one lemma per action, used here.     *)
(* The second part is about wake-ups (WInv), the third about replies       *)
(* (RInv).                                                                 *)
(***************************************************************************)
EXTENDS KernelStepProofs

(* The provers a leaf is tried with that names none *)
USE ZenonT(3), SMTT(30), Z3T(30)
-----------------------------------------------------------------------------
(* The scheduler set up by init.rs satisfies the invariant. *)
LEMMA InitInv ==
  ASSUME Init
  PROVE  IInv /\ sched.up
<1>1. Boot \in Threads /\ Boot # Idle /\ Boot # None
  BY CoreAssumption, IdentitiesDistinct
<1>2. \A t \in AllThreads : sched.thr[t] = IF t = Boot THEN "Running" ELSE IF t = Idle THEN "Runnable" ELSE "New"
  BY DEF Init
<1>3. sched.rq = <<>> /\ sched.cur = Boot /\ sched.cpu = Boot /\ sched.up = TRUE
  BY DEF Init
<1>4. SchedType(sched)
  BY <1>1 DEF Init, SchedType, AllThreads, ThreadState
<1>5. Consistent(sched)
  BY <1>1, <1>2, <1>3, IdentitiesDistinct DEF Consistent, Queued, Elems, Distinct, AllThreads
<1>6. endpoint_new \in EndpointType /\ notification_new \in NotificationType
  BY DEF endpoint_new, EndpointType, EndpointState, notification_new, NotificationType
<1>7. TypeOK
  BY <1>4, <1>6 DEF Init, TypeOK, User
<1>8. ThreadsAlive
  BY <1>1, <1>2, IdentitiesDistinct DEF ThreadsAlive, AllThreads
<1>9. PcShape
  BY <1>1, <1>3 DEF Init, PcShape, User
<1>10. EndpointShape /\ Registrations /\ CallersOnce
  BY DEF Init, EndpointShape, Registrations, CallersOnce, endpoint_new, notification_new
<1> QED BY <1>3, <1>5, <1>7, <1>8, <1>9, <1>10 DEF IInv, SchedConsistent

(* Every step preserves the invariant, and no step panics while the run    *)
(* queue has room for every thread.                                        *)
LEMMA NextInv ==
  ASSUME IInv, [Next]_vars
  PROVE  IInv' /\ (RoomForAll => sched'.up = sched.up)
<1>1. CASE UNCHANGED vars
  <2>1. /\ sched' = sched /\ eps' = eps /\ notifs' = notifs /\ pc' = pc
        /\ inbox' = inbox /\ held' = held /\ ncalls' = ncalls
    BY <1>1 DEF vars
  <2>2. TypeOK'
    BY <2>1 DEF IInv, TypeOK
  <2>3. SchedConsistent' /\ ThreadsAlive'
    BY <2>1 DEF IInv, SchedConsistent, ThreadsAlive
  <2>4. PcShape' /\ EndpointShape' /\ CallersOnce'
    BY ZenonT(30), <2>1 DEF IInv, PcShape, EndpointShape, CallersOnce
  <2>5. \A u, op, o : /\ Registered(u, op, o) => Registered(u, op, o)'
                      /\ ~Stranded(u) => ~Stranded(u)'
    BY <2>1 DEF Registered, Stranded
  <2>6. Registrations'
    BY <2>1, <2>5 DEF IInv, Registrations
  <2> QED BY <2>1, <2>2, <2>3, <2>4, <2>6 DEF IInv
<1>2. ASSUME NEW t \in Threads, ThreadStep(t)
      PROVE  IInv' /\ (RoomForAll => sched'.up = sched.up)
  <2>1. CASE \E u \in Threads : Start(t, u)
    BY <2>1, StartStep
  <2>2. CASE \E e \in Endpoints : Call(t, e)
    BY <2>2, CallStep
  <2>3. CASE ResumeCall(t)
    BY <2>3, ResumeCallStep
  <2>4. CASE \E e \in Endpoints : Receive(t, e)
    BY <2>4, ReceiveStep
  <2>5. CASE ResumeReceive(t)
    BY <2>5, ResumeReceiveStep
  <2>6. CASE \E h \in held[t] : Reply(t, h)
    BY <2>6, ReplyStep
  <2>7. CASE \E n \in Notifications : Wait(t, n)
    BY <2>7, WaitStep
  <2>8. CASE ResumeWait(t)
    BY <2>8, ResumeWaitStep
  <2>9. CASE Yield(t)
    BY <2>9, YieldStep
  <2> QED BY <1>2, <2>1, <2>2, <2>3, <2>4, <2>5, <2>6, <2>7, <2>8, <2>9 DEF ThreadStep
<1>3. CASE \E n \in Notifications : Interrupt(n)
  BY <1>3, InterruptStep
<1>4. CASE Preempt
  BY <1>4, PreemptStep
<1>5. CASE IdleDispatch
  BY <1>5, IdleDispatchStep
<1> QED BY <1>1, <1>2, <1>3, <1>4, <1>5 DEF Next

(* The inductive invariant holds in every reachable state. *)
THEOREM Invariance == Spec => []IInv
<1>1. Init => IInv
  BY InitInv
<1>2. IInv /\ [Next]_vars => IInv'
  BY NextInv
<1> QED BY <1>1, <1>2, PTL DEF Spec

(* Type correctness of the IPC core. *)
THEOREM TypeCorrect == Spec => []TypeOK
<1>1. IInv => TypeOK
  BY DEF IInv
<1> QED BY <1>1, Invariance, PTL

(* Blocking calls, wake-ups, yields, timer and idle switches keep run      *)
(* queue, thread states, current_thread and CPU consistent, for any number *)
(* of threads and any queue capacity.                                      *)
THEOREM SchedulerConsistent == Spec => []SchedConsistent
<1>1. IInv => SchedConsistent
  BY DEF IInv
<1> QED BY <1>1, Invariance, PTL

(* No unwrap() of Call, Receive, Reply, WaitNotification, Yield or the     *)
(* idle thread fails as long as the run queue has room for every thread.   *)
THEOREM NoPanic == ASSUME RoomForAll PROVE Spec => []KernelUp
<1>1. Init => IInv /\ KernelUp
  BY InitInv DEF KernelUp
<1>2. IInv /\ KernelUp /\ [Next]_vars => KernelUp'
  BY NextInv DEF KernelUp
<1> QED BY <1>1, <1>2, Invariance, PTL DEF Spec
-----------------------------------------------------------------------------
(* What the core owes its threads: a blocked thread is registered once     *)
(* where it will be woken, a reply answers the call its thread is in, and  *)
(* a call that returns has its reply.  Each rests on IInv and on one more  *)
(* inductive invariant.                                                    *)

(* One thread waits for notifications: notification.rs has room for one    *)
(* waiter, and a second wait replaces the first.                           *)
OneWaiter == \A t, u \in Threads : "Wait" \in Program[t] \cap Program[u] => t = u

(* Thread t is registered at object o for the operation op. *)
At(t, op, o) ==
  \/ op = "Receive" /\ o \in Endpoints /\ eps[o].receiver = t
  \/ /\ op = "Call" /\ o \in Endpoints
     /\ eps[o].caller = t \/ \E i \in 1..Len(eps[o].callers) : eps[o].callers[i].caller = t
  \/ op = "Wait" /\ o \in Notifications /\ notifs[o].waiter = t

(* Every Blocked thread is registered somewhere. *)
Homes == \A t \in Threads : sched.thr[t] = "Blocked" =>
           \E op \in {"Call", "Receive", "Wait"} :
             \E o \in Endpoints \cup Notifications : At(t, op, o)

(* Also the thread that Call or Receive left without a switch is           *)
(* registered once.                                                        *)
StrandedOnce ==
  sched.cur = None =>
    \A op1, op2 \in {"Call", "Receive", "Wait"} : \A o1, o2 \in Endpoints \cup Notifications :
      At(sched.cpu, op1, o1) /\ At(sched.cpu, op2, o2) => op1 = op2 /\ o1 = o2

(* A waiter finds no signals, and is a thread whose program waits. *)
WaitersWait ==
  \A n \in Notifications : notifs[n].waiter # None =>
    notifs[n].signals = 0 /\ "Wait" \in Program[notifs[n].waiter]

(* MAX_ENDPOINT_CALLERS bounds every queue of callers. *)
CallersBounded == \A e \in Endpoints : Len(eps[e].callers) <= MAX_ENDPOINT_CALLERS

WInv == Homes /\ StrandedOnce /\ WaitersWait /\ CallersBounded

(* Messages and reply tokens of endpoint e belong to the calls their       *)
(* threads are in, and no token handed out for a message to e is younger   *)
(* than the endpoint's sequence number.                                    *)
Matched(e) ==
  /\ \A i \in 1..Len(eps[e].callers) :
       eps[e].callers[i].message = pc[eps[e].callers[i].caller].msg
  /\ eps[e].state = "ReplyOutstanding" =>
       /\ eps[e].token[1] = eps[e].caller /\ eps[e].token[2] <= eps[e].seq
       /\ eps[e].message # <<>> => eps[e].message = pc[eps[e].caller].msg
       /\ \A t \in Threads : \A h \in held[t] :
            h[2][3] = e /\ h[1] = eps[e].token => h[2] = pc[eps[e].caller].msg
  /\ eps[e].state # "ReplyOutstanding" => eps[e].message = <<>>
  /\ \A t \in Threads : \A h \in held[t] : h[2][3] = e => h[1][2] <= eps[e].seq

(* The message of a call names its caller and the endpoint called. *)
OwnCalls ==
  \A t \in Threads : pc[t].op = "Call" => pc[t].msg[1] = t /\ pc[t].msg[3] = pc[t].obj

(* A token names the sender of the message it came with. *)
OwnTokens == \A t \in Threads : \A h \in held[t] : h[1][1] = h[2][1]

RInv == /\ sched.cur # None => \A e \in Endpoints : Matched(e)
        /\ OwnCalls /\ OwnTokens /\ ReplyReachesCaller

(* A thread inside Call is Blocked until its reply is in its buffer. *)
CallersAnswered ==
  \A t \in Threads : pc[t].op = "Call" => sched.thr[t] = "Blocked" \/ inbox[t] # <<>>
-----------------------------------------------------------------------------
(* A registered thread is Blocked, in the call it is registered for. *)
LEMMA AtRegistered ==
  ASSUME IInv, NEW t \in Threads, NEW op, NEW o, At(t, op, o)
  PROVE  Registered(t, op, o) /\ (op = "Wait" => ~Stranded(t))
<1>1. t # None
  BY IdentitiesDistinct
<1>2. CASE op = "Receive" /\ o \in Endpoints /\ eps[o].receiver = t
  BY <1>1, <1>2 DEF IInv, Registrations
<1>3. CASE /\ op = "Call" /\ o \in Endpoints
           /\ eps[o].caller = t \/ \E i \in 1..Len(eps[o].callers) : eps[o].callers[i].caller = t
  BY <1>1, <1>3 DEF IInv, Registrations
<1>4. CASE op = "Wait" /\ o \in Notifications /\ notifs[o].waiter = t
  BY <1>1, <1>4 DEF IInv, Registrations
<1> QED BY <1>2, <1>3, <1>4 DEF At

(* The thread that makes a call is registered nowhere. *)
LEMMA RunnerNowhere ==
  ASSUME IInv, NEW t \in Threads, sched.cur = t
  PROVE  \A op, o : ~At(t, op, o)
  BY CallerRuns, AtRegistered DEF Registered

(* A thread is registered at most once. *)
LEMMA AtOnce ==
  ASSUME IInv, StrandedOnce, NEW t \in Threads, NEW op1, NEW o1, NEW op2, NEW o2,
         At(t, op1, o1), At(t, op2, o2)
  PROVE  op1 = op2 /\ o1 = o2
<1>1. CASE Stranded(t)
  BY ZenonT(30), <1>1 DEF StrandedOnce, Stranded, At
<1>2. CASE ~Stranded(t)
  BY <1>2, AtRegistered DEF Registered
<1> QED BY <1>1, <1>2

(* A step that registers nobody, blocks nobody and keeps the registration  *)
(* of every thread that stays Blocked.                                     *)
LEMMA QuietHomes ==
  ASSUME IInv, Homes, StrandedOnce,
         \A u \in Threads : \A op, o : At(u, op, o)' => At(u, op, o),
         \A u \in Threads : \A op, o : At(u, op, o) /\ sched'.thr[u] = "Blocked" => At(u, op, o)',
         \A u \in Threads : sched'.thr[u] = "Blocked" => sched.thr[u] = "Blocked",
         sched'.cur = None => sched.cur = None /\ sched'.cpu = sched.cpu
  PROVE  Homes' /\ StrandedOnce'
<1>1. Homes'
  <2> SUFFICES ASSUME NEW t \in Threads, sched'.thr[t] = "Blocked"
               PROVE  \E op \in {"Call", "Receive", "Wait"} :
                        \E o \in Endpoints \cup Notifications : At(t, op, o)'
    BY DEF Homes
  <2>1. PICK op \in {"Call", "Receive", "Wait"}, o \in Endpoints \cup Notifications : At(t, op, o)
    BY DEF Homes
  <2>2. At(t, op, o)'
    BY <2>1
  <2> QED BY <2>2
<1>2. StrandedOnce'
  <2> SUFFICES ASSUME sched'.cur = None,
                      NEW op1 \in {"Call", "Receive", "Wait"}, NEW op2 \in {"Call", "Receive", "Wait"},
                      NEW o1 \in Endpoints \cup Notifications, NEW o2 \in Endpoints \cup Notifications,
                      At(sched.cpu, op1, o1)', At(sched.cpu, op2, o2)'
               PROVE  op1 = op2 /\ o1 = o2
    BY DEF StrandedOnce
  <2> DEFINE c == sched.cpu
  <2>1. sched.cur = None /\ sched'.cpu = c /\ c \in Threads
    BY DEF IInv, TypeOK, SchedType, SchedConsistent, Consistent, AllThreads
  <2>2. \A op, o : At(sched.cpu, op, o)' => At(c, op, o)
    <3>1. \A u \in Threads : \A op, o : sched'.cpu = u /\ At(sched.cpu, op, o)' => At(u, op, o)'
      BY DEF At
    <3> QED BY <2>1, <3>1
  <2> QED BY <2>1, <2>2 DEF StrandedOnce
<1> QED BY <1>1, <1>2

(* A step that registers the running thread t and keeps the registration   *)
(* of every thread that stays Blocked.                                     *)
LEMMA BlockHomes ==
  ASSUME IInv, Homes, NEW t \in Threads, sched.cur = t,
         NEW op0 \in {"Call", "Receive", "Wait"}, NEW o0 \in Endpoints \cup Notifications,
         At(t, op0, o0)',
         \A u \in Threads : \A op, o :
           At(u, op, o)' => At(u, op, o) \/ (u = t /\ op = op0 /\ o = o0),
         \A u \in Threads : \A op, o : At(u, op, o) /\ sched'.thr[u] = "Blocked" => At(u, op, o)',
         \A u \in Threads : sched'.thr[u] = "Blocked" => sched.thr[u] = "Blocked" \/ u = t,
         sched'.cur = None => sched'.cpu = t
  PROVE  Homes' /\ StrandedOnce'
<1>1. Homes'
  <2> SUFFICES ASSUME NEW u \in Threads, sched'.thr[u] = "Blocked"
               PROVE  \E op \in {"Call", "Receive", "Wait"} :
                        \E o \in Endpoints \cup Notifications : At(u, op, o)'
    BY DEF Homes
  <2>1. CASE u = t
    BY <2>1
  <2>2. CASE u # t
    <3>1. PICK op \in {"Call", "Receive", "Wait"}, o \in Endpoints \cup Notifications : At(u, op, o)
      BY <2>2 DEF Homes
    <3>2. At(u, op, o)'
      BY <3>1
    <3> QED BY <3>2
  <2> QED BY <2>1, <2>2
<1>2. StrandedOnce'
  <2> SUFFICES ASSUME sched'.cur = None,
                      NEW op1 \in {"Call", "Receive", "Wait"}, NEW op2 \in {"Call", "Receive", "Wait"},
                      NEW o1 \in Endpoints \cup Notifications, NEW o2 \in Endpoints \cup Notifications,
                      At(sched.cpu, op1, o1)', At(sched.cpu, op2, o2)'
               PROVE  op1 = op2 /\ o1 = o2
    BY DEF StrandedOnce
  <2>1. \A op, o : At(sched.cpu, op, o)' => op = op0 /\ o = o0
    <3>1. \A op, o : At(sched.cpu, op, o)' => At(t, op, o)'
      BY DEF At
    <3> QED BY ZenonT(30), <3>1, RunnerNowhere
  <2> QED BY <2>1
<1> QED BY <1>1, <1>2

(* Registrations depend on these fields only. *)
LEMMA SameAt ==
  ASSUME \A e \in Endpoints : /\ eps'[e].receiver = eps[e].receiver
                              /\ eps'[e].caller = eps[e].caller
                              /\ eps'[e].callers = eps[e].callers,
         \A n \in Notifications : notifs'[n].waiter = notifs[n].waiter
  PROVE  \A u, op, o : At(u, op, o)' <=> At(u, op, o)
  BY DEF At

(* A step that leaves the registrations alone and blocks nobody. *)
LEMMA QuietWake ==
  ASSUME IInv, WInv,
         \A e \in Endpoints : /\ eps'[e].receiver = eps[e].receiver
                              /\ eps'[e].caller = eps[e].caller
                              /\ eps'[e].callers = eps[e].callers,
         \A n \in Notifications : /\ notifs'[n].waiter = notifs[n].waiter
                                  /\ notifs'[n].signals \in {0, notifs[n].signals},
         \A u \in Threads : sched'.thr[u] = "Blocked" => sched.thr[u] = "Blocked",
         sched'.cur = None => sched.cur = None /\ sched'.cpu = sched.cpu
  PROVE  WInv'
<1>1. \A u, op, o : At(u, op, o)' <=> At(u, op, o)
  BY SameAt
<1>2. Homes' /\ StrandedOnce'
  BY <1>1, QuietHomes DEF WInv
<1>3. WaitersWait'
  BY DEF WInv, WaitersWait
<1>4. CallersBounded'
  BY DEF WInv, CallersBounded
<1> QED BY <1>2, <1>3, <1>4 DEF WInv

(* Rotating the run queue, dispatching from the idle thread and starting a *)
(* child neither block nor unblock a thread.                               *)
SameBlocked ==
  /\ \A u \in Threads : sched'.thr[u] = "Blocked" <=> sched.thr[u] = "Blocked"
  /\ sched'.cur = None <=> sched.cur = None
  /\ sched.cur = None => sched'.cpu = sched.cpu

(* Rotation does not. *)
LEMMA RotateSame ==
  ASSUME IInv, NEW t \in Threads, sched.cur = t, sched.rq # <<>>,
         sched' = reschedule(sched, t, Head(sched.rq))
  PROVE  SameBlocked
<1> DEFINE h == Head(sched.rq)
<1>1. SchedType(sched) /\ Consistent(sched)
  BY DEF IInv, TypeOK, SchedConsistent
<1>2. /\ sched'.thr = [[sched.thr EXCEPT ![t] = "Runnable"] EXCEPT ![h] = "Running"]
      /\ sched'.cur = h /\ h \in Threads /\ reschedule_ok(sched, t, h)
  BY <1>1, Reschedule
<1>3. sched.thr[t] = "Running" /\ sched.thr[h] = "Runnable"
  BY <1>2 DEF reschedule_ok
<1> HIDE DEF h
<1>4. \A u \in Threads : sched'.thr[u] = "Blocked" <=> sched.thr[u] = "Blocked"
  BY <1>1, <1>2, <1>3, Fields DEF AllThreads
<1> QED BY <1>2, <1>4, IdentitiesDistinct DEF SameBlocked

(* Neither does the idle thread when it finds work, *)
LEMMA IdleDispatchSame ==
  ASSUME IInv, IdleDispatch
  PROVE  SameBlocked
<1> DEFINE h == Head(sched.rq)
           s1 == [sched EXCEPT !.rq = Tail(@), !.cur = h]
<1>1. SchedType(sched) /\ Consistent(sched) /\ sched.rq # <<>> /\ sched.cpu = Idle /\ sched.cur = Idle
  BY DEF IInv, TypeOK, SchedConsistent, IdleDispatch
<1>2. /\ switch_to_next(s1, h).thr = [sched.thr EXCEPT ![h] = "Running"]
      /\ switch_to_next(s1, h).cur = h
      /\ h \in Threads /\ h # sched.cpu /\ sched.thr[h] = "Runnable"
  BY <1>1, SwitchToHead
<1>3. switch_ok(s1, Idle, h)
  BY <1>1, <1>2 DEF switch_ok, SchedType, IInv, ThreadsAlive
<1>4. sched' = switch_to_next(s1, h)
  BY <1>3 DEF IdleDispatch
<1> HIDE DEF h, s1
<1>5. \A u \in Threads : sched'.thr[u] = "Blocked" <=> sched.thr[u] = "Blocked"
  BY <1>1, <1>2, <1>4, Fields DEF AllThreads
<1> QED BY <1>1, <1>2, <1>4, <1>5, IdentitiesDistinct DEF SameBlocked

(* nor Start, *)
LEMMA StartSame ==
  ASSUME IInv, NEW t \in Threads, NEW u \in Threads, Start(t, u)
  PROVE  SameBlocked
<1>1. SchedType(sched) /\ Consistent(sched) /\ sched.thr[u] = "New" /\ enqueue_ok(sched, u)
  BY DEF Start, Syscall, IInv, TypeOK, SchedConsistent
<1>2. /\ sched'.thr = [sched.thr EXCEPT ![u] = "Runnable"]
      /\ sched'.cur = sched.cur /\ sched'.cpu = sched.cpu
  BY <1>1, EnqueueNew DEF Start
<1>3. \A v \in Threads : sched'.thr[v] = "Blocked" <=> sched.thr[v] = "Blocked"
  BY <1>1, <1>2, Fields DEF AllThreads
<1> QED BY <1>2, <1>3 DEF SameBlocked

(* The steps of Next that change the scheduler only. *)
SchedulingOnly ==
  /\ UNCHANGED <<eps, notifs, pc, inbox, held, ncalls>>
  /\ \/ \E t, u \in Threads : Start(t, u)
     \/ \E t \in Threads : Yield(t)
     \/ Preempt
     \/ IdleDispatch
     \/ UNCHANGED vars

(* nor anything else that only schedules. *)
LEMMA SchedulingSame ==
  ASSUME IInv, SchedulingOnly
  PROVE  SameBlocked
<1>1. CASE \E t, u \in Threads : Start(t, u)
  BY <1>1, StartSame
<1>2. CASE \E t \in Threads : Yield(t)
  BY <1>2, RotateSame DEF Yield, Syscall
<1>3. CASE Preempt
  <2>1. sched.cur \in Threads
    BY <1>3 DEF Preempt, IInv, TypeOK, SchedType, SchedConsistent, Consistent, AllThreads
  <2> QED BY <1>3, <2>1, RotateSame DEF Preempt
<1>4. CASE IdleDispatch
  BY <1>4, IdleDispatchSame
<1>5. CASE UNCHANGED vars
  BY <1>5 DEF vars, SameBlocked
<1> QED BY <1>1, <1>2, <1>3, <1>4, <1>5 DEF SchedulingOnly

(* Next by cases: scheduling, resuming, an interrupt, a blocking call or a *)
(* reply.                                                                  *)
LEMMA NextCases ==
  ASSUME [Next]_vars
  PROVE  \/ SchedulingOnly
         \/ \E n \in Notifications : Interrupt(n)
         \/ \E t \in Threads :
              \/ ResumeCall(t) \/ ResumeReceive(t) \/ ResumeWait(t)
              \/ \E e \in Endpoints : Call(t, e) \/ Receive(t, e)
              \/ \E h \in held[t] : Reply(t, h)
              \/ \E n \in Notifications : Wait(t, n)
<1>1. CASE \E t \in Threads : Yield(t) \/ \E u \in Threads : Start(t, u)
  BY <1>1 DEF SchedulingOnly, Yield, Start
<1>2. CASE Preempt \/ IdleDispatch \/ UNCHANGED vars
  BY <1>2 DEF SchedulingOnly, Preempt, IdleDispatch, vars
<1> QED BY <1>1, <1>2 DEF Next, ThreadStep

(* The rest of a call that was switched away registers nobody. *)
LEMMA ResumeWake ==
  ASSUME IInv, WInv, NEW t \in Threads, ResumeCall(t) \/ ResumeReceive(t) \/ ResumeWait(t)
  PROVE  WInv'
<1>1. sched' = sched
  BY DEF ResumeCall, ResumeReceive, ResumeWait
<1>2. \A e \in Endpoints : /\ eps'[e].receiver = eps[e].receiver
                           /\ eps'[e].caller = eps[e].caller
                           /\ eps'[e].callers = eps[e].callers
  <2>1. \A ep \in EndpointType : LET r == take_received_call(ep)
          IN  r.receiver = ep.receiver /\ r.caller = ep.caller /\ r.callers = ep.callers
    BY DEF EndpointType, take_received_call
  <2>2. eps \in [Endpoints -> EndpointType]
    BY DEF IInv, TypeOK
  <2>3. eps' = eps \/ eps' = [eps EXCEPT ![pc[t].obj] = take_received_call(@)]
    BY DEF ResumeCall, ResumeReceive, ResumeWait
  <2> QED BY <2>1, <2>2, <2>3
<1>3. \A n \in Notifications : /\ notifs'[n].waiter = notifs[n].waiter
                               /\ notifs'[n].signals \in {0, notifs[n].signals}
  <2>1. \A nt \in NotificationType : take_signals(nt).waiter = nt.waiter /\ take_signals(nt).signals = 0
    BY DEF NotificationType, take_signals
  <2>2. notifs \in [Notifications -> NotificationType]
    BY DEF IInv, TypeOK
  <2>3. notifs' = notifs \/ notifs' = [notifs EXCEPT ![pc[t].obj] = take_signals(@)]
    BY DEF ResumeCall, ResumeReceive, ResumeWait
  <2> QED BY <2>1, <2>2, <2>3
<1> QED BY <1>1, <1>2, <1>3, QuietWake
-----------------------------------------------------------------------------
(* With room for all, the run queue takes any Blocked thread. *)
LEMMA Room ==
  ASSUME RoomForAll, NEW s, SchedType(s), Consistent(s), NEW t \in Threads, s.thr[t] = "Blocked"
  PROVE  Len(s.rq) < Capacity
<1>1. Distinct(s.rq) /\ t \notin Elems(s.rq) /\ s.rq \in Seq(Threads)
  BY Fields DEF Consistent, Queued
<1> QED BY <1>1, QueueRoom

(* A device interrupt wakes the waiter it unregisters. *)
LEMMA InterruptWake ==
  ASSUME IInv, WInv, RoomForAll, NEW n \in Notifications, Interrupt(n)
  PROVE  WInv'
<1> DEFINE w == signal_wakes(notifs[n])
<1>1. SchedType(sched) /\ Consistent(sched) /\ notifs[n] \in NotificationType
  BY DEF IInv, TypeOK, SchedConsistent
<1>2. UNCHANGED <<eps, pc>> /\ \A m \in Notifications : notifs'[m] = IF m = n THEN signal(notifs[n]) ELSE notifs[m]
  BY DEF Interrupt, IInv, TypeOK
<1>3. /\ signal(notifs[n]).waiter \in {None, notifs[n].waiter}
      /\ signal(notifs[n]).waiter # None => signal(notifs[n]) = notifs[n]
      /\ signal(notifs[n]).waiter # notifs[n].waiter => w = notifs[n].waiter /\ w # None
  BY <1>1 DEF signal, signal_wakes, NotificationType
<1>4. w # None => w \in Threads /\ sched.thr[w] = "Blocked" /\ w # sched.cpu
  <2> HAVE w # None
  <2>1. w = notifs[n].waiter
    BY DEF signal_wakes
  <2>2. Registered(w, "Wait", n) /\ ~Stranded(w)
    BY <2>1 DEF IInv, Registrations
  <2> QED BY <1>1, <2>2, IdentitiesDistinct DEF Registered, Stranded, Consistent
<1> HIDE DEF w
<1>5. /\ sched'.cur = sched.cur /\ sched'.cpu = sched.cpu
      /\ \A u \in Threads : sched'.thr[u] = "Blocked" => sched.thr[u] = "Blocked" /\ (w # None => u # w)
  <2>1. CASE w = None
    <3>1. sched' = sched
      BY <2>1 DEF Interrupt, w
    <3> QED BY <2>1, <3>1
  <2>2. CASE w # None
    <3>1. sched' = apply_wake(sched, w) /\ Len(sched.rq) < Capacity
      BY <1>1, <1>4, <2>2, Room DEF Interrupt, w
    <3>2. sched'.thr = [sched.thr EXCEPT ![w] = "Runnable"] /\ sched'.cur = sched.cur /\ sched'.cpu = sched.cpu
      BY <1>1, <1>4, <2>2, <3>1, ApplyWakeFields
    <3> QED BY <1>1, <1>4, <2>2, <3>2, Fields DEF AllThreads
  <2> QED BY <2>1, <2>2
<1>6. \A u \in Threads : \A op, o : At(u, op, o)' => At(u, op, o)
  BY <1>2, <1>3, IdentitiesDistinct DEF At
<1>7. \A u \in Threads : \A op, o : At(u, op, o) /\ sched'.thr[u] = "Blocked" => At(u, op, o)'
  BY <1>2, <1>3, <1>5 DEF At
<1>8. Homes' /\ StrandedOnce'
  BY <1>5, <1>6, <1>7, QuietHomes DEF WInv
<1>9. WaitersWait'
  BY <1>2, <1>3 DEF WInv, WaitersWait
<1>10. CallersBounded'
  BY <1>2 DEF WInv, CallersBounded
<1> QED BY <1>8, <1>9, <1>10 DEF WInv

(* Blocking leaves the run queue alone. *)
LEMMA BlockQueue ==
  ASSUME IInv, NEW t \in Threads
  PROVE  block_current(sched, t).rq = sched.rq
<1>1. SchedType(sched)
  BY DEF IInv, TypeOK
<1> QED BY <1>1 DEF block_current, SchedType

(* Receive and WaitNotification block the running thread and switch away   *)
(* from it, if there is a thread to switch to.                             *)
LEMMA BlockSched ==
  ASSUME IInv, NEW t \in Threads, sched.cur = t, NEW s,
         \/ s = block_current(sched, t)
         \/ sched.rq # <<>> /\ s = dispatch(block_current(sched, t), t)
         \/ s = switch_to_next([block_current(sched, t) EXCEPT !.cur = Idle], Idle)
  PROVE  /\ \A u \in Threads : s.thr[u] = "Blocked" <=> sched.thr[u] = "Blocked" \/ u = t
         /\ s.cur = None => s.cpu = t
<1> DEFINE b == block_current(sched, t)
<1>1. SchedType(sched) /\ Consistent(sched)
  BY DEF IInv, TypeOK, SchedConsistent
<1>2. /\ SchedType(b) /\ Consistent(b) /\ b.thr = [sched.thr EXCEPT ![t] = "Blocked"]
      /\ b.cur = None /\ b.cpu = t
  BY <1>1, BlockCurrent
<1>3. b.thr[t] = "Blocked" /\ \A u \in Threads : u # t => b.thr[u] = sched.thr[u]
  BY <1>1, <1>2, Fields DEF AllThreads
<1>4. CASE s = b
  BY <1>2, <1>3, <1>4
<1>5. CASE sched.rq # <<>> /\ s = dispatch(b, t)
  <2>1. /\ s.cur \in Threads /\ s.thr[t] = "Blocked"
        /\ \A u \in Threads : u = t \/ s.thr[u] = sched.thr[u]
                              \/ (s.thr[u] = "Running" /\ sched.thr[u] = "Runnable")
    BY <1>5, BlockAndDispatch
  <2> QED BY <2>1, IdentitiesDistinct
<1>6. CASE s = switch_to_next([b EXCEPT !.cur = Idle], Idle)
  <2> HIDE DEF b
  <2>1. s.cur = Idle /\ \A u \in Threads : s.thr[u] = b.thr[u]
    BY ZenonT(30), <1>2, <1>6, SwitchToIdle
  <2> QED BY <1>3, <2>1, IdentitiesDistinct
<1> QED BY <1>4, <1>5, <1>6

(* WaitNotification registers the only thread that waits. *)
LEMMA WaitWake ==
  ASSUME IInv, WInv, OneWaiter, NEW t \in Threads, NEW n \in Notifications, Wait(t, n)
  PROVE  WInv'
<1>1. /\ sched.cur = t /\ "Wait" \in Program[t] /\ eps' = eps /\ notifs[n] \in NotificationType
      /\ \A m \in Notifications : notifs'[m] = IF m = n THEN wait(notifs[n], t) ELSE notifs[m]
  BY DEF Wait, Syscall, IInv, TypeOK
<1>2. CASE ~wait_blocks(notifs[n])
  <2>1. sched' = sched
    BY <1>2 DEF Wait
  <2>2. wait(notifs[n], t).waiter = notifs[n].waiter /\ wait(notifs[n], t).signals = 0
    BY <1>1, <1>2 DEF wait, NotificationType
  <2> QED BY <1>1, <2>1, <2>2, QuietWake
<1>3. CASE wait_blocks(notifs[n])
  <2>1. wait(notifs[n], t).waiter = t /\ wait(notifs[n], t).signals = 0
    BY <1>1, <1>3 DEF wait, wait_blocks, NotificationType
  <2>2. notifs[n].waiter = None
    <3> SUFFICES ASSUME notifs[n].waiter # None PROVE FALSE
      OBVIOUS
    <3>1. notifs[n].waiter \in Threads /\ "Wait" \in Program[notifs[n].waiter]
      BY <1>1 DEF WInv, WaitersWait, NotificationType
    <3>2. notifs[n].waiter = t
      BY <1>1, <3>1 DEF OneWaiter
    <3> QED BY <1>1, <3>2, RunnerNowhere DEF At
  <2>3. /\ \A u \in Threads : sched'.thr[u] = "Blocked" => sched.thr[u] = "Blocked" \/ u = t
        /\ sched'.cur = None => sched'.cpu = t
    <3>1. block_current(sched, t).rq = sched.rq
      BY <1>1, BlockQueue
    <3>2. \/ sched' = block_current(sched, t)
          \/ sched.rq # <<>> /\ sched' = dispatch(block_current(sched, t), t)
          \/ sched' = switch_to_next([block_current(sched, t) EXCEPT !.cur = Idle], Idle)
      BY <1>3, <3>1 DEF Wait
    <3> QED BY <1>1, <3>2, BlockSched
  <2>4. At(t, "Wait", n)'
    BY <1>1, <2>1 DEF At
  <2>5. \A u \in Threads : \A op, o :
          /\ At(u, op, o)' => At(u, op, o) \/ (u = t /\ op = "Wait" /\ o = n)
          /\ At(u, op, o) => At(u, op, o)'
    BY <1>1, <2>1, <2>2, IdentitiesDistinct DEF At
  <2>6. Homes' /\ StrandedOnce'
    BY <1>1, <2>3, <2>4, <2>5, BlockHomes DEF WInv
  <2>7. WaitersWait'
    BY <1>1, <2>1 DEF WInv, WaitersWait
  <2>8. CallersBounded'
    BY <1>1 DEF WInv, CallersBounded
  <2> QED BY <2>6, <2>7, <2>8 DEF WInv
<1> QED BY <1>2, <1>3

(* Receive makes the first queued caller the outstanding one, or registers *)
(* the receiver.                                                           *)
LEMMA ReceiveWake ==
  ASSUME IInv, WInv, NEW t \in Threads, NEW e \in Endpoints, Receive(t, e)
  PROVE  WInv'
<1> DEFINE ep == eps[e]
<1>1. /\ sched.cur = t /\ notifs' = notifs /\ ep \in EndpointType
      /\ \A f \in Endpoints : eps'[f] = IF f = e THEN receive(ep, t) ELSE eps[f]
  BY DEF Receive, Syscall, IInv, TypeOK
<1>2. WaitersWait'
  BY <1>1 DEF WInv, WaitersWait
<1>3. CASE ep.state = "CallersPending"
  <2> DEFINE q == ep.callers
             r == Tail(ep.callers)
  <2>1. q # <<>> /\ ep.caller = None
    BY <1>3 DEF IInv, EndpointShape
  <2>2. /\ receive(ep, t).receiver = ep.receiver
        /\ receive(ep, t).caller = Head(q).caller
        /\ receive(ep, t).callers = r
    BY <1>1, <1>3, <2>1, ReceiveTakes
  <2>3. /\ Len(q) \in Nat /\ Len(r) \in Nat /\ Len(r) <= Len(q) /\ Head(q) = q[1] /\ 1 \in 1..Len(q)
        /\ \A i \in 1..Len(r) : i + 1 \in 1..Len(q) /\ r[i] = q[i + 1]
        /\ \A i \in 1..Len(q) : i = 1 \/ (i - 1 \in 1..Len(r) /\ q[i] = r[i - 1])
    BY <1>1, <2>1 DEF EndpointType
  <2>4. sched' = sched
    BY <1>3 DEF Receive
  <2> HIDE DEF ep, q, r
  <2>5. \A u \in Threads :
          (\E i \in 1..Len(q) : q[i].caller = u) <=> Head(q).caller = u \/ \E i \in 1..Len(r) : r[i].caller = u
    BY ZenonT(30), <2>3
  <2>6. \A u \in Threads : \A op, o : At(u, op, o)' <=> At(u, op, o)
    <3> SUFFICES ASSUME NEW u \in Threads, NEW op, NEW o
                 PROVE  At(u, op, o)' <=> At(u, op, o)
      OBVIOUS
    <3>1. CASE op = "Call" /\ o = e
      BY <1>1, <2>1, <2>2, <2>5, <3>1, IdentitiesDistinct DEF At, q, ep
    <3>2. CASE ~(op = "Call" /\ o = e)
      BY <1>1, <2>2, <3>2 DEF At, ep
    <3> QED BY <3>1, <3>2
  <2>7. Homes' /\ StrandedOnce'
    BY <2>4, <2>6, QuietHomes DEF WInv
  <2>8. CallersBounded'
    <3>1. Len(q) <= MAX_ENDPOINT_CALLERS
      BY DEF WInv, CallersBounded, q, ep
    <3> QED BY <1>1, <2>2, <2>3, <3>1, CoreAssumption DEF WInv, CallersBounded
  <2> QED BY <1>2, <2>7, <2>8 DEF WInv
<1>4. CASE ep.state = "Idle"
  <2>1. /\ receive(ep, t).receiver = t /\ receive(ep, t).caller = ep.caller
        /\ receive(ep, t).callers = ep.callers /\ ep.receiver = None
    BY <1>1, <1>4, ReceiveBlocks DEF IInv, EndpointShape
  <2>2. /\ \A u \in Threads : sched'.thr[u] = "Blocked" => sched.thr[u] = "Blocked" \/ u = t
        /\ sched'.cur = None => sched'.cpu = t
    <3>1. block_current(sched, t).rq = sched.rq
      BY <1>1, BlockQueue
    <3>2. \/ sched' = block_current(sched, t)
          \/ sched.rq # <<>> /\ sched' = dispatch(block_current(sched, t), t)
          \/ sched' = switch_to_next([block_current(sched, t) EXCEPT !.cur = Idle], Idle)
      BY <1>4, <3>1 DEF Receive
    <3> QED BY <1>1, <3>2, BlockSched
  <2> HIDE DEF ep
  <2>3. At(t, "Receive", e)'
    BY <1>1, <2>1 DEF At
  <2>4. \A u \in Threads : \A op, o :
          /\ At(u, op, o)' => At(u, op, o) \/ (u = t /\ op = "Receive" /\ o = e)
          /\ At(u, op, o) => At(u, op, o)'
    BY <1>1, <2>1, IdentitiesDistinct DEF At, ep
  <2>5. Homes' /\ StrandedOnce'
    BY <1>1, <2>2, <2>3, <2>4, BlockHomes DEF WInv
  <2>6. CallersBounded'
    BY <1>1, <2>1 DEF WInv, CallersBounded, ep
  <2> QED BY <1>2, <2>5, <2>6 DEF WInv
<1> QED BY <1>3, <1>4 DEF Receive

(* Reply wakes the caller whose call it ends. *)
LEMMA ReplyWake ==
  ASSUME IInv, WInv, RoomForAll, NEW t \in Threads, NEW h \in held[t], Reply(t, h)
  PROVE  WInv'
<1>1. sched.cur = t /\ sched.up /\ notifs' = notifs
  BY DEF Reply, Syscall
<1>2. PICK e \in Endpoints :
        /\ reply_ok(eps[e], h[1])
        /\ eps' = [eps EXCEPT ![e] = reply(@)]
        /\ LET wk == apply_wake(sched, eps[e].caller)
           IN  sched' = IF reschedule_ok(wk, t, eps[e].caller) THEN reschedule(wk, t, eps[e].caller)
                        ELSE [wk EXCEPT !.up = FALSE]
  BY DEF Reply
<1> DEFINE ep == eps[e]
           c == ep.caller
           wk == apply_wake(sched, c)
<1>3. SchedType(sched) /\ Consistent(sched) /\ ep \in EndpointType
  BY DEF IInv, TypeOK, SchedConsistent
<1>4. c \in Threads /\ sched.thr[c] = "Blocked"
  BY <1>2 DEF reply_ok, IInv, EndpointShape, Registrations, Registered
<1>5. sched.thr[t] = "Running" /\ sched.cpu = t /\ c # t
  BY <1>1, <1>4, CallerRuns
<1>6. /\ \A u \in Threads : sched'.thr[u] = "Blocked" => sched.thr[u] = "Blocked" /\ u # c
      /\ sched'.cur # None
  <2>1. Len(sched.rq) < Capacity
    BY <1>3, <1>4, Room
  <2>2. /\ SchedType(wk) /\ Consistent(wk) /\ wk.thr = [sched.thr EXCEPT ![c] = "Runnable"]
        /\ wk.cur = sched.cur /\ wk.rq # <<>> /\ Head(wk.rq) = c
    BY ZenonT(30), <1>3, <1>4, <1>5, <2>1, ApplyWake
  <2> HIDE DEF wk, c
  <2>3. /\ reschedule_ok(wk, t, Head(wk.rq))
        /\ reschedule(wk, t, Head(wk.rq)).thr = [[wk.thr EXCEPT ![t] = "Runnable"] EXCEPT ![Head(wk.rq)] = "Running"]
        /\ reschedule(wk, t, Head(wk.rq)).cur = Head(wk.rq)
    BY ZenonT(30), <1>1, <2>2, Reschedule
  <2>4. sched' = reschedule(wk, t, c)
    BY <1>2, <2>2, <2>3 DEF wk, c
  <2>5. sched'.thr = [[wk.thr EXCEPT ![t] = "Runnable"] EXCEPT ![c] = "Running"] /\ sched'.cur = c
    BY <2>2, <2>3, <2>4
  <2> QED BY ZenonT(30), <1>3, <1>4, <2>2, <2>5, Fields, IdentitiesDistinct DEF AllThreads
<1>7. /\ reply(ep).receiver = ep.receiver /\ reply(ep).caller = None /\ reply(ep).callers = ep.callers
      /\ \A f \in Endpoints : eps'[f] = IF f = e THEN reply(ep) ELSE eps[f]
  BY <1>2, <1>3, ReplyFrees DEF IInv, TypeOK
<1>8. \A u \in Threads : \A op, o : At(u, op, o)' => At(u, op, o)
  BY <1>1, <1>7, IdentitiesDistinct DEF At
<1>9. \A u \in Threads : \A op, o : At(u, op, o) /\ sched'.thr[u] = "Blocked" => At(u, op, o)'
  BY <1>1, <1>6, <1>7 DEF At
<1>10. Homes' /\ StrandedOnce'
  BY <1>6, <1>8, <1>9, QuietHomes DEF WInv
<1>11. WaitersWait' /\ CallersBounded'
  BY <1>1, <1>7 DEF WInv, WaitersWait, CallersBounded
<1> QED BY <1>10, <1>11 DEF WInv

(* With room for all, Call wakes the receiver it finds waiting. *)
LEMMA CallWakesReceiver ==
  ASSUME IInv, RoomForAll, NEW t \in Threads, NEW e \in Endpoints, Call(t, e), eps[e].receiver # None
  PROVE  sched'.thr[eps[e].receiver] # "Blocked"
<1> DEFINE r == eps[e].receiver
           b == block_current(sched, t)
           wk == apply_wake(b, r)
<1>1. SchedType(sched) /\ Consistent(sched) /\ sched.cur = t
  BY DEF IInv, TypeOK, SchedConsistent, Call, Syscall
<1>2. /\ SchedType(b) /\ Consistent(b) /\ b.thr = [sched.thr EXCEPT ![t] = "Blocked"]
      /\ b.cur = None /\ b.cpu = t /\ sched.thr[t] = "Running"
  BY <1>1, BlockCurrent
<1>3. r \in Threads /\ sched.thr[r] = "Blocked" /\ r # t
  BY <1>2 DEF IInv, Registrations, Registered
<1>4. sched' = IF wk.rq = <<>> THEN wk ELSE dispatch(wk, t)
  BY <1>3 DEF Call
<1> HIDE DEF r, b
<1>5. b.thr[r] = "Blocked"
  BY <1>1, <1>2, <1>3, Fields DEF AllThreads
<1>6. Len(b.rq) < Capacity
  BY <1>2, <1>3, <1>5, Room
<1>7. /\ SchedType(wk) /\ Consistent(wk) /\ wk.thr = [b.thr EXCEPT ![r] = "Runnable"]
      /\ wk.rq # <<>> /\ wk.cur = None /\ wk.cpu = t
  <2>1. r # b.cpu
    BY <1>2, <1>3
  <2>2. SchedType(b) /\ Consistent(b) /\ r \in Threads
    BY <1>2, <1>3
  <2>3. /\ SchedType(wk) /\ Consistent(wk) /\ wk.thr = [b.thr EXCEPT ![r] = "Runnable"]
        /\ wk.cur = b.cur /\ wk.cpu = b.cpu
    BY <1>5, <1>6, <2>1, <2>2, ApplyWakeFields
  <2>4. wk.rq # <<>>
    BY <1>5, <1>6, <2>1, <2>2, ApplyWake
  <2> QED BY <1>2, <2>3, <2>4
<1> HIDE DEF wk
<1>8. dispatch(wk, t).thr = [wk.thr EXCEPT ![Head(wk.rq)] = "Running"]
  BY <1>7, Dispatch
<1>9. wk.thr[r] = "Runnable"
  BY <1>2, <1>3, <1>7, Fields DEF AllThreads
<1>10. sched'.thr[r] \in {"Runnable", "Running"}
  BY <1>3, <1>4, <1>7, <1>8, <1>9, Fields DEF AllThreads
<1> QED BY <1>10 DEF r

(* Call registers the caller, with the endpoint's receiver or in its       *)
(* queue, and wakes the receiver it unregisters.                           *)
LEMMA CallWake ==
  ASSUME IInv, WInv, RoomForAll, NEW t \in Threads, NEW e \in Endpoints, Call(t, e)
  PROVE  WInv'
<1> DEFINE ep == eps[e]
           m == <<t, ncalls[t] + 1, e>>
           r == ep.receiver
           c == call(ep, t, m)
<1>1. /\ sched.cur = t /\ notifs' = notifs /\ call_ok(ep)
      /\ \A f \in Endpoints : eps'[f] = IF f = e THEN c ELSE eps[f]
  BY DEF Call, Syscall, IInv, TypeOK
<1>2. /\ \A u \in Threads : sched'.thr[u] = "Blocked" => sched.thr[u] = "Blocked" \/ u = t
      /\ sched'.cur = None => sched'.cpu = t
  <2>1. /\ \A u \in Threads : \/ u = t
                              \/ sched'.thr[u] = sched.thr[u]
                              \/ sched'.thr[u] = "Running" /\ sched.thr[u] = "Runnable"
                              \/ u = r /\ sched'.thr[u] \in {"Runnable", "Running"}
        /\ sched'.cur \in Threads \/ (sched'.cur = None /\ sched'.cpu = t)
    BY CallSched
  <2> QED BY <2>1, IdentitiesDistinct
<1>3. r # None => sched'.thr[r] # "Blocked"
  BY CallWakesReceiver
<1>4. ep \in EndpointType /\ m \in Message
  BY DEF IInv, TypeOK, Message
<1>5. /\ ep.receiver # None => ep.state = "ReceiverWaiting"
      /\ ep.caller # None => ep.state = "ReplyOutstanding"
  BY DEF IInv, EndpointShape
<1>6. WaitersWait'
  BY <1>1 DEF WInv, WaitersWait
<1>7. CASE ep.state = "ReceiverWaiting"
  <2>1. c.receiver = None /\ c.caller = t /\ c.callers = ep.callers /\ ep.caller = None
    BY <1>4, <1>5, <1>7, CallDelivers
  <2> HIDE DEF c
  <2>2. At(t, "Call", e)'
    BY <1>1, <2>1 DEF At
  <2>3. \A u \in Threads : \A op, o :
          /\ At(u, op, o)' => At(u, op, o) \/ (u = t /\ op = "Call" /\ o = e)
          /\ At(u, op, o) /\ sched'.thr[u] = "Blocked" => At(u, op, o)'
    BY <1>1, <1>3, <2>1, IdentitiesDistinct DEF At
  <2>4. Homes' /\ StrandedOnce'
    BY <1>1, <1>2, <2>2, <2>3, BlockHomes DEF WInv
  <2>5. CallersBounded'
    BY <1>1, <2>1 DEF WInv, CallersBounded
  <2> QED BY <1>6, <2>4, <2>5 DEF WInv
<1>8. CASE ep.state # "ReceiverWaiting"
  <2> DEFINE q == ep.callers
             x == [caller |-> t, message |-> m]
  <2>1. c.receiver = ep.receiver /\ c.caller = ep.caller /\ c.callers = Append(q, x)
    BY <1>4, <1>8, CallQueues
  <2> HIDE DEF c, m, ep
  <2>2. x.caller = t
    OBVIOUS
  <2>3. /\ Len(Append(q, x)) = Len(q) + 1 /\ Len(q) \in Nat
        /\ \A i \in 1..Len(q) : i \in 1..(Len(q) + 1) /\ Append(q, x)[i] = q[i]
        /\ \A i \in 1..(Len(q) + 1) : i \in 1..Len(q) \/ i = Len(q) + 1
        /\ Len(q) + 1 \in 1..(Len(q) + 1) /\ Append(q, x)[Len(q) + 1] = x
    <3>1. q \in Seq([caller : Threads, message : Message]) /\ x \in [caller : Threads, message : Message]
      BY <1>4 DEF EndpointType
    <3> HIDE DEF q, x
    <3> QED BY <3>1
  <2> HIDE DEF q, x
  <2>4. \A u : (\E i \in 1..Len(c.callers) : c.callers[i].caller = u)
                 <=> u = t \/ \E i \in 1..Len(q) : q[i].caller = u
    BY ZenonT(30), <2>1, <2>2, <2>3
  <2>5. At(t, "Call", e)'
    BY ZenonT(30), <1>1, <2>4 DEF At
  <2>6. \A u \in Threads : \A op, o :
          /\ At(u, op, o)' => At(u, op, o) \/ (u = t /\ op = "Call" /\ o = e)
          /\ At(u, op, o) => At(u, op, o)'
    <3> SUFFICES ASSUME NEW u \in Threads, NEW op, NEW o
                 PROVE  /\ At(u, op, o)' => At(u, op, o) \/ (u = t /\ op = "Call" /\ o = e)
                        /\ At(u, op, o) => At(u, op, o)'
      OBVIOUS
    <3>1. CASE op = "Call" /\ o = e
      <4>1. eps'[e].caller = c.caller /\ eps'[e].callers = c.callers
        BY <1>1
      <4>2. At(u, "Call", e)' <=> c.caller = u \/ \E i \in 1..Len(c.callers) : c.callers[i].caller = u
        BY <4>1 DEF At
      <4>3. At(u, "Call", e) <=> ep.caller = u \/ \E i \in 1..Len(q) : q[i].caller = u
        BY DEF At, q, ep
      <4> QED BY <2>1, <2>4, <3>1, <4>2, <4>3
    <3>2. CASE ~(op = "Call" /\ o = e)
      BY <1>1, <2>1, <3>2 DEF At, ep
    <3> QED BY <3>1, <3>2
  <2>7. Homes' /\ StrandedOnce'
    BY <1>1, <1>2, <2>5, <2>6, BlockHomes DEF WInv
  <2>8. CallersBounded'
    <3>1. Len(c.callers) <= MAX_ENDPOINT_CALLERS
      BY <1>1, <2>1, <2>3, CoreAssumption DEF call_ok, q, ep
    <3> QED BY <1>1, <3>1 DEF WInv, CallersBounded
  <2> QED BY <1>6, <2>7, <2>8 DEF WInv
<1> QED BY <1>7, <1>8

(* Every step of the core keeps the registrations exact. *)
LEMMA NextWake ==
  ASSUME IInv, WInv, RoomForAll, OneWaiter, [Next]_vars
  PROVE  WInv'
<1>1. CASE SchedulingOnly
  <2>1. SameBlocked /\ UNCHANGED <<eps, notifs>>
    BY <1>1, SchedulingSame DEF SchedulingOnly
  <2> QED BY <2>1, QuietWake DEF SameBlocked
<1>2. CASE \E n \in Notifications : Interrupt(n)
  BY <1>2, InterruptWake
<1>3. ASSUME NEW t \in Threads PROVE ResumeCall(t) \/ ResumeReceive(t) \/ ResumeWait(t) => WInv'
  BY ResumeWake
<1>4. ASSUME NEW t \in Threads, NEW e \in Endpoints PROVE Call(t, e) \/ Receive(t, e) => WInv'
  BY CallWake, ReceiveWake
<1>5. ASSUME NEW t \in Threads, NEW h \in held[t] PROVE Reply(t, h) => WInv'
  BY ReplyWake
<1>6. ASSUME NEW t \in Threads, NEW n \in Notifications PROVE Wait(t, n) => WInv'
  BY WaitWake
<1> QED BY <1>1, <1>2, <1>3, <1>4, <1>5, <1>6, NextCases

(* A thread not registered for a call at any endpoint is in no queue of    *)
(* callers and is no outstanding caller.                                   *)
LEMMA NoCallPlaces ==
  ASSUME IInv, NEW t \in Threads, \A e \in Endpoints : ~At(t, "Call", e)
  PROVE  CallPlaces(t) = {}
<1>1. \A e \in Endpoints : Len(eps[e].callers) \in Nat
  <2>1. \A e \in Endpoints : eps[e] \in EndpointType
    BY DEF IInv, TypeOK
  <2> QED BY <2>1 DEF EndpointType
<1> QED BY <1>1, CoreAssumption DEF CallPlaces, At

(* Where a registered thread is: in exactly one place. *)
LEMMA OnePlace ==
  ASSUME IInv, WInv, NEW t \in Threads, NEW op, NEW o, At(t, op, o)
  PROVE  \E p \in WakePlaces(t) : WakePlaces(t) = {p}
<1>1. \A op2, o2 : At(t, op2, o2) => op2 = op /\ o2 = o
  BY AtOnce DEF WInv
<1>2. SUFFICES \E p : WakePlaces(t) = {p}
  OBVIOUS
<1>6. /\ ReceivePlaces(t) = {e \in Endpoints : At(t, "Receive", e)}
      /\ WaitPlaces(t) = {n \in Notifications : At(t, "Wait", n)}
      /\ op = "Receive" => o \in Endpoints
      /\ op = "Wait" => o \in Notifications
  BY DEF ReceivePlaces, WaitPlaces, At
<1>3. CASE op = "Receive"
  <2>1. ReceivePlaces(t) = {o}
    BY <1>1, <1>3, <1>6
  <2>2. WaitPlaces(t) = {}
    BY <1>1, <1>3, <1>6
  <2>3. CallPlaces(t) = {}
    <3>1. \A e \in Endpoints : ~At(t, "Call", e)
      BY <1>1, <1>3
    <3> QED BY <3>1, NoCallPlaces
  <2>4. WakePlaces(t) = {<<"Receive", o>>}
    BY <2>1, <2>2, <2>3 DEF WakePlaces
  <2> QED BY <2>4
<1>4. CASE op = "Wait"
  <2>1. WaitPlaces(t) = {o}
    BY <1>1, <1>4, <1>6
  <2>2. ReceivePlaces(t) = {}
    BY <1>1, <1>4, <1>6
  <2>3. CallPlaces(t) = {}
    <3>1. \A e \in Endpoints : ~At(t, "Call", e)
      BY <1>1, <1>4
    <3> QED BY <3>1, NoCallPlaces
  <2>4. WakePlaces(t) = {<<"Wait", o>>}
    BY <2>1, <2>2, <2>3 DEF WakePlaces
  <2> QED BY <2>4
<1>5. CASE op = "Call"
  <2>1. ReceivePlaces(t) = {}
    BY <1>1, <1>5, <1>6
  <2>2. WaitPlaces(t) = {}
    BY <1>1, <1>5, <1>6
  <2> DEFINE q == eps[o].callers
  <2>3. o \in Endpoints /\ Len(q) \in Nat /\ Len(q) <= MAX_ENDPOINT_CALLERS
    BY <1>5 DEF At, WInv, CallersBounded, IInv, TypeOK, EndpointType
  <2>4. \A e \in Endpoints : e # o => eps[e].caller # t /\ \A i \in 1..Len(eps[e].callers) : eps[e].callers[i].caller # t
    BY <1>1 DEF At
  <2>5. \A e \in Endpoints : Len(eps[e].callers) \in Nat
    BY DEF IInv, TypeOK, EndpointType
  <2>6. \A p : p \in CallPlaces(t) <=>
          \/ \E i \in 1..Len(q) : q[i].caller = t /\ p = <<o, i>>
          \/ eps[o].caller = t /\ p = <<o, 0>>
    <3>1. \A e \in Endpoints, i \in 1..MAX_ENDPOINT_CALLERS :
            i <= Len(eps[e].callers) /\ eps[e].callers[i].caller = t <=>
              e = o /\ i \in 1..Len(q) /\ q[i].caller = t
      BY <2>3, <2>4, <2>5, CoreAssumption
    <3>2. \A i \in 1..Len(q) : i \in 1..MAX_ENDPOINT_CALLERS
      BY <2>3, CoreAssumption
    <3>3. {f \in Endpoints : eps[f].caller = t} = IF eps[o].caller = t THEN {o} ELSE {}
      BY <2>3, <2>4
    <3> HIDE DEF q
    <3> QED BY <2>3, <3>1, <3>2, <3>3 DEF CallPlaces
  <2>7. /\ \A i, j \in 1..Len(q) : q[i].caller = t /\ q[j].caller = t => i = j
        /\ eps[o].caller = t => \A i \in 1..Len(q) : q[i].caller # t
    BY ZenonT(30), <2>3 DEF IInv, CallersOnce
  <2>8. \E p : CallPlaces(t) = {p}
    <3>1. CASE eps[o].caller = t
      <4>1. CallPlaces(t) = {<<o, 0>>}
        BY <2>6, <2>7, <3>1
      <4> QED BY <4>1
    <3>2. CASE eps[o].caller # t
      <4>1. PICK i \in 1..Len(q) : q[i].caller = t
        BY <1>5, <3>2 DEF At
      <4>2. CallPlaces(t) = {<<o, i>>}
        BY <2>6, <2>7, <3>2, <4>1
      <4> QED BY <4>2
    <3> QED BY <3>1, <3>2
  <2>9. PICK p : CallPlaces(t) = {p}
    BY <2>8
  <2>10. WakePlaces(t) = {<<"Call", p>>}
    BY <2>1, <2>2, <2>9 DEF WakePlaces
  <2> QED BY <2>10
<1> QED BY <1>3, <1>4, <1>5 DEF At

(* No wake-up is lost and none is owed twice: for any number of threads,   *)
(* endpoints and notifications, a Blocked thread is registered in exactly  *)
(* one place that will wake it and every other thread in none, as long as  *)
(* the run queue has room for every thread and one thread waits for        *)
(* notifications.                                                          *)
THEOREM NoWakeupLost == ASSUME RoomForAll, OneWaiter PROVE Spec => []WakeupPending
<1>1. Init => WInv
  <2> SUFFICES ASSUME Init PROVE WInv
    OBVIOUS
  <2>1. \A t \in Threads : sched.thr[t] # "Blocked"
    BY DEF Init, AllThreads
  <2>2. sched.cur # None
    BY CoreAssumption, IdentitiesDistinct DEF Init
  <2>3. WaitersWait /\ CallersBounded
    BY CoreAssumption DEF Init, WaitersWait, CallersBounded, notification_new, endpoint_new
  <2> QED BY <2>1, <2>2, <2>3 DEF WInv, Homes, StrandedOnce
<1>2. IInv /\ WInv /\ [Next]_vars => WInv'
  BY NextWake
<1>3. IInv /\ WInv => WakeupPending
  <2> SUFFICES ASSUME IInv, WInv, NEW t \in Threads
               PROVE  /\ IF sched.thr[t] = "Blocked" THEN \E p \in WakePlaces(t) : WakePlaces(t) = {p}
                                                     ELSE WakePlaces(t) = {}
                      /\ \A n \in WaitPlaces(t) : notifs[n].signals = 0
    BY DEF WakeupPending
  <2>1. \A n \in WaitPlaces(t) : notifs[n].signals = 0
    BY IdentitiesDistinct DEF WaitPlaces, WInv, WaitersWait
  <2>2. CASE sched.thr[t] = "Blocked"
    <3>1. PICK op \in {"Call", "Receive", "Wait"}, o \in Endpoints \cup Notifications : At(t, op, o)
      BY <2>2 DEF WInv, Homes
    <3> QED BY <2>1, <2>2, <3>1, OnePlace
  <2>3. CASE sched.thr[t] # "Blocked"
    <3>1. \A op, o : ~At(t, op, o)
      BY <2>3, AtRegistered DEF Registered
    <3>2. CallPlaces(t) = {}
      BY <3>1, NoCallPlaces
    <3>3. ReceivePlaces(t) = {} /\ WaitPlaces(t) = {}
      BY <3>1 DEF ReceivePlaces, WaitPlaces, At
    <3>4. WakePlaces(t) = {}
      BY <3>2, <3>3 DEF WakePlaces
    <3> QED BY <2>1, <2>3, <3>4
  <2> QED BY <2>2, <2>3
<1> QED BY <1>1, <1>2, <1>3, Invariance, PTL DEF Spec
-----------------------------------------------------------------------------
(* An interrupt wakes a thread that waits for a notification, if any. *)
LEMMA InterruptBlocked ==
  ASSUME IInv, NEW n \in Notifications, Interrupt(n)
  PROVE  /\ sched'.cur = sched.cur
         /\ \A u \in Threads : sched.thr[u] = "Blocked" => sched'.thr[u] = "Blocked" \/ pc[u].op = "Wait"
<1> DEFINE w == signal_wakes(notifs[n])
<1>1. SchedType(sched) /\ Consistent(sched)
  BY DEF IInv, TypeOK, SchedConsistent
<1>2. w # None => w \in Threads /\ w # sched.cpu /\ pc[w].op = "Wait"
  <2> HAVE w # None
  <2>1. w = notifs[n].waiter
    BY DEF signal_wakes
  <2>2. Registered(w, "Wait", n) /\ ~Stranded(w)
    BY <2>1 DEF IInv, Registrations
  <2> QED BY <1>1, <2>2, IdentitiesDistinct DEF Registered, Stranded, Consistent
<1>3. CASE w # None /\ Len(sched.rq) < Capacity /\ sched.thr[w] = "Blocked"
  <2>1. sched' = apply_wake(sched, w)
    BY <1>3 DEF Interrupt
  <2> HIDE DEF w
  <2>2. sched'.thr = [sched.thr EXCEPT ![w] = "Runnable"] /\ sched'.cur = sched.cur
    BY <1>1, <1>2, <1>3, <2>1, ApplyWakeFields
  <2> QED BY <1>1, <1>2, <1>3, <2>2, Fields DEF AllThreads
<1>4. CASE ~(w # None /\ Len(sched.rq) < Capacity /\ sched.thr[w] = "Blocked")
  <2>1. sched' = sched
    BY <1>4 DEF Interrupt, apply_wake
  <2> QED BY <2>1
<1> QED BY <1>3, <1>4

(* Resuming inside a call ends it. *)
LEMMA ResumeEffect ==
  ASSUME IInv, NEW t \in Threads, ResumeCall(t) \/ ResumeReceive(t) \/ ResumeWait(t)
  PROVE  /\ sched' = sched /\ sched.cur = t /\ pc[t].op # "User"
         /\ \A u \in Threads : pc'[u] = IF u = t THEN User ELSE pc[u]
         /\ \A u \in Threads : u # t => inbox'[u] = inbox[u]
         /\ inbox'[t] \in {inbox[t], <<>>}
<1>1. sched' = sched /\ pc' = [pc EXCEPT ![t] = User] /\ sched.cpu = t /\ pc[t].op # "User"
  BY DEF ResumeCall, ResumeReceive, ResumeWait, Resuming
<1>2. inbox' = inbox \/ inbox' = [inbox EXCEPT ![t] = <<>>]
  BY DEF ResumeCall, ResumeReceive, ResumeWait
<1>3. \A u \in Threads : pc'[u] = IF u = t THEN User ELSE pc[u]
  BY <1>1 DEF IInv, TypeOK
<1>4. /\ \A u \in Threads : u # t => inbox'[u] = inbox[u]
      /\ inbox'[t] \in {inbox[t], <<>>}
  BY <1>2 DEF IInv, TypeOK
<1> QED BY <1>1, <1>3, <1>4, ResumerRuns

(* Receive and WaitNotification: the caller goes on, or it is Blocked and  *)
(* inside the call (Receive: or stranded).                                 *)
LEMMA BlockingEffect ==
  ASSUME IInv, NEW t \in Threads, NEW o,
         (o \in Endpoints /\ Receive(t, o)) \/ (o \in Notifications /\ Wait(t, o))
  PROVE  /\ sched.cur = t /\ pc[t].op = "User" /\ inbox' = inbox
         /\ \A u \in Threads : sched.thr[u] = "Blocked" => sched'.thr[u] = "Blocked"
         /\ \A u \in Threads : u # t => pc'[u] = pc[u]
         /\ pc'[t].op # "Call"
<1>1. sched.cur = t /\ pc[t].op = "User" /\ inbox' = inbox
  BY DEF Receive, Wait, Syscall
<1>2. block_current(sched, t).rq = sched.rq
  BY <1>1, BlockQueue
<1>3. \/ sched' = sched
      \/ sched' = block_current(sched, t)
      \/ sched.rq # <<>> /\ sched' = dispatch(block_current(sched, t), t)
      \/ sched' = switch_to_next([block_current(sched, t) EXCEPT !.cur = Idle], Idle)
  BY <1>2 DEF Receive, Wait
<1>4. \A u \in Threads : sched.thr[u] = "Blocked" => sched'.thr[u] = "Blocked"
  BY <1>1, <1>3, BlockSched
<1>5. pc' = pc \/ \E op \in {"Receive", "Wait"} : pc' = [pc EXCEPT ![t] = In(op, o, <<>>)]
  BY DEF Receive, Wait
<1>6. (\A u \in Threads : u # t => pc'[u] = pc[u]) /\ pc'[t].op # "Call"
  BY <1>1, <1>5 DEF IInv, TypeOK, In
<1> QED BY <1>1, <1>4, <1>6

(* Messages are not the empty buffer. *)
LEMMA MessageNonEmpty ==
  ASSUME NEW m \in Message
  PROVE  m # <<>>
<1>1. PICK a \in Threads, b \in Nat, c \in Endpoints : m = <<a, b, c>>
  BY DEF Message
<1>2. Len(<<a, b, c>>) = 3 /\ Len(<<>>) = 0
  OBVIOUS
<1> QED BY <1>1, <1>2

(* Reply finds an endpoint whose outstanding token it holds; that          *)
(* endpoint's caller gets the message, and only it may stop being Blocked. *)
LEMMA ReplyEffect ==
  ASSUME IInv, NEW t \in Threads, NEW h \in held[t], Reply(t, h)
  PROVE  \E e \in Endpoints :
           LET c == eps[e].caller
           IN  /\ reply_ok(eps[e], h[1]) /\ eps' = [eps EXCEPT ![e] = reply(@)]
               /\ c \in Threads /\ pc[c].op = "Call" /\ h[2] # <<>> /\ inbox'[c] = h[2]
               /\ \A u \in Threads : u # c => inbox'[u] = inbox[u]
               /\ \A u \in Threads : sched.thr[u] = "Blocked" => sched'.thr[u] = "Blocked" \/ u = c
<1>1. PICK e \in Endpoints :
        /\ reply_ok(eps[e], h[1])
        /\ eps' = [eps EXCEPT ![e] = reply(@)]
        /\ inbox' = IF sched.thr[eps[e].caller] = "Absent" THEN inbox
                    ELSE [inbox EXCEPT ![eps[e].caller] = h[2]]
        /\ LET wk == apply_wake(sched, eps[e].caller)
           IN  sched' = IF reschedule_ok(wk, t, eps[e].caller) THEN reschedule(wk, t, eps[e].caller)
                        ELSE [wk EXCEPT !.up = FALSE]
  BY DEF Reply
<1> DEFINE c == eps[e].caller
<1>2. sched.cur = t
  BY DEF Reply, Syscall
<1>3. sched.thr[t] = "Running" /\ \A u : ~Stranded(u)
  BY <1>2, CallerRuns
<1>4. Registered(c, "Call", e)
  BY <1>1 DEF reply_ok, IInv, EndpointShape, Registrations
<1>5. c \in Threads /\ sched.thr[c] = "Blocked" /\ pc[c].op = "Call"
  BY <1>3, <1>4 DEF Registered
<1>6. h[2] # <<>>
  BY MessageNonEmpty DEF IInv, TypeOK
<1>7. inbox'[c] = h[2] /\ \A u \in Threads : u # c => inbox'[u] = inbox[u]
  BY <1>1, <1>5 DEF IInv, TypeOK
<1>8. \A u \in AllThreads : \/ sched'.thr[u] = sched.thr[u]
                            \/ u = t /\ sched'.thr[u] = "Runnable"
                            \/ u = c /\ sched'.thr[u] = "Running"
  BY ZenonT(30), <1>1, <1>2, <1>5, ReplySched
<1>9. \A u \in Threads : sched.thr[u] = "Blocked" => sched'.thr[u] = "Blocked" \/ u = c
  BY <1>3, <1>8 DEF AllThreads
<1> WITNESS e \in Endpoints
<1> QED BY <1>1, <1>5, <1>6, <1>7, <1>9

(* Call: the caller is Blocked; only a waiting receiver may stop being so. *)
LEMMA CallEffect ==
  ASSUME IInv, NEW t \in Threads, NEW e \in Endpoints, Call(t, e)
  PROVE  /\ sched.cur = t /\ pc[t].op = "User" /\ sched'.thr[t] = "Blocked"
         /\ \A u \in Threads : u # t => pc'[u] = pc[u] /\ inbox'[u] = inbox[u]
         /\ inbox'[t] \in {inbox[t], <<>>}
         /\ sched'.cur = None \/ pc'[t] = In("Call", e, <<t, ncalls[t] + 1, e>>)
         /\ sched'.cur = None => pc'[t] = pc[t]
         /\ \A u \in Threads : sched.thr[u] = "Blocked" => sched'.thr[u] = "Blocked" \/ pc[u].op = "Receive"
<1> DEFINE r == eps[e].receiver
<1>1. sched.cur = t /\ pc[t].op = "User"
  BY DEF Call, Syscall
<1>2. sched.thr[t] = "Running" /\ \A u : ~Stranded(u)
  BY <1>1, CallerRuns
<1>3. r # None => pc[r].op = "Receive" /\ sched.thr[r] = "Blocked"
  BY <1>2 DEF IInv, Registrations, Registered
<1>4. /\ sched'.thr[t] = "Blocked"
      /\ \A u \in Threads : \/ u = t
                            \/ sched'.thr[u] = sched.thr[u]
                            \/ sched'.thr[u] = "Running" /\ sched.thr[u] = "Runnable"
                            \/ u = r /\ sched'.thr[u] \in {"Runnable", "Running"}
      /\ \/ sched'.cur \in Threads /\ pc'[t].op = "Call"
         \/ sched'.cur = None /\ pc'[t] = pc[t]
  BY CallSched
<1>5. \/ pc' = pc /\ inbox' = [inbox EXCEPT ![t] = <<>>]
      \/ pc' = [pc EXCEPT ![t] = In("Call", e, <<t, ncalls[t] + 1, e>>)] /\ inbox' = inbox
  BY <1>3 DEF Call
<1>6. /\ \A u \in Threads : u # t => pc'[u] = pc[u] /\ inbox'[u] = inbox[u]
      /\ inbox'[t] \in {inbox[t], <<>>}
      /\ pc'[t] = pc[t] \/ pc'[t] = In("Call", e, <<t, ncalls[t] + 1, e>>)
  BY <1>5 DEF IInv, TypeOK
<1>7. /\ sched'.cur = None \/ pc'[t] = In("Call", e, <<t, ncalls[t] + 1, e>>)
      /\ sched'.cur = None => pc'[t] = pc[t]
  BY <1>1, <1>4, <1>6, IdentitiesDistinct
<1>8. \A u \in Threads : sched.thr[u] = "Blocked" => sched'.thr[u] = "Blocked" \/ pc[u].op = "Receive"
  BY <1>2, <1>3, <1>4, IdentitiesDistinct
<1> QED BY <1>1, <1>4, <1>6, <1>7, <1>8

(* A thread inside Call stays Blocked until its reply is in its buffer,    *)
(* and it leaves the call with it.                                         *)
LEMMA NextAnswered ==
  ASSUME IInv, CallersAnswered, [Next]_vars
  PROVE  /\ CallersAnswered'
         /\ \A t \in Threads : pc[t].op = "Call" /\ pc'[t].op = "User" => inbox[t] # <<>>
<1> DEFINE Good == /\ CallersAnswered'
                   /\ \A t \in Threads : pc[t].op = "Call" /\ pc'[t].op = "User" => inbox[t] # <<>>
<1>1. CASE SchedulingOnly
  <2>1. SameBlocked /\ pc' = pc /\ inbox' = inbox
    BY <1>1, SchedulingSame DEF SchedulingOnly
  <2> QED BY <2>1 DEF SameBlocked, CallersAnswered
<1>2. ASSUME NEW n \in Notifications, Interrupt(n) PROVE Good
  <2>1. pc' = pc /\ inbox' = inbox
    BY <1>2 DEF Interrupt
  <2> QED BY <1>2, <2>1, InterruptBlocked DEF CallersAnswered
<1>3. ASSUME NEW t \in Threads, ResumeCall(t) \/ ResumeReceive(t) \/ ResumeWait(t) PROVE Good
  <2>1. sched.thr[t] = "Running"
    BY <1>3, ResumeEffect, CallerRuns
  <2>2. pc[t].op = "Call" => inbox[t] # <<>>
    BY <2>1 DEF CallersAnswered
  <2> QED BY <1>3, <2>2, ResumeEffect DEF CallersAnswered, User
<1>4. ASSUME NEW t \in Threads, NEW e \in Endpoints, Call(t, e) PROVE Good
  <2>1. /\ pc[t].op = "User" /\ sched'.thr[t] = "Blocked"
        /\ \A u \in Threads : u # t => pc'[u] = pc[u] /\ inbox'[u] = inbox[u]
        /\ \A u \in Threads : sched.thr[u] = "Blocked" => sched'.thr[u] = "Blocked" \/ pc[u].op = "Receive"
    BY <1>4, CallEffect
  <2>2. CallersAnswered'
    BY <2>1 DEF CallersAnswered
  <2>3. \A u \in Threads : pc[u].op = "Call" => pc'[u].op = "Call"
    BY <2>1
  <2> QED BY <2>2, <2>3
<1>5. ASSUME NEW t \in Threads, NEW o,
             (o \in Endpoints /\ Receive(t, o)) \/ (o \in Notifications /\ Wait(t, o))
      PROVE  Good
  BY ZenonT(30), <1>5, BlockingEffect DEF CallersAnswered
<1>6. ASSUME NEW t \in Threads, NEW h \in held[t], Reply(t, h) PROVE Good
  <2>1. pc' = pc
    BY <1>6 DEF Reply
  <2> QED BY ZenonT(30), <1>6, <2>1, ReplyEffect DEF CallersAnswered
<1> HIDE DEF Good
<1>7. Good
  BY <1>1, <1>2, <1>3, <1>4, <1>5, <1>6, NextCases DEF Good
<1> QED BY <1>7 DEF Good

(* A Call that was switched away and resumes has its reply in the receive  *)
(* buffer when it returns 0 to user mode: for any number of threads,       *)
(* endpoints and notifications and any queue capacity.                     *)
THEOREM CallsReturnReplies == Spec => CallReturnsReply
<1>1. Init => CallersAnswered
  BY DEF Init, CallersAnswered, User
<1>2. IInv /\ CallersAnswered /\ [Next]_vars =>
        /\ CallersAnswered'
        /\ [\A t \in Threads : pc[t].op = "Call" /\ pc'[t].op = "User" => inbox[t] # <<>>]_vars
  BY NextAnswered
<1> QED BY <1>1, <1>2, Invariance, PTL DEF Spec, CallReturnsReply
-----------------------------------------------------------------------------
(* Messages, tokens and sequence numbers of an endpoint's operations. *)
LEMMA CallRecords ==
  ASSUME NEW ep \in EndpointType, NEW t \in Threads, NEW m \in Message
  PROVE  LET c == call(ep, t, m)
         IN  /\ ep.state = "ReceiverWaiting" =>
                  c.token = <<t, ep.seq + 1>> /\ c.message = m /\ c.seq = ep.seq + 1
             /\ ep.state # "ReceiverWaiting" => c.message = ep.message /\ c.seq = ep.seq
<1>1. CASE ep.state = "ReceiverWaiting"
  <2> DEFINE k == <<t, ep.seq + 1>>
             n == ep.seq + 1
  <2>1. call(ep, t, m) = [ep EXCEPT !.state = "ReplyOutstanding", !.receiver = None, !.caller = t,
                            !.token = k, !.message = m, !.seq = n]
    BY <1>1 DEF call, make_reply_token, EndpointType
  <2> HIDE DEF k, n
  <2>2. call(ep, t, m).token = k /\ call(ep, t, m).message = m /\ call(ep, t, m).seq = n
    BY <2>1 DEF EndpointType
  <2> QED BY <1>1, <2>2 DEF k, n
<1>2. CASE ep.state # "ReceiverWaiting"
  <2>1. call(ep, t, m) = [ep EXCEPT !.state = IF @ = "Idle" THEN "CallersPending" ELSE @,
                            !.callers = Append(ep.callers, [caller |-> t, message |-> m])]
    BY <1>2 DEF call, EndpointType
  <2>2. call(ep, t, m).message = ep.message /\ call(ep, t, m).seq = ep.seq
    BY <2>1 DEF EndpointType
  <2> QED BY <1>2, <2>2
<1> QED BY <1>1, <1>2

(* A receive that takes a queued call gives it the next token and its       *)
(* message to the receiver; one that blocks changes neither.               *)
LEMMA ReceiveRecords ==
  ASSUME NEW ep \in EndpointType, NEW t \in Threads
  PROVE  LET r == receive(ep, t)
         IN  /\ ep.state = "Idle" => r.message = ep.message /\ r.seq = ep.seq
             /\ ep.state # "Idle" => /\ r.token = <<Head(ep.callers).caller, ep.seq + 1>>
                                     /\ r.message = ep.message /\ r.seq = ep.seq + 1
<1>1. CASE ep.state = "Idle"
  <2>1. receive(ep, t) = [ep EXCEPT !.state = "ReceiverWaiting", !.receiver = t]
    BY <1>1 DEF receive
  <2>2. receive(ep, t).message = ep.message /\ receive(ep, t).seq = ep.seq
    BY <2>1 DEF EndpointType
  <2> QED BY <1>1, <2>2
<1>2. CASE ep.state # "Idle"
  <2> DEFINE a == Head(ep.callers).caller
             b == Tail(ep.callers)
             k == <<Head(ep.callers).caller, ep.seq + 1>>
             n == ep.seq + 1
  <2>1. receive(ep, t) = [ep EXCEPT !.state = "ReplyOutstanding", !.callers = b, !.caller = a,
                            !.token = k, !.seq = n]
    BY <1>2 DEF receive, make_reply_token, EndpointType
  <2> HIDE DEF a, b, k, n
  <2>2. receive(ep, t).token = k /\ receive(ep, t).message = ep.message /\ receive(ep, t).seq = n
    BY <2>1 DEF EndpointType
  <2> QED BY <1>2, <2>2 DEF k, n
<1> QED BY <1>1, <1>2

(* A reply leaves no outstanding call. *)
LEMMA ReplyRecords ==
  ASSUME NEW ep \in EndpointType
  PROVE  reply(ep).message = <<>> /\ reply(ep).seq = ep.seq /\ reply(ep).state # "ReplyOutstanding"
  BY DEF reply, EndpointType

(* A Blocked thread stays in its call. *)
BlockedStay == \A u \in Threads : sched.thr[u] = "Blocked" => pc'[u] = pc[u]

(* The tokens held for messages to e are old ones, or belong to the        *)
(* outstanding call of e.                                                  *)
TokensFrom(e) ==
  \A u \in Threads : \A h \in held'[u] : h[2][3] = e =>
    h \in held[u] \/ (/\ h[1][2] <= eps[e].seq
                      /\ eps[e].state = "ReplyOutstanding" => h[2] = pc[eps[e].caller].msg)

(* A step that takes no call and ends none but endpoint e's own keeps e's  *)
(* messages and tokens matched.                                            *)
LEMMA KeepMatched ==
  ASSUME IInv, NEW e \in Endpoints, Matched(e), sched.cur # None,
         eps'[e].callers = eps[e].callers, eps'[e].seq = eps[e].seq,
         eps'[e].message \in {<<>>, eps[e].message},
         eps'[e].state = "ReplyOutstanding" =>
           eps[e].state = "ReplyOutstanding" /\ eps'[e].token = eps[e].token /\ eps'[e].caller = eps[e].caller,
         eps'[e].state # "ReplyOutstanding" => eps'[e].message = <<>>,
         BlockedStay, TokensFrom(e)
  PROVE  Matched(e)'
<1>1. \A u, op, o : Registered(u, op, o) => u \in Threads /\ pc'[u] = pc[u]
  BY DEF Registered, BlockedStay
<1>2. \A i \in 1..Len(eps[e].callers) :
        pc'[eps[e].callers[i].caller] = pc[eps[e].callers[i].caller]
  BY <1>1 DEF IInv, Registrations
<1>3. eps[e].state = "ReplyOutstanding" => pc'[eps[e].caller] = pc[eps[e].caller]
  BY <1>1 DEF IInv, EndpointShape, Registrations
<1>4. (\A i \in 1..Len(eps[e].callers) :
         eps[e].callers[i].message = pc[eps[e].callers[i].caller].msg)'
  <2> DEFINE q == eps[e].callers
  <2>1. \A i \in 1..Len(q) : q[i].message = pc[q[i].caller].msg
    BY DEF Matched
  <2>2. \A i \in 1..Len(q) : pc'[q[i].caller] = pc[q[i].caller]
    BY <1>2
  <2>3. eps'[e].callers = q
    OBVIOUS
  <2> HIDE DEF q
  <2>4. \A i \in 1..Len(q) : q[i].message = pc'[q[i].caller].msg
    BY <2>1, <2>2
  <2> QED BY <2>3, <2>4
<1>5. (eps[e].state = "ReplyOutstanding" =>
       /\ eps[e].token[1] = eps[e].caller /\ eps[e].token[2] <= eps[e].seq
       /\ eps[e].message # <<>> => eps[e].message = pc[eps[e].caller].msg
       /\ \A t \in Threads : \A h \in held[t] :
            h[2][3] = e /\ h[1] = eps[e].token => h[2] = pc[eps[e].caller].msg)'
  BY ZenonT(30), <1>3 DEF Matched, TokensFrom
<1>6. (\A t \in Threads : \A h \in held[t] : h[2][3] = e => h[1][2] <= eps[e].seq)'
  BY DEF Matched, TokensFrom
<1> QED BY <1>4, <1>5, <1>6 DEF Matched

(* ... and so does a step that leaves e alone. *)
LEMMA OtherMatched ==
  ASSUME IInv, NEW e \in Endpoints, Matched(e), sched.cur # None, eps'[e] = eps[e],
         BlockedStay, TokensFrom(e)
  PROVE  Matched(e)'
<1>1. eps[e].state # "ReplyOutstanding" => eps[e].message = <<>>
  BY DEF Matched
<1> QED BY <1>1, KeepMatched

(* Those whose calls endpoint e knows of are in these calls. *)
LEMMA CallsOwned ==
  ASSUME IInv, OwnCalls, NEW e \in Endpoints, sched.cur # None
  PROVE  /\ eps[e].state = "ReplyOutstanding" =>
              /\ eps[e].caller \in Threads /\ pc[eps[e].caller].op = "Call"
              /\ pc[eps[e].caller].obj = e
              /\ pc[eps[e].caller].msg[1] = eps[e].caller /\ pc[eps[e].caller].msg[3] = e
         /\ \A i \in 1..Len(eps[e].callers) :
              /\ pc[eps[e].callers[i].caller].msg[1] = eps[e].callers[i].caller
              /\ pc[eps[e].callers[i].caller].msg[3] = e
<1>1. ASSUME NEW u, Registered(u, "Call", e)
      PROVE  u \in Threads /\ pc[u].op = "Call" /\ pc[u].obj = e /\ pc[u].msg[1] = u /\ pc[u].msg[3] = e
  BY <1>1 DEF Registered, Stranded, OwnCalls
<1>2. eps[e].state = "ReplyOutstanding" => Registered(eps[e].caller, "Call", e)
  BY DEF IInv, EndpointShape, Registrations
<1>3. \A i \in 1..Len(eps[e].callers) : Registered(eps[e].callers[i].caller, "Call", e)
  BY DEF IInv, Registrations
<1> QED BY <1>1, <1>2, <1>3

(* The sequence numbers of the tokens held for messages to e are at most   *)
(* the endpoint's.                                                         *)
LEMMA HeldTokens ==
  ASSUME IInv, NEW e \in Endpoints, Matched(e)
  PROVE  \A u \in Threads : \A h \in held[u] :
           h[2][3] = e => h[1][2] \in Nat /\ h[1][2] <= eps[e].seq
<1>1. held \in [Threads -> SUBSET (Token \X Message)]
  BY DEF IInv, TypeOK
<1>2. \A u \in Threads : \A h \in held[u] : h[1] \in Token
  BY <1>1
<1>3. \A k \in Token : k[2] \in Nat
  BY DEF Token
<1> QED BY <1>2, <1>3 DEF Matched

(* A call that finds a receiver gets a token no one holds yet; a queued    *)
(* call carries the message its caller is in.                              *)
LEMMA CallMatched ==
  ASSUME IInv, NEW t \in Threads, NEW e \in Endpoints, Matched(e), Call(t, e), sched'.cur # None
  PROVE  Matched(e)'
<1> DEFINE ep == eps[e]
           m == <<t, ncalls[t] + 1, e>>
           c == call(ep, t, m)
<1>1. sched.cur = t /\ held' = held /\ eps'[e] = c
  BY DEF Call, Syscall, IInv, TypeOK
<1>2. ep \in EndpointType /\ m \in Message /\ ep.seq \in Nat
  <2>1. ep \in EndpointType /\ m \in Message
    BY DEF IInv, TypeOK, Message
  <2> QED BY <2>1 DEF EndpointType
<1>3. pc'[t].msg = m /\ \A u \in Threads : u # t => pc'[u] = pc[u]
  <2>1. pc'[t] = In("Call", e, m) /\ \A u \in Threads : u # t => pc'[u] = pc[u]
    BY CallEffect
  <2> HIDE DEF m
  <2> QED BY <2>1 DEF In
<1>4. \A u, op, o : Registered(u, op, o) => u \in Threads /\ pc'[u] = pc[u]
  <2>1. sched.thr[t] = "Running"
    BY <1>1, CallerRuns
  <2> QED BY <1>3, <2>1 DEF Registered
<1>5. \A i \in 1..Len(ep.callers) : ep.callers[i].message = pc'[ep.callers[i].caller].msg
  BY <1>4 DEF IInv, Registrations, Matched
<1>6. ep.state = "ReplyOutstanding" => pc'[ep.caller] = pc[ep.caller]
  BY <1>4 DEF IInv, EndpointShape, Registrations
<1>7. \A u \in Threads : \A h \in held[u] : h[2][3] = e => h[1][2] \in Nat /\ h[1][2] <= ep.seq
  BY HeldTokens
<1> HIDE DEF m
<1>8. CASE ep.state = "ReceiverWaiting"
  <2>1. /\ c.state = "ReplyOutstanding" /\ c.caller = t /\ c.callers = ep.callers
        /\ c.token = <<t, ep.seq + 1>> /\ c.message = m /\ c.seq = ep.seq + 1
    <3>1. c.state = "ReplyOutstanding" /\ c.caller = t /\ c.callers = ep.callers
      BY <1>2, <1>8, CallDelivers
    <3>2. c.token = <<t, ep.seq + 1>> /\ c.message = m /\ c.seq = ep.seq + 1
      BY ZenonT(30), <1>2, <1>8, CallRecords
    <3> QED BY <3>1, <3>2
  <2> HIDE DEF c, ep
  <2>2. c.token[1] = t /\ c.token[2] = ep.seq + 1
    BY <2>1
  <2>3. \A u \in Threads : \A h \in held[u] : h[2][3] = e => h[1] # c.token /\ h[1][2] <= c.seq
    BY <1>2, <1>7, <2>1, <2>2
  <2>4. c.token[1] = c.caller /\ c.token[2] <= c.seq
    BY <1>2, <2>1, <2>2
  <2> QED BY ZenonT(30), <1>1, <1>3, <1>5, <2>1, <2>3, <2>4 DEF Matched
<1>9. CASE ep.state # "ReceiverWaiting"
  <2> DEFINE q == ep.callers
             x == [caller |-> t, message |-> m]
  <2>1. /\ c.state = IF ep.state = "Idle" THEN "CallersPending" ELSE ep.state
        /\ c.token = ep.token /\ c.caller = ep.caller /\ c.callers = Append(q, x)
        /\ c.message = ep.message /\ c.seq = ep.seq
    BY ZenonT(30), <1>2, <1>9, CallQueues, CallRecords
  <2>2. q \in Seq([caller : Threads, message : Message]) /\ x \in [caller : Threads, message : Message]
        /\ x.caller = t /\ x.message = m
    BY <1>2 DEF EndpointType
  <2> HIDE DEF x, c, q
  <2>3. \A i \in 1..Len(c.callers) : (i \in 1..Len(q) /\ c.callers[i] = q[i]) \/ c.callers[i] = x
    <3> DEFINE R == [caller : Threads, message : Message]
    <3>1. q \in Seq(R) /\ x \in R /\ c.callers = Append(q, x)
      BY <2>1, <2>2
    <3> HIDE DEF R
    <3> QED BY <3>1
  <2>4. \A i \in 1..Len(c.callers) : c.callers[i].message = pc'[c.callers[i].caller].msg
    BY <1>3, <1>5, <2>2, <2>3 DEF q
  <2>5. c.state = "ReplyOutstanding" <=> ep.state = "ReplyOutstanding"
    BY <2>1
  <2> QED BY <1>1, <1>6, <2>1, <2>4, <2>5 DEF Matched
<1> QED BY <1>8, <1>9

(* Receive hands the first queued caller's message out with a new token,   *)
(* or registers the receiver.                                              *)
LEMMA ReceiveMatched ==
  ASSUME IInv, NEW t \in Threads, NEW e \in Endpoints, Matched(e), Receive(t, e)
  PROVE  Matched(e)'
<1> DEFINE ep == eps[e]
           c == receive(ep, t)
<1>1. sched.cur = t /\ eps'[e] = c
  BY DEF Receive, Syscall, IInv, TypeOK
<1>2. ep \in EndpointType /\ ep.seq \in Nat
  BY DEF IInv, TypeOK, EndpointType
<1>3. CASE ep.state = "CallersPending"
  <2> DEFINE q == ep.callers
             k == <<Head(q).caller, ep.seq + 1>>
  <2>1. q # <<>> /\ ep.message = <<>>
    BY <1>3 DEF IInv, EndpointShape, Matched
  <2>2. /\ c.state = "ReplyOutstanding" /\ c.caller = Head(q).caller /\ c.callers = Tail(q)
        /\ c.token = k /\ c.message = <<>> /\ c.seq = ep.seq + 1
    BY <1>2, <1>3, <2>1, ReceiveTakes, ReceiveRecords
  <2>3. pc' = pc /\ held' = [held EXCEPT ![t] = @ \cup {<<k, Head(q).message>>}]
    BY <1>3 DEF Receive, make_reply_token
  <2>4. /\ Head(q) = q[1] /\ 1 \in 1..Len(q)
        /\ \A i \in 1..Len(Tail(q)) : i + 1 \in 1..Len(q) /\ Tail(q)[i] = q[i + 1]
    BY <1>2, <2>1 DEF EndpointType
  <2>5. \A i \in 1..Len(q) : q[i].message = pc[q[i].caller].msg
    BY ZenonT(30) DEF Matched
  <2>6. \A u \in Threads : \A h \in held[u] : h[2][3] = e => h[1][2] \in Nat /\ h[1][2] <= ep.seq
    BY HeldTokens
  <2> HIDE DEF c, ep, q
  <2>7. k[1] = Head(q).caller /\ k[2] = ep.seq + 1 /\ k[2] <= ep.seq + 1
    BY <1>2
  <2> HIDE DEF k
  <2>8. \A u \in Threads : \A h \in held'[u] : h \in held[u] \/ h = <<k, Head(q).message>>
    BY <2>3 DEF IInv, TypeOK
  <2>9. \A u \in Threads : \A h \in held'[u] : h[2][3] = e =>
          /\ h[1] = k => h[2] = pc[Head(q).caller].msg
          /\ h[1][2] <= ep.seq + 1
    BY <1>2, <2>4, <2>5, <2>6, <2>7, <2>8
  <2>10. \A i \in 1..Len(Tail(q)) : Tail(q)[i].message = pc[Tail(q)[i].caller].msg
    BY <2>4, <2>5
  <2> QED BY <1>1, <2>2, <2>3, <2>7, <2>9, <2>10 DEF Matched
<1>4. CASE ep.state = "Idle"
  <2>1. /\ c.state = "ReceiverWaiting" /\ c.callers = ep.callers
        /\ c.message = ep.message /\ c.seq = ep.seq /\ ep.message = <<>>
    BY ZenonT(30), <1>2, <1>4, ReceiveBlocks, ReceiveRecords DEF Matched
  <2>2. held' = held
    BY <1>4 DEF Receive
  <2>3. sched.cur # None /\ sched.thr[t] = "Running" /\ \A u \in Threads : u # t => pc'[u] = pc[u]
    BY <1>1, CallerRuns, BlockingEffect
  <2> HIDE DEF c
  <2>4. BlockedStay /\ TokensFrom(e)
    BY <2>2, <2>3 DEF BlockedStay, TokensFrom
  <2> QED BY <1>1, <2>1, <2>3, <2>4, KeepMatched
<1> QED BY <1>3, <1>4 DEF Receive

(* Every step keeps the messages of each endpoint matched with the calls   *)
(* they belong to, and delivers a reply only to the caller of its message. *)
LEMMA NextMatched ==
  ASSUME IInv, RInv, [Next]_vars
  PROVE  RInv'
<1> DEFINE Kept == sched'.cur # None => \A e \in Endpoints : Matched(e)'
<1>0. \A t \in Threads : pc[t].op # "Call" => inbox[t] = <<>>
  BY DEF RInv, ReplyReachesCaller
<1>1. CASE SchedulingOnly
  <2>1. SameBlocked /\ pc' = pc /\ inbox' = inbox /\ eps' = eps /\ held' = held
    BY <1>1, SchedulingSame DEF SchedulingOnly
  <2>2. Kept
    BY <2>1 DEF RInv, Matched, SameBlocked
  <2> QED BY <2>1, <2>2 DEF RInv, OwnCalls, OwnTokens, ReplyReachesCaller
<1>2. ASSUME NEW n \in Notifications, Interrupt(n) PROVE RInv'
  <2>1. pc' = pc /\ inbox' = inbox /\ eps' = eps /\ held' = held /\ sched'.cur = sched.cur
    BY <1>2, InterruptBlocked DEF Interrupt
  <2>2. Kept
    BY ZenonT(30), <2>1 DEF RInv, Matched
  <2> QED BY <2>1, <2>2 DEF RInv, OwnCalls, OwnTokens, ReplyReachesCaller
<1>3. ASSUME NEW t \in Threads, ResumeCall(t) \/ ResumeReceive(t) \/ ResumeWait(t) PROVE RInv'
  <2>1. /\ sched' = sched /\ sched.cur = t
        /\ \A u \in Threads : pc'[u] = IF u = t THEN User ELSE pc[u]
        /\ \A u \in Threads : u # t => inbox'[u] = inbox[u]
    BY <1>3, ResumeEffect
  <2>2. inbox'[t] = <<>>
    BY <1>0, <1>3 DEF ResumeCall, ResumeReceive, ResumeWait, Resuming, IInv, TypeOK
  <2>3. sched.cur # None /\ sched.thr[t] = "Running"
    BY <2>1, CallerRuns
  <2> DEFINE Taken(f) ==
               /\ has_received_call(eps[f]) /\ eps' = [eps EXCEPT ![f] = take_received_call(@)]
               /\ held' = [held EXCEPT ![t] = @ \cup {<<eps[f].token, eps[f].message>>}]
  <2>5. (eps' = eps /\ held' = held) \/ \E f \in Endpoints : Taken(f)
    BY <1>3 DEF ResumeCall, ResumeReceive, ResumeWait, Resuming, IInv, PcShape
  <2>6. ASSUME NEW f \in Endpoints, Taken(f)
        PROVE  eps[f].message[3] = f /\ eps[f].token[1] = eps[f].message[1]
    <3>1. Matched(f) /\ OwnCalls
      BY <2>3 DEF RInv
    <3>2. eps[f].message # <<>>
      BY <2>6 DEF has_received_call
    <3>3. /\ eps[f].state = "ReplyOutstanding" /\ eps[f].message = pc[eps[f].caller].msg
          /\ eps[f].token[1] = eps[f].caller
      BY <3>1, <3>2 DEF Matched
    <3>4. pc[eps[f].caller].msg[1] = eps[f].caller /\ pc[eps[f].caller].msg[3] = f
      BY <2>3, <3>1, <3>3, CallsOwned
    <3> QED BY <3>3, <3>4
  <2>4. ASSUME NEW e \in Endpoints PROVE Matched(e)'
    <3>1. Matched(e)
      BY <2>3 DEF RInv
    <3>0. BlockedStay
      BY <2>1, <2>3 DEF BlockedStay
    <3>2. CASE eps' = eps /\ held' = held
      BY <2>3, <3>0, <3>1, <3>2, OtherMatched DEF TokensFrom
    <3>3. CASE ~(eps' = eps /\ held' = held)
      <4>1. PICK f \in Endpoints : Taken(f)
        BY <2>5, <3>3
      <4>2. CASE e # f
        <5>1. eps'[e] = eps[e]
          BY <4>1, <4>2 DEF IInv, TypeOK
        <5>2. \A u \in Threads : \A h \in held'[u] :
                h \in held[u] \/ h = <<eps[f].token, eps[f].message>>
          BY <4>1 DEF IInv, TypeOK
        <5>3. eps[f].message[3] = f
          BY <2>6, <4>1
        <5>4. TokensFrom(e)
          BY <4>2, <5>2, <5>3 DEF TokensFrom
        <5> QED BY <2>3, <3>0, <3>1, <5>1, <5>4, OtherMatched
      <4>3. CASE e = f
        <5>1. eps'[e] = take_received_call(eps[e]) /\ has_received_call(eps[e])
          BY <4>1, <4>3 DEF IInv, TypeOK
        <5>2. /\ eps'[e].callers = eps[e].callers /\ eps'[e].seq = eps[e].seq
              /\ eps'[e].message = <<>> /\ eps'[e].state = eps[e].state
              /\ eps'[e].token = eps[e].token /\ eps'[e].caller = eps[e].caller
          BY <5>1 DEF take_received_call, IInv, TypeOK, EndpointType
        <5>3. \A u \in Threads : \A h \in held'[u] :
                h \in held[u] \/ h = <<eps[e].token, eps[e].message>>
          BY <4>1, <4>3 DEF IInv, TypeOK
        <5>4. eps[e].token[2] <= eps[e].seq /\ eps[e].message = pc[eps[e].caller].msg
          BY <3>1, <5>1 DEF Matched, has_received_call
        <5>5. TokensFrom(e)
          BY <5>3, <5>4 DEF TokensFrom
        <5> QED BY <2>3, <3>0, <3>1, <5>2, <5>5, KeepMatched
      <4> QED BY <4>2, <4>3
    <3> QED BY <3>2, <3>3
  <2>7. OwnCalls' /\ ReplyReachesCaller'
    BY <2>1, <2>2 DEF RInv, OwnCalls, ReplyReachesCaller, User, In
  <2>8. OwnTokens'
    <3>1. ASSUME NEW u \in Threads, NEW h \in held'[u] PROVE h[1][1] = h[2][1]
      <4>1. CASE held' = held
        BY <3>1, <4>1 DEF RInv, OwnTokens
      <4>2. ASSUME NEW f \in Endpoints, Taken(f) PROVE h[1][1] = h[2][1]
        <5>1. h \in held[u] \/ h = <<eps[f].token, eps[f].message>>
          BY <3>1, <4>2 DEF IInv, TypeOK
        <5>2. eps[f].token[1] = eps[f].message[1]
          BY <2>6, <4>2
        <5> QED BY <5>1, <5>2 DEF RInv, OwnTokens
      <4> QED BY <2>5, <4>1, <4>2
    <3> QED BY <3>1 DEF OwnTokens
  <2> QED BY <2>4, <2>7, <2>8 DEF RInv
<1>4. ASSUME NEW t \in Threads, NEW f \in Endpoints, Call(t, f) PROVE RInv'
  <2>1. /\ sched.cur # None /\ pc[t].op = "User"
        /\ \A u \in Threads : u # t => pc'[u] = pc[u] /\ inbox'[u] = inbox[u]
        /\ inbox'[t] \in {inbox[t], <<>>}
    <3>1. sched.cur = t
      BY <1>4, CallEffect
    <3> QED BY <1>4, <3>1, CallEffect, CallerRuns
  <2>2. inbox'[t] = <<>>
    BY <1>0, <2>1
  <2>3. ASSUME NEW e \in Endpoints, sched'.cur # None PROVE Matched(e)'
    <3>1. CASE e = f
      BY <1>4, <2>1, <2>3, <3>1, CallMatched DEF RInv
    <3>2. CASE e # f
      <4>1. eps'[e] = eps[e] /\ held' = held
        BY <1>4, <3>2 DEF Call, IInv, TypeOK
      <4>2. sched.cur = t /\ sched.thr[t] = "Running"
        BY <1>4, CallEffect, CallerRuns
      <4>3. BlockedStay /\ TokensFrom(e)
        BY <2>1, <4>1, <4>2 DEF BlockedStay, TokensFrom
      <4> QED BY <2>1, <4>1, <4>3, OtherMatched DEF RInv
    <3> QED BY <3>1, <3>2
  <2>4. ReplyReachesCaller' /\ OwnTokens'
    BY <1>4, <2>1, <2>2 DEF RInv, ReplyReachesCaller, OwnTokens, Call
  <2>5. OwnCalls'
    <3>1. pc'[t] = pc[t] \/ pc'[t] = In("Call", f, <<t, ncalls[t] + 1, f>>)
      BY <1>4, CallEffect
    <3> QED BY <2>1, <3>1 DEF RInv, OwnCalls, In
  <2> QED BY <2>3, <2>4, <2>5 DEF RInv
<1>5. ASSUME NEW t \in Threads, NEW f \in Endpoints, Receive(t, f) PROVE RInv'
  <2>1. /\ sched.cur # None /\ pc[t].op = "User" /\ inbox' = inbox
        /\ \A u \in Threads : u # t => pc'[u] = pc[u]
    BY ZenonT(30), <1>5, BlockingEffect, IdentitiesDistinct
  <2>2. ASSUME NEW u \in Threads, NEW h \in held'[u]
        PROVE  h \in held[u] \/ (h[1][1] = h[2][1] /\ h[2][3] = f)
    <3> DEFINE q == eps[f].callers
               k == make_reply_token(eps[f], Head(q).caller)
    <3>1. held' = held \/ (/\ eps[f].state = "CallersPending"
                           /\ held' = [held EXCEPT ![t] = @ \cup {<<k, Head(q).message>>}])
      BY <1>5 DEF Receive
    <3>2. eps[f].state = "CallersPending" => Head(q) = q[1] /\ 1 \in 1..Len(q)
      BY DEF IInv, TypeOK, EndpointType, EndpointShape
    <3>3. k[1] = Head(q).caller
      BY DEF make_reply_token
    <3>4. eps[f].state = "CallersPending" =>
            Head(q).message[1] = Head(q).caller /\ Head(q).message[3] = f
      <4>1. Matched(f) /\ OwnCalls
        BY <2>1 DEF RInv
      <4>2. \A i \in 1..Len(q) : q[i].message = pc[q[i].caller].msg
        BY <4>1 DEF Matched
      <4>3. \A i \in 1..Len(q) : pc[q[i].caller].msg[1] = q[i].caller /\ pc[q[i].caller].msg[3] = f
        BY <2>1, <4>1, CallsOwned
      <4> HIDE DEF q
      <4> QED BY <3>2, <4>2, <4>3
    <3> HIDE DEF q, k
    <3> QED BY <2>2, <3>1, <3>3, <3>4 DEF IInv, TypeOK
  <2>3. ASSUME NEW e \in Endpoints PROVE Matched(e)'
    <3>1. CASE e = f
      BY <1>5, <2>1, <3>1, ReceiveMatched DEF RInv
    <3>2. CASE e # f
      <4>1. eps'[e] = eps[e]
        BY <1>5, <3>2 DEF Receive, IInv, TypeOK
      <4>2. sched.cur = t /\ sched.thr[t] = "Running"
        BY <1>5, CallerRuns DEF Receive, Syscall
      <4>3. BlockedStay /\ TokensFrom(e)
        BY <2>1, <2>2, <3>2, <4>2 DEF BlockedStay, TokensFrom
      <4> QED BY <2>1, <4>1, <4>3, OtherMatched DEF RInv
    <3> QED BY <3>1, <3>2
  <2>4. ReplyReachesCaller' /\ OwnTokens'
    BY <1>0, <2>1, <2>2 DEF RInv, ReplyReachesCaller, OwnTokens
  <2>5. OwnCalls'
    <3>1. pc'[t].op # "Call"
      BY <1>5, BlockingEffect
    <3> QED BY <2>1, <3>1 DEF RInv, OwnCalls
  <2> QED BY <2>3, <2>4, <2>5 DEF RInv
<1>6. ASSUME NEW t \in Threads, NEW n \in Notifications, Wait(t, n) PROVE RInv'
  <2>1. /\ sched.cur = t /\ pc[t].op = "User" /\ inbox' = inbox /\ eps' = eps /\ held' = held
        /\ \A u \in Threads : u # t => pc'[u] = pc[u]
    BY <1>6, BlockingEffect DEF Wait
  <2>2. sched.cur # None /\ sched.thr[t] = "Running"
    BY <2>1, CallerRuns
  <2>3. ASSUME NEW e \in Endpoints PROVE Matched(e)'
    <3>1. Matched(e)
      BY <2>2 DEF RInv
    <3>2. BlockedStay /\ TokensFrom(e)
      BY <2>1, <2>2 DEF BlockedStay, TokensFrom
    <3> QED BY <2>1, <2>2, <3>1, <3>2, OtherMatched
  <2>4. ReplyReachesCaller' /\ OwnTokens'
    BY <1>0, <2>1 DEF RInv, ReplyReachesCaller, OwnTokens
  <2>5. OwnCalls'
    <3>1. pc'[t].op # "Call"
      BY <1>6, BlockingEffect
    <3> QED BY <2>1, <3>1 DEF RInv, OwnCalls
  <2> QED BY <2>3, <2>4, <2>5 DEF RInv
<1>7. ASSUME NEW t \in Threads, NEW h \in held[t], Reply(t, h) PROVE RInv'
  <2>1. sched.cur = t /\ pc' = pc /\ held' = held
    BY <1>7 DEF Reply, Syscall
  <2>2. sched.cur # None
    BY <2>1, CallerRuns
  <2>3. PICK e \in Endpoints :
          /\ reply_ok(eps[e], h[1]) /\ eps' = [eps EXCEPT ![e] = reply(@)]
          /\ eps[e].caller \in Threads /\ pc[eps[e].caller].op = "Call" /\ inbox'[eps[e].caller] = h[2]
          /\ \A u \in Threads : u # eps[e].caller => inbox'[u] = inbox[u]
    BY <1>7, ReplyEffect
  <2>4. Matched(e)
    BY <2>2 DEF RInv
  <2>5. /\ h[2][1] = eps[e].caller
        /\ h[2][3] = pc[eps[e].caller].obj => h[2] = pc[eps[e].caller].msg
    <3>1. eps[e].state = "ReplyOutstanding" /\ h[1] = eps[e].token
      BY <2>3 DEF reply_ok
    <3>2. h[1][1] = eps[e].caller /\ pc[eps[e].caller].obj = e
      BY <2>2, <2>4, <3>1, CallsOwned DEF RInv, Matched
    <3> QED BY <2>4, <3>1, <3>2 DEF RInv, OwnTokens, Matched
  <2>6. ReplyReachesCaller' /\ OwnCalls' /\ OwnTokens'
    BY <2>1, <2>3, <2>5 DEF RInv, ReplyReachesCaller, OwnCalls, OwnTokens
  <2>7. eps[e] \in EndpointType /\ eps'[e] = reply(eps[e])
    BY <2>3 DEF IInv, TypeOK
  <2>8. ASSUME NEW f \in Endpoints PROVE Matched(f)'
    <3>1. BlockedStay /\ TokensFrom(f) /\ Matched(f)
      BY <2>1, <2>2 DEF BlockedStay, TokensFrom, RInv
    <3>2. CASE f # e
      <4>1. eps'[f] = eps[f]
        BY <2>3, <3>2 DEF IInv, TypeOK
      <4> QED BY <2>2, <3>1, <4>1, OtherMatched
    <3>3. CASE f = e
      <4>1. /\ eps'[e].callers = eps[e].callers /\ eps'[e].seq = eps[e].seq
            /\ eps'[e].message = <<>> /\ eps'[e].state # "ReplyOutstanding"
        BY <2>7, ReplyFrees, ReplyRecords
      <4> QED BY <2>2, <3>1, <3>3, <4>1, KeepMatched
    <3> QED BY <3>2, <3>3
  <2> QED BY <2>6, <2>8 DEF RInv
<1> QED BY <1>1, <1>2, <1>3, <1>4, <1>5, <1>6, <1>7, NextCases

(* A reply reaches the thread whose message it answers, while that thread  *)
(* is in a call, and when it is the endpoint of that call that was asked,  *)
(* it answers this call: for any threads, endpoints, programs and queue    *)
(* capacity.                                                               *)
THEOREM RepliesReachCallers == Spec => []ReplyReachesCaller
<1>1. Init => RInv
  <2> SUFFICES ASSUME Init PROVE RInv
    OBVIOUS
  <2>1. /\ endpoint_new.callers = <<>> /\ endpoint_new.state = "Idle"
        /\ endpoint_new.message = <<>>
    BY DEF endpoint_new
  <2>2. /\ \A e \in Endpoints : eps[e] = endpoint_new
        /\ \A t \in Threads : inbox[t] = <<>> /\ held[t] = {} /\ pc[t].op = "User"
    BY DEF Init, User, In
  <2>3. \A e \in Endpoints : Matched(e)
    BY <2>1, <2>2 DEF Matched
  <2> QED BY <2>2, <2>3 DEF RInv, OwnCalls, OwnTokens, ReplyReachesCaller
<1>2. IInv /\ RInv /\ [Next]_vars => RInv'
  BY NextMatched
<1>3. RInv => ReplyReachesCaller
  BY DEF RInv
<1> QED BY <1>1, <1>2, <1>3, Invariance, PTL DEF Spec
=============================================================================
