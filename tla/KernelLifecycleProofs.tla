------------------------ MODULE KernelLifecycleProofs ------------------------
(***************************************************************************)
(* Theorems about process termination, for any set of threads, endpoints   *)
(* and notifications and any programs of the children, under a supervisor  *)
(* that polls (InitPolls).  LInv is the inductive invariant; there is one  *)
(* lemma per action: those that start and end processes are in             *)
(* KernelTeardownProofs, those of the system calls here.                   *)
(***************************************************************************)
EXTENDS KernelTeardownProofs

(* The provers a leaf is tried with that names none *)
USE ZenonT(3), SMTT(30), Z3T(30)
-----------------------------------------------------------------------------
(* The IPC actions *)

(* At most t blocks and at most w is woken; threads that did not start or  *)
(* that ended stay.                                                        *)
Evolves(s, r, t, w) ==
  /\ SchedType(r) /\ Consistent(r) /\ InitRuns(r)
  /\ \A u \in Threads : s.thr[u] \in Terminal \cup {"New"} => r.thr[u] = s.thr[u]
  /\ \A u \in Threads : u # t /\ r.thr[u] = "Blocked" => s.thr[u] = "Blocked"
  /\ \A u \in Threads : u # w /\ s.thr[u] = "Blocked" => r.thr[u] = "Blocked"
  /\ RoomForAll /\ w \in Threads => r.thr[w] # "Blocked"

(* The scheduler after block_current and the wake-up of w *)
Yielded(s, t, w) == IF w = None THEN block_current(s, t) ELSE apply_wake(block_current(s, t), w)

HandsOver(s, r, t, w) == Evolves(s, r, t, w) /\ r.cur \in Threads /\ r.thr[t] = "Blocked"

LEMMA BlockStep ==
  ASSUME NEW s, SchedType(s), Consistent(s), InitRuns(s), NEW t \in Threads, s.cur = t, t # Boot,
         NEW w \in Threads \cup {None}, w # t
  PROVE  /\ Yielded(s, t, w).rq # <<>>
         /\ HandsOver(s, dispatch(Yielded(s, t, w), t), t, w)
<1> DEFINE b == block_current(s, t)
           y == Yielded(s, t, w)
           r == dispatch(y, t)
           h == Head(y.rq)
<1>1. /\ SchedType(b) /\ Consistent(b) /\ b.thr = [s.thr EXCEPT ![t] = "Blocked"]
      /\ b.cur = None /\ b.cpu = t /\ s.thr[t] = "Running"
  BY BlockCurrent
<1>2. y = IF w = None THEN b ELSE apply_wake(b, w)
  BY DEF Yielded
<1> HIDE DEF b, y
<1>3. \A u \in AllThreads : b.thr[u] = IF u = t THEN "Blocked" ELSE s.thr[u]
  BY ZenonT(30), <1>1, Fields
<1>4. /\ SchedType(y) /\ Consistent(y) /\ y.cur = None /\ y.cpu = t
      /\ \A u \in Threads : y.thr[u] = b.thr[u] \/ (b.thr[u] = "Blocked" /\ y.thr[u] = "Runnable" /\ u = w)
      /\ RoomForAll /\ w \in Threads => y.thr[w] # "Blocked"
  <2>1. CASE w = None
    BY <1>1, <1>2, <2>1, IdentitiesDistinct
  <2>2. CASE w # None
    <3>1. w \in Threads /\ y = apply_wake(b, w) /\ w # b.cpu
      BY <1>1, <1>2, <2>2
    <3>2. /\ Woken(b, y) /\ \A u \in AllThreads : u # w => y.thr[u] = b.thr[u]
          /\ RoomForAll => y.thr[w] # "Blocked"
      <4>1. /\ Woken(b, apply_wake(b, w))
            /\ \A u \in AllThreads : u # w => apply_wake(b, w).thr[u] = b.thr[u]
            /\ RoomForAll => apply_wake(b, w).thr[w] # "Blocked"
        BY <1>1, <3>1, WakeAny
      <4> QED
        BY <3>1, <4>1
    <3> QED
      BY <1>1, <3>2 DEF Woken, AllThreads
  <2> QED
    BY <2>1, <2>2
<1>5. InitRuns(y) /\ y.thr[Boot] # "Running"
  BY <1>1, <1>3, <1>4, CoreAssumption, IdentitiesDistinct DEF InitRuns, AllThreads, Consistent
<1>6. y.rq # <<>>
  BY <1>4, <1>5, BootQueued DEF Consistent
<1>7. /\ SchedType(r) /\ Consistent(r) /\ r.thr = [y.thr EXCEPT ![h] = "Running"]
      /\ r.cur = h /\ h \in Threads /\ h # t /\ y.thr[h] = "Runnable"
  <2>1. /\ SchedType(dispatch(y, y.cpu)) /\ Consistent(dispatch(y, y.cpu))
        /\ dispatch(y, y.cpu).thr = [y.thr EXCEPT ![Head(y.rq)] = "Running"]
        /\ dispatch(y, y.cpu).cur = Head(y.rq) /\ dispatch(y, y.cpu).cpu = Head(y.rq)
        /\ dispatch(y, y.cpu).up = y.up
        /\ Head(y.rq) \in Threads /\ Head(y.rq) # y.cpu /\ y.thr[Head(y.rq)] = "Runnable"
    BY ZenonT(30), <1>4, <1>6, Dispatch
  <2> QED
    BY <1>4, <2>1
<1> HIDE DEF r, h
<1>8. \A u \in Threads : r.thr[u] = IF u = h THEN "Running" ELSE y.thr[u]
  BY ZenonT(30), <1>4, <1>7, Fields DEF AllThreads
<1>10. r.thr[t] = "Blocked" /\ InitRuns(r)
  BY <1>3, <1>4, <1>5, <1>7, <1>8, CoreAssumption DEF InitRuns, AllThreads
<1>11. \A u \in Threads : s.thr[u] \in Terminal \cup {"New"} => r.thr[u] = s.thr[u]
  BY <1>1, <1>3, <1>4, <1>7, <1>8 DEF Terminal, AllThreads
<1>12. \A u \in Threads : u # t /\ r.thr[u] = "Blocked" => s.thr[u] = "Blocked"
  BY ZenonT(30), <1>3, <1>4, <1>8 DEF AllThreads
<1>13. \A u \in Threads : u # w /\ s.thr[u] = "Blocked" => r.thr[u] = "Blocked"
  BY <1>1, <1>3, <1>4, <1>7, <1>8 DEF AllThreads
<1>14. RoomForAll /\ w \in Threads => r.thr[w] # "Blocked"
  BY <1>4, <1>8
<1> QED
  BY ZenonT(30), <1>6, <1>7, <1>10, <1>11, <1>12, <1>13, <1>14 DEF HandsOver, Evolves, y, r

(* The rotation of the run queue *)
LEMMA Rotate ==
  ASSUME NEW s, SchedType(s), Consistent(s), InitRuns(s), NEW t \in Threads, s.cur = t, s.rq # <<>>
  PROVE  /\ Evolves(s, reschedule(s, t, Head(s.rq)), None, None)
         /\ reschedule(s, t, Head(s.rq)).cur \in Threads
<1> DEFINE h == Head(s.rq)
           r == reschedule(s, t, h)
<1>1. /\ reschedule_ok(s, t, h) /\ SchedType(r) /\ Consistent(r)
      /\ r.thr = [[s.thr EXCEPT ![t] = "Runnable"] EXCEPT ![h] = "Running"]
      /\ r.cur = h /\ h \in Threads /\ h # t
  BY Reschedule
<1>2. s.thr[t] = "Running" /\ s.thr[h] = "Runnable"
  BY <1>1 DEF reschedule_ok
<1> HIDE DEF r, h
<1>3. \A u \in Threads : r.thr[u] = IF u = h THEN "Running" ELSE IF u = t THEN "Runnable" ELSE s.thr[u]
  BY <1>1, Fields DEF AllThreads
<1>4. InitRuns(r)
  BY <1>3, CoreAssumption DEF InitRuns
<1>5. Evolves(s, r, None, None)
  BY <1>1, <1>2, <1>3, <1>4, IdentitiesDistinct DEF Evolves, Terminal
<1> QED
  BY <1>1, <1>5 DEF r, h

(* Nothing happens to the scheduler. *)
LEMMA Same ==
  ASSUME NEW s, SchedType(s), Consistent(s), InitRuns(s)
  PROVE  Evolves(s, s, None, None)
  BY IdentitiesDistinct DEF Evolves

LEMMA EvolvesKeeps ==
  ASSUME LInv, NEW t, NEW w, Evolves(sched, sched', t, w), proc' = proc
  PROVE  Keeps(sched, sched') /\ Ended(sched', proc')
  BY DEF Evolves, Keeps, Ended, LInv

(* What is left to show for an action on endpoints or notifications *)
LEMMA IpcStep ==
  ASSUME LInv, NEW t, NEW w, Evolves(sched, sched', t, w), proc' = proc,
         eps' \in [Endpoints -> EndpointType], notifs' \in [Notifications -> NotificationType],
         pc' \in [Threads -> PcType], ncalls' \in [Threads -> Nat],
         \A e \in Endpoints : Shape(eps'[e]) /\ Once(eps'[e]), PcObjects(pc'),
         sched'.up => sched'.cur \in Threads /\ LRegs(sched', pc', eps', notifs'),
         RoomForAll => Awaited(sched', pc', eps')
  PROVE  LInv' /\ Keeps(sched, sched')
<1>1. Keeps(sched, sched') /\ Ended(sched', proc')
  BY EvolvesKeeps
<1>2. LTypes'
  BY DEF LInv, LTypes, Evolves
<1> QED
  BY <1>1, <1>2 DEF LInv, Evolves

(* A step of the scheduler alone *)
LEMMA QuietStep ==
  ASSUME LInv, sched.up, Evolves(sched, sched', None, None), sched'.cur \in Threads,
         UNCHANGED <<eps, notifs, pc, ncalls, proc>>
  PROVE  LInv' /\ Keeps(sched, sched')
<1>1. Keeps(sched, sched') /\ Ended(sched', proc')
  BY EvolvesKeeps
<1>2. proc' \in [Threads -> {"Prepared", "Runnable", "Running", "Zombie", "Reaped"}]
  BY DEF LInv, LTypes
<1>3. \A u \in Threads : sched.thr[u] = "Blocked" <=> sched'.thr[u] = "Blocked"
  BY IdentitiesDistinct DEF Evolves
<1> QED
  BY <1>1, <1>2, <1>3, SchedStep DEF Evolves

(* OperationCode::Yield, the timer and the idle thread; the idle thread    *)
(* never gets the CPU.                                                     *)
LEMMA LRotate ==
  ASSUME LInv, UNCHANGED proc,
         (\E t \in Threads : Yield(t)) \/ Preempt \/ IdleDispatch
  PROVE  LInv' /\ Keeps(sched, sched')
<1>1. sched.up
  BY DEF Yield, Syscall, Preempt, Interruptible, IdleDispatch
<1>2. /\ SchedType(sched) /\ Consistent(sched) /\ InitRuns(sched) /\ sched.cur \in Threads
  BY <1>1, CurrentRuns
<1>3. ~IdleDispatch
  BY <1>2, IdentitiesDistinct DEF IdleDispatch
<1>4. /\ sched.rq # <<>> /\ sched' = reschedule(sched, sched.cur, Head(sched.rq))
      /\ UNCHANGED <<eps, notifs, pc, ncalls>>
  BY <1>3 DEF Yield, Syscall, Preempt
<1>5. Evolves(sched, sched', None, None) /\ sched'.cur \in Threads
  BY <1>2, <1>4, Rotate
<1> QED
  BY <1>1, <1>4, <1>5, QuietStep

(* A thread that resumes is the current one, and waits nowhere. *)
LEMMA ResumerFree ==
  ASSUME LInv, NEW t \in Threads, sched.up, sched.cpu = t
  PROVE  /\ sched.thr[t] = "Running" /\ Evolves(sched, sched, None, None) /\ sched.cur \in Threads
         /\ \A u, op, o : LReg(sched, pc, u, op, o) => u # t
<1>1. sched.thr[t] = "Running" /\ SchedType(sched) /\ Consistent(sched) /\ InitRuns(sched) /\ sched.cur \in Threads
  BY CurrentRuns
<1> QED
  BY <1>1, Same DEF LReg, Terminal

(* The rest of a call that was switched away, whatever it takes from the   *)
(* endpoint or the notification                                            *)
LEMMA LResume ==
  ASSUME LInv, NEW t \in Threads, ResumeCall(t) \/ ResumeReceive(t) \/ ResumeWait(t), UNCHANGED proc
  PROVE  LInv' /\ Keeps(sched, sched')
<1>1. /\ sched.up /\ sched.cpu = t /\ sched' = sched /\ pc' = [pc EXCEPT ![t] = User] /\ ncalls' = ncalls
  BY DEF ResumeCall, ResumeReceive, ResumeWait, Resuming
<1>2. /\ sched.thr[t] = "Running" /\ Evolves(sched, sched', None, None) /\ sched'.cur \in Threads
      /\ \A u, op, o : LReg(sched, pc, u, op, o) => u # t
  BY <1>1, ResumerFree
<1>3. /\ eps \in [Endpoints -> EndpointType] /\ notifs \in [Notifications -> NotificationType]
      /\ pc \in [Threads -> PcType] /\ LRegs(sched, pc, eps, notifs) /\ PcObjects(pc)
      /\ \A e \in Endpoints : Shape(eps[e]) /\ Once(eps[e])
  BY <1>1 DEF LInv, LTypes
<1>4. /\ pc' \in [Threads -> PcType] /\ PcObjects(pc')
      /\ \A u \in Threads : pc'[u] = IF u = t THEN User ELSE pc[u]
  BY <1>1, <1>3 DEF PcType, User, PcObjects
<1>5. /\ eps' \in [Endpoints -> EndpointType]
      /\ \A e \in Endpoints : /\ eps'[e].receiver = eps[e].receiver /\ eps'[e].caller = eps[e].caller
                              /\ eps'[e].callers = eps[e].callers /\ eps'[e].state = eps[e].state
                              /\ eps'[e].closed = eps[e].closed
  <2>1. CASE eps' = eps
    BY <1>3, <2>1
  <2>2. CASE eps' # eps
    <3>1. eps' = [eps EXCEPT ![pc[t].obj] = take_received_call(@)]
      BY <2>2 DEF ResumeCall, ResumeReceive, ResumeWait
    <3>2. ASSUME NEW ep \in EndpointType
          PROVE  /\ take_received_call(ep) \in EndpointType
                 /\ take_received_call(ep).receiver = ep.receiver /\ take_received_call(ep).caller = ep.caller
                 /\ take_received_call(ep).callers = ep.callers /\ take_received_call(ep).state = ep.state
                 /\ take_received_call(ep).closed = ep.closed
      BY DEF take_received_call, EndpointType
    <3>3. \A e \in Endpoints : eps[e] \in EndpointType /\ eps'[e] \in {eps[e], take_received_call(eps[e])}
      BY <1>3, <3>1
    <3>4. \A e \in Endpoints : eps'[e] \in EndpointType
      BY <3>2, <3>3
    <3>5. eps' \in [Endpoints -> EndpointType]
      <4>1. eps' = [e \in Endpoints |-> eps'[e]]
        BY <1>3, <3>1
      <4> QED
        BY <3>4, <4>1
    <3>6. \A e \in Endpoints : /\ eps'[e].receiver = eps[e].receiver /\ eps'[e].caller = eps[e].caller
                              /\ eps'[e].callers = eps[e].callers /\ eps'[e].state = eps[e].state
                              /\ eps'[e].closed = eps[e].closed
      BY <3>2, <3>3
    <3> QED
      BY <3>5, <3>6
  <2> QED
    BY <2>1, <2>2
<1>6. /\ notifs' \in [Notifications -> NotificationType]
      /\ \A n \in Notifications : notifs'[n].waiter = notifs[n].waiter
  <2>1. CASE notifs' = notifs
    BY <1>3, <2>1
  <2>2. CASE notifs' # notifs
    <3>1. notifs' = [notifs EXCEPT ![pc[t].obj] = take_signals(@)]
      BY <2>2 DEF ResumeCall, ResumeReceive, ResumeWait
    <3>2. ASSUME NEW n \in NotificationType
          PROVE  take_signals(n) \in NotificationType /\ take_signals(n).waiter = n.waiter
      BY NotificationOps, CoreAssumption
    <3> QED
      BY <1>3, <3>1, <3>2
  <2> QED
    BY <2>1, <2>2
<1>7. \A e \in Endpoints : Shape(eps'[e]) /\ Once(eps'[e])
  BY <1>3, <1>5 DEF Shape, Once
<1>8. \A u, op, o : LReg(sched, pc, u, op, o) => LReg(sched', pc', u, op, o)
  BY <1>1, <1>2, <1>4 DEF LReg
<1>9. LRegs(sched', pc', eps', notifs')
  BY ZenonT(30), <1>3, <1>5, <1>6, <1>8 DEF LRegs, EpReg
<1>10. ASSUME RoomForAll PROVE Awaited(sched', pc', eps')
  <2>1. Awaited(sched, pc, eps)
    BY <1>10 DEF LInv
  <2> QED
    BY <1>1, <1>2, <1>3, <1>4, <1>5, <2>1 DEF Awaited, PcObjects, Waiting
<1> QED
  BY ZenonT(30), <1>1, <1>2, <1>4, <1>5, <1>6, <1>7, <1>9, <1>10, IpcStep DEF LInv, LTypes

(* A device interrupt *)
LEMMA LInterrupt ==
  ASSUME LInv, NEW n \in Notifications, Interrupt(n), UNCHANGED proc
  PROVE  LInv' /\ Keeps(sched, sched')
<1> DEFINE w == signal_wakes(notifs[n])
<1>1. /\ sched.up /\ UNCHANGED <<eps, pc, ncalls>> /\ notifs' = [notifs EXCEPT ![n] = signal(@)]
      /\ sched' = IF w = None THEN sched ELSE apply_wake(sched, w)
  BY DEF Interrupt, Interruptible
<1>2. /\ SchedType(sched) /\ Consistent(sched) /\ InitRuns(sched) /\ sched.cur \in Threads /\ sched.cur # None
  BY <1>1, CurrentRuns
<1>3. /\ eps \in [Endpoints -> EndpointType] /\ notifs \in [Notifications -> NotificationType]
      /\ pc \in [Threads -> PcType] /\ LRegs(sched, pc, eps, notifs) /\ PcObjects(pc)
      /\ \A e \in Endpoints : Shape(eps[e]) /\ Once(eps[e])
  BY <1>1 DEF LInv, LTypes
<1>4. notifs[n] \in NotificationType /\ (w # None => w = notifs[n].waiter)
  BY <1>3 DEF signal_wakes
<1>5. /\ notifs' \in [Notifications -> NotificationType]
      /\ \A m \in Notifications :
           notifs'[m].waiter # None => notifs'[m].waiter = notifs[m].waiter /\ (m # n \/ w = None)
  <2>1. /\ signal(notifs[n]) \in NotificationType
        /\ signal(notifs[n]).waiter # None => signal(notifs[n]).waiter = notifs[n].waiter /\ w = None
    BY <1>4, NotificationOps, CoreAssumption
  <2> HIDE DEF w
  <2> QED
    BY <1>1, <1>3, <2>1
<1>6. w # None => LReg(sched, pc, w, "Wait", n) /\ w \in Threads
  BY <1>3, <1>4 DEF LRegs, LReg
<1> HIDE DEF w
<1>7. /\ Woken(sched, sched') /\ \A u \in AllThreads : u # w => sched'.thr[u] = sched.thr[u]
      /\ RoomForAll /\ w # None => sched'.thr[w] # "Blocked"
  <2>1. CASE w = None
    BY <1>1, <1>2, <2>1 DEF Woken
  <2>2. CASE w # None
    <3>1. /\ Woken(sched, apply_wake(sched, w))
          /\ \A u \in AllThreads : u # w => apply_wake(sched, w).thr[u] = sched.thr[u]
          /\ RoomForAll => apply_wake(sched, w).thr[w] # "Blocked"
      BY <1>2, <1>6, <2>2, WakeAny
    <3> QED
      BY <1>1, <2>2, <3>1
  <2> QED
    BY <2>1, <2>2
<1>8. \A u \in Threads : /\ sched'.thr[u] = sched.thr[u] \/ (sched.thr[u] = "Blocked" /\ sched'.thr[u] = "Runnable")
                         /\ u # w => sched'.thr[u] = sched.thr[u]
  BY <1>7 DEF Woken, AllThreads
<1>9. Evolves(sched, sched', None, w) /\ sched'.cur \in Threads
  <2>1. InitRuns(sched')
    BY <1>2, <1>8, CoreAssumption DEF InitRuns
  <2> QED
    BY ZenonT(30), <1>2, <1>7, <1>8, <2>1, IdentitiesDistinct DEF Evolves, Woken, Terminal
<1>10. Survive(sched, pc, sched', pc', w, "Wait", n)
  <2>1. Keeps(sched, sched')
    BY <1>9, EvolvesKeeps
  <2> QED
    BY ZenonT(30), <1>1, <1>6, <1>8, <2>1, RegKept
<1>11. LRegs(sched', pc', eps', notifs')
  <2>1. \A e \in Endpoints : EpReg(sched', pc', eps'[e], e)
    BY <1>1, <1>3, <1>10 DEF LRegs, EpReg, Survive
  <2>2. ASSUME NEW m \in Notifications, notifs'[m].waiter # None
        PROVE  LReg(sched', pc', notifs'[m].waiter, "Wait", m)
    <3>1. LReg(sched, pc, notifs[m].waiter, "Wait", m) /\ notifs'[m].waiter = notifs[m].waiter
          /\ (m # n \/ w = None)
      BY <1>3, <1>5, <2>2 DEF LRegs
    <3> QED
      BY <1>10, <2>2, <3>1 DEF Survive
  <2> QED
    BY <2>1, <2>2 DEF LRegs
<1>12. RoomForAll => Awaited(sched', pc', eps')
  BY ZenonT(30), <1>1, <1>8 DEF LInv, Awaited
<1> QED
  BY <1>1, <1>3, <1>5, <1>9, <1>11, <1>12, IpcStep DEF LInv, LTypes

(* What a caller that may block finds: it is not the supervisor, and it is *)
(* registered nowhere.                                                     *)
LEMMA CallerFree ==
  ASSUME InitPolls, LInv, NEW t \in Threads, NEW op0 \in {"Call", "Receive", "Wait"}, Syscall(t, op0)
  PROVE  /\ sched.up /\ sched.cur = t /\ t # Boot /\ sched.thr[t] = "Running" /\ t # None
         /\ SchedType(sched) /\ Consistent(sched) /\ InitRuns(sched)
         /\ eps \in [Endpoints -> EndpointType] /\ notifs \in [Notifications -> NotificationType]
         /\ pc \in [Threads -> PcType] /\ LRegs(sched, pc, eps, notifs) /\ PcObjects(pc)
         /\ (\A e \in Endpoints : Shape(eps[e]) /\ Once(eps[e]))
         /\ \A u, op, o : LReg(sched, pc, u, op, o) => u # t
<1>1. sched.up /\ sched.cur = t /\ t # Boot
  BY DEF Syscall, InitPolls
<1>2. /\ SchedType(sched) /\ Consistent(sched) /\ InitRuns(sched) /\ sched.thr[t] = "Running" /\ t # None
  BY <1>1, CurrentRuns
<1>3. /\ eps \in [Endpoints -> EndpointType] /\ notifs \in [Notifications -> NotificationType]
      /\ pc \in [Threads -> PcType] /\ LRegs(sched, pc, eps, notifs) /\ PcObjects(pc)
      /\ \A e \in Endpoints : Shape(eps[e]) /\ Once(eps[e])
  BY <1>1 DEF LInv, LTypes
<1>4. \A u, op, o : LReg(sched, pc, u, op, o) => u # t
  BY <1>2 DEF LReg, Terminal
<1> QED
  BY <1>1, <1>2, <1>3, <1>4

(* The registrations when t blocks in a call and w is woken *)
LEMMA BlockRegs ==
  ASSUME LInv, sched.up, NEW t \in Threads, NEW w, NEW op0, NEW o0, NEW x, proc' = proc,
         Evolves(sched, sched', t, w), w = None \/ LReg(sched, pc, w, op0, o0),
         pc' = [pc EXCEPT ![t] = x], sched.thr[t] = "Running"
  PROVE  /\ Survive(sched, pc, sched', pc', w, op0, o0)
         /\ \A u \in Threads : pc'[u] = IF u = t THEN x ELSE pc[u]
<1>1. \A u \in Threads : pc'[u] = IF u = t THEN x ELSE pc[u]
  BY DEF LInv, LTypes
<1>2. Keeps(sched, sched')
  BY EvolvesKeeps
<1>3. \A u \in Threads : u # w /\ sched.thr[u] = "Blocked" =>
        sched'.thr[u] \in Terminal \cup {"Blocked"} /\ pc'[u] = pc[u]
  BY <1>1 DEF Evolves
<1>4. Survive(sched, pc, sched', pc', w, op0, o0)
  BY <1>2, <1>3, RegKept
<1> QED
  BY <1>1, <1>4

(* OperationCode::WaitNotification *)
LEMMA LWait ==
  ASSUME InitPolls, LInv, NEW t \in Threads, NEW n \in Notifications, Wait(t, n), UNCHANGED proc
  PROVE  LInv' /\ Keeps(sched, sched')
<1>1. /\ sched.up /\ sched.cur = t /\ t # Boot /\ sched.thr[t] = "Running" /\ t # None
      /\ SchedType(sched) /\ Consistent(sched) /\ InitRuns(sched)
      /\ eps \in [Endpoints -> EndpointType] /\ notifs \in [Notifications -> NotificationType]
      /\ pc \in [Threads -> PcType] /\ LRegs(sched, pc, eps, notifs) /\ PcObjects(pc)
      /\ (\A e \in Endpoints : Shape(eps[e]) /\ Once(eps[e]))
  BY CallerFree DEF Wait
<1>2. /\ notifs' = [notifs EXCEPT ![n] = wait(@, t)] /\ eps' = eps /\ ncalls' = ncalls
  BY DEF Wait
<1>3. /\ wait(notifs[n], t) \in NotificationType
      /\ wait(notifs[n], t).waiter = IF wait_blocks(notifs[n]) THEN t ELSE notifs[n].waiter
  BY <1>1, NotificationOps
<1>4. /\ notifs' \in [Notifications -> NotificationType]
      /\ \A m \in Notifications : notifs'[m].waiter =
           IF m = n /\ wait_blocks(notifs[n]) THEN t ELSE notifs[m].waiter
  BY <1>1, <1>2, <1>3
<1>5. CASE wait_blocks(notifs[n])
  <2>1. Yielded(sched, t, None).rq # <<>> /\ HandsOver(sched, dispatch(Yielded(sched, t, None), t), t, None)
    BY <1>1, BlockStep
  <2>2. sched' = dispatch(Yielded(sched, t, None), t) /\ pc' = [pc EXCEPT ![t] = In("Wait", n, <<>>)]
    BY <1>5, <2>1 DEF Wait, Yielded
  <2>3. Evolves(sched, sched', t, None) /\ sched'.cur \in Threads /\ sched'.thr[t] = "Blocked"
    BY <2>1, <2>2 DEF HandsOver
  <2>4. /\ \A u, op, o : LReg(sched, pc, u, op, o) => LReg(sched', pc', u, op, o)
        /\ \A u \in Threads : pc'[u] = IF u = t THEN In("Wait", n, <<>>) ELSE pc[u]
    <3>1. /\ Survive(sched, pc, sched', pc', None, "Wait", n)
          /\ \A u \in Threads : pc'[u] = IF u = t THEN In("Wait", n, <<>>) ELSE pc[u]
      BY <1>1, <2>2, <2>3, BlockRegs
    <3>2. \A u, op, o : LReg(sched, pc, u, op, o) => u # None
      BY IdentitiesDistinct DEF LReg
    <3> QED
      BY <3>1, <3>2 DEF Survive
  <2>5. pc' \in [Threads -> PcType] /\ PcObjects(pc')
    BY <1>1, <2>2, <2>4 DEF PcType, In, PcObjects
  <2>6. LReg(sched', pc', t, "Wait", n)
    BY <2>3, <2>4 DEF LReg, In
  <2>7. LRegs(sched', pc', eps', notifs')
    BY ZenonT(30), <1>1, <1>2, <1>4, <2>4, <2>6 DEF LRegs, EpReg
  <2>8. ASSUME RoomForAll PROVE Awaited(sched', pc', eps')
    <3>1. Awaited(sched, pc, eps)
      BY <2>8 DEF LInv
    <3>2. \A u \in Threads : u # t /\ sched'.thr[u] = "Blocked" => sched.thr[u] = "Blocked" /\ pc'[u] = pc[u]
      BY <2>3, <2>4 DEF Evolves
    <3> QED
      BY <1>2, <2>4, <3>1, <3>2 DEF Awaited, In
  <2> QED
    BY ZenonT(30), <1>1, <1>2, <1>4, <2>3, <2>5, <2>7, <2>8, IpcStep DEF LInv, LTypes
<1>6. CASE ~wait_blocks(notifs[n])
  <2>1. sched' = sched /\ pc' = pc
    BY <1>6 DEF Wait
  <2>2. Evolves(sched, sched', None, None)
    BY <1>1, <2>1, Same
  <2>3. LRegs(sched', pc', eps', notifs')
    BY <1>1, <1>2, <1>4, <1>6, <2>1 DEF LRegs
  <2>4. RoomForAll => Awaited(sched', pc', eps')
    BY <1>2, <2>1 DEF LInv
  <2> QED
    BY <1>1, <1>2, <1>4, <2>1, <2>2, <2>3, <2>4, IpcStep DEF LInv, LTypes
<1> QED
  BY <1>5, <1>6

(* One endpoint changes: its new registrations are all there is to show. *)
LEMMA OneEp ==
  ASSUME LInv, sched.up, NEW e \in Endpoints, NEW ep \in EndpointType, eps' = [eps EXCEPT ![e] = ep],
         Shape(ep), Once(ep)
  PROVE  /\ eps' \in [Endpoints -> EndpointType]
         /\ \A f \in Endpoints : eps'[f] = IF f = e THEN ep ELSE eps[f]
         /\ \A f \in Endpoints : Shape(eps'[f]) /\ Once(eps'[f])
<1>1. eps \in [Endpoints -> EndpointType] /\ \A f \in Endpoints : Shape(eps[f]) /\ Once(eps[f])
  BY DEF LInv, LTypes
<1>2. \A f \in Endpoints : eps'[f] = IF f = e THEN ep ELSE eps[f]
  BY <1>1
<1> QED
  BY <1>1, <1>2

LEMMA OneEpRegs ==
  ASSUME LInv, sched.up, NEW e \in Endpoints, NEW ep, notifs' = notifs,
         \A f \in Endpoints : eps'[f] = IF f = e THEN ep ELSE eps[f],
         NEW w, NEW op0, Survive(sched, pc, sched', pc', w, op0, e),
         op0 # "Wait", EpReg(sched', pc', ep, e)
  PROVE  LRegs(sched', pc', eps', notifs')
<1>1. LRegs(sched, pc, eps, notifs)
  BY DEF LInv
<1>2. ASSUME NEW f \in Endpoints PROVE EpReg(sched', pc', eps'[f], f)
  <2>1. CASE f = e
    BY <2>1
  <2>2. CASE f # e
    <3>1. EpReg(sched, pc, eps[f], f) /\ eps'[f] = eps[f]
      BY <1>1, <2>2 DEF LRegs
    <3> QED
      BY <2>2, <3>1 DEF EpReg, Survive
  <2> QED
    BY <2>1, <2>2
<1>3. \A m \in Notifications : notifs'[m].waiter # None => LReg(sched', pc', notifs'[m].waiter, "Wait", m)
  BY <1>1 DEF LRegs, Survive
<1> QED
  BY <1>2, <1>3 DEF LRegs

(* The queue of callers without its head *)
LEMMA TailCallers ==
  ASSUME NEW ep \in EndpointType, ep.callers # <<>>
  PROVE  /\ Len(Tail(ep.callers)) = Len(ep.callers) - 1 /\ Len(ep.callers) \in Nat
         /\ Head(ep.callers) = ep.callers[1] /\ 1 \in 1..Len(ep.callers)
         /\ \A i \in 1..(Len(ep.callers) - 1) :
              i + 1 \in 1..Len(ep.callers) /\ i + 1 # 1 /\ Tail(ep.callers)[i] = ep.callers[i + 1]
<1> DEFINE R == [caller : Threads, message : Message]
<1>1. ep.callers \in Seq(R)
  BY DEF EndpointType
<1> HIDE DEF R
<1> QED
  BY <1>1

(* Endpoint::receive of a queued call *)
LEMMA TakeEp ==
  ASSUME NEW ep \in EndpointType, NEW t \in Threads, Shape(ep), Once(ep), receive_ok(ep), ep.state = "CallersPending"
  PROVE  /\ receive(ep, t) \in EndpointType /\ Shape(receive(ep, t)) /\ Once(receive(ep, t))
         /\ receive(ep, t).receiver = None /\ ep.receiver = None
         /\ \A u : Waiting(receive(ep, t), u) /\ u # None => \E i \in 1..Len(ep.callers) : ep.callers[i].caller = u
         /\ \A u : u # None /\ Waiting(ep, u) => Waiting(receive(ep, t), u)
<1> DEFINE q == ep.callers
           r == receive(ep, t)
<1>1. q # <<>> /\ ep.receiver = None /\ ep.caller = None
  BY DEF Shape
<1>2. /\ r \in EndpointType /\ r.state = "ReplyOutstanding" /\ r.receiver = ep.receiver
      /\ r.caller = Head(q).caller /\ r.callers = Tail(q) /\ Head(q) \in [caller : Threads, message : Message]
  BY <1>1, ReceiveTakes
<1>3. r.closed = ep.closed /\ ~ep.closed
  BY <1>1 DEF receive, receive_ok, EndpointType
<1>4. /\ Len(Tail(q)) = Len(q) - 1 /\ Len(q) \in Nat /\ Head(q) = q[1] /\ 1 \in 1..Len(q)
      /\ \A i \in 1..(Len(q) - 1) : i + 1 \in 1..Len(q) /\ i + 1 # 1 /\ Tail(q)[i] = q[i + 1]
  BY <1>1, TailCallers
<1> HIDE DEF r, q
<1>5. r.caller \in Threads /\ r.caller # None /\ r.caller = q[1].caller
  BY <1>2, <1>4, IdentitiesDistinct
<1>6. Len(r.callers) = Len(q) - 1 /\ \A i \in 1..(Len(q) - 1) : r.callers[i] = q[i + 1]
  BY <1>2, <1>4
<1>7. Shape(r)
  BY ZenonT(30), <1>1, <1>2, <1>3, <1>5 DEF Shape
<1>8. \A i, j \in 1..Len(q) : q[i].caller = q[j].caller => i = j
  BY DEF Once, q
<1>9. Once(r)
  <2>1. ASSUME NEW i \in 1..Len(r.callers), NEW j \in 1..Len(r.callers), r.callers[i].caller = r.callers[j].caller
        PROVE  i = j
    <3>1. i + 1 \in 1..Len(q) /\ j + 1 \in 1..Len(q) /\ q[i + 1].caller = q[j + 1].caller
      BY <1>4, <1>6, <2>1
    <3>2. i + 1 = j + 1
      BY <1>8, <3>1
    <3> QED
      BY <1>4, <1>6, <3>2
  <2>2. ASSUME NEW i \in 1..Len(r.callers) PROVE r.callers[i].caller # r.caller
    BY <1>4, <1>5, <1>6, <1>8
  <2> QED
    BY <2>1, <2>2 DEF Once
<1>10. ASSUME NEW u, Waiting(r, u) PROVE \E i \in 1..Len(q) : q[i].caller = u
  <2>1. CASE r.caller = u
    BY <1>4, <1>5, <2>1
  <2>2. CASE \E i \in 1..Len(r.callers) : r.callers[i].caller = u
    <3>1. PICK i \in 1..Len(r.callers) : r.callers[i].caller = u
      BY <2>2
    <3>2. i + 1 \in 1..Len(q) /\ q[i + 1].caller = u
      BY ZenonT(30), <1>4, <1>6, <3>1
    <3> QED
      BY ZenonT(30), <3>2
  <2> QED
    BY <1>10, <2>1, <2>2 DEF Waiting
<1>11. ASSUME NEW u, u # None, Waiting(ep, u) PROVE Waiting(r, u)
  <2>1. PICK i \in 1..Len(q) : q[i].caller = u
    BY <1>1, <1>11 DEF Waiting, q
  <2>2. CASE i = 1
    BY <1>5, <2>1, <2>2 DEF Waiting
  <2>3. CASE i # 1
    <3>1. i - 1 \in 1..(Len(q) - 1) /\ (i - 1) + 1 = i
      BY <1>4, <2>3
    <3>2. r.callers[i - 1] = q[i] /\ i - 1 \in 1..Len(r.callers)
      BY <1>6, <3>1
    <3> QED
      BY <2>1, <3>2 DEF Waiting
  <2> QED
    BY <2>2, <2>3
<1> QED
  BY ZenonT(30), <1>1, <1>2, <1>7, <1>9, <1>10, <1>11 DEF r, q

(* OperationCode::Receive that finds a call *)
LEMMA LReceiveTakes ==
  ASSUME InitPolls, LInv, NEW t \in Threads, NEW e \in Endpoints, Receive(t, e), UNCHANGED proc,
         eps[e].state = "CallersPending"
  PROVE  LInv' /\ Keeps(sched, sched')
<1>1. /\ sched.up /\ sched.cur = t /\ t # None
      /\ SchedType(sched) /\ Consistent(sched) /\ InitRuns(sched)
      /\ eps \in [Endpoints -> EndpointType] /\ notifs \in [Notifications -> NotificationType]
      /\ pc \in [Threads -> PcType] /\ LRegs(sched, pc, eps, notifs) /\ PcObjects(pc)
      /\ (\A f \in Endpoints : Shape(eps[f]) /\ Once(eps[f]))
  BY ZenonT(30), CallerFree DEF Receive
<1> DEFINE ep == receive(eps[e], t)
<1>2. /\ eps' = [eps EXCEPT ![e] = ep] /\ notifs' = notifs /\ ncalls' = ncalls /\ sched' = sched /\ pc' = pc
      /\ receive_ok(eps[e])
  BY DEF Receive
<1>3. /\ ep \in EndpointType /\ Shape(ep) /\ Once(ep) /\ ep.receiver = None /\ eps[e].receiver = None
      /\ \A u : Waiting(ep, u) /\ u # None => \E i \in 1..Len(eps[e].callers) : eps[e].callers[i].caller = u
      /\ \A u : u # None /\ Waiting(eps[e], u) => Waiting(ep, u)
  <2>1. eps[e] \in EndpointType /\ Shape(eps[e]) /\ Once(eps[e])
    BY <1>1
  <2> QED
    BY ZenonT(30), <1>2, <2>1, TakeEp
<1> HIDE DEF ep
<1>4. /\ eps' \in [Endpoints -> EndpointType]
      /\ \A f \in Endpoints : eps'[f] = IF f = e THEN ep ELSE eps[f]
      /\ \A f \in Endpoints : Shape(eps'[f]) /\ Once(eps'[f])
  BY <1>1, <1>2, <1>3, OneEp
<1>5. Evolves(sched, sched', None, None)
  BY <1>1, <1>2, Same
<1>6. EpReg(sched', pc', ep, e)
  <2>1. EpReg(sched, pc, eps[e], e)
    BY ZenonT(30), <1>1 DEF LRegs
  <2>2. \A i \in 1..Len(ep.callers) : ep.callers[i].caller # None
    BY ZenonT(30), <1>3, CallerThreads, IdentitiesDistinct
  <2>3. ASSUME NEW u, u # None, Waiting(ep, u) PROVE LReg(sched', pc', u, "Call", e)
    BY ZenonT(30), <1>2, <1>3, <2>1, <2>3 DEF EpReg
  <2> QED
    BY ZenonT(30), <1>3, <2>2, <2>3 DEF EpReg, Waiting
<1>7. LRegs(sched', pc', eps', notifs')
  BY ZenonT(30), <1>1, <1>2, <1>4, <1>6 DEF LRegs
<1>8. ASSUME RoomForAll PROVE Awaited(sched', pc', eps')
  <2>1. Awaited(sched, pc, eps)
    BY <1>8 DEF LInv
  <2>2. \A u \in Threads : u # None
    BY IdentitiesDistinct
  <2>3. ASSUME NEW u \in Threads, sched.thr[u] = "Blocked"
        PROVE  /\ pc[u].op = "Call" => Waiting(eps'[pc[u].obj], u)
               /\ pc[u].op = "Receive" => eps'[pc[u].obj].receiver = u
    BY <1>1, <1>3, <1>4, <2>1, <2>2, <2>3 DEF Awaited, PcObjects
  <2> QED
    BY ZenonT(30), <1>2, <2>3 DEF Awaited
<1> QED
  BY <1>1, <1>2, <1>4, <1>5, <1>7, <1>8, IpcStep DEF LInv, LTypes

(* OperationCode::Receive that waits *)
LEMMA LReceiveBlocks ==
  ASSUME InitPolls, LInv, NEW t \in Threads, NEW e \in Endpoints, Receive(t, e), UNCHANGED proc,
         eps[e].state # "CallersPending"
  PROVE  LInv' /\ Keeps(sched, sched')
<1>1. /\ sched.up /\ sched.cur = t /\ t # Boot /\ sched.thr[t] = "Running" /\ t # None
      /\ SchedType(sched) /\ Consistent(sched) /\ InitRuns(sched)
      /\ eps \in [Endpoints -> EndpointType] /\ notifs \in [Notifications -> NotificationType]
      /\ pc \in [Threads -> PcType] /\ LRegs(sched, pc, eps, notifs) /\ PcObjects(pc)
      /\ (\A f \in Endpoints : Shape(eps[f]) /\ Once(eps[f]))
  BY ZenonT(30), CallerFree DEF Receive
<1> DEFINE ep == receive(eps[e], t)
           y == Yielded(sched, t, None)
<1>2. y.rq # <<>> /\ HandsOver(sched, dispatch(y, t), t, None)
  BY ZenonT(30), <1>1, BlockStep
<1>3. /\ eps' = [eps EXCEPT ![e] = ep] /\ notifs' = notifs /\ ncalls' = ncalls
      /\ eps[e].state = "Idle" /\ ~eps[e].closed
      /\ sched' = dispatch(y, t) /\ pc' = [pc EXCEPT ![t] = In("Receive", e, <<>>)]
  <2> HIDE DEF ep
  <2>1. y = block_current(sched, t)
    BY DEF Yielded
  <2> HIDE DEF y
  <2> QED
    BY ZenonT(30), <1>2, <2>1 DEF Receive, receive_ok, ep
<1>4. Evolves(sched, sched', t, None) /\ sched'.cur \in Threads /\ sched'.thr[t] = "Blocked"
  BY <1>2, <1>3 DEF HandsOver
<1> HIDE DEF y
<1>5. /\ ep \in EndpointType /\ ep.state = "ReceiverWaiting" /\ ep.receiver = t /\ ep.caller = eps[e].caller
      /\ ep.callers = eps[e].callers /\ ~ep.closed
  <2>1. eps[e] \in EndpointType
    BY <1>1
  <2>2. ep.closed = eps[e].closed
    BY ZenonT(30), <1>3, <2>1 DEF receive, EndpointType
  <2> QED
    BY ZenonT(30), <1>3, <2>1, <2>2, ReceiveBlocks
<1> HIDE DEF ep
<1>6. Shape(ep) /\ Once(ep)
  BY <1>1, <1>3, <1>5 DEF Shape, Once
<1>7. /\ eps' \in [Endpoints -> EndpointType]
      /\ \A f \in Endpoints : eps'[f] = IF f = e THEN ep ELSE eps[f]
      /\ \A f \in Endpoints : Shape(eps'[f]) /\ Once(eps'[f])
  BY <1>1, <1>3, <1>5, <1>6, OneEp
<1>8. /\ Survive(sched, pc, sched', pc', None, "Receive", e)
      /\ \A u \in Threads : pc'[u] = IF u = t THEN In("Receive", e, <<>>) ELSE pc[u]
  BY ZenonT(30), <1>1, <1>3, <1>4, BlockRegs
<1>9. pc' \in [Threads -> PcType] /\ PcObjects(pc')
  BY <1>1, <1>3, <1>8 DEF PcType, In, PcObjects
<1>10. EpReg(sched', pc', ep, e)
  <2>1. EpReg(sched, pc, eps[e], e)
    BY ZenonT(30), <1>1 DEF LRegs
  <2>2. LReg(sched', pc', t, "Receive", e)
    BY <1>4, <1>8 DEF LReg, In
  <2> QED
    BY ZenonT(30), <1>5, <1>8, <2>1, <2>2 DEF EpReg, Survive
<1>11. LRegs(sched', pc', eps', notifs')
  BY <1>1, <1>3, <1>7, <1>8, <1>10, OneEpRegs
<1>12. ASSUME RoomForAll PROVE Awaited(sched', pc', eps')
  <2>1. Awaited(sched, pc, eps)
    BY <1>12 DEF LInv
  <2>2. ASSUME NEW u \in Threads, u # t, sched'.thr[u] = "Blocked"
        PROVE  StillWaits(sched, pc, eps, pc', eps', u)
    <3>1. sched.thr[u] = "Blocked" /\ pc'[u] = pc[u]
      BY <1>4, <1>8, <2>2 DEF Evolves
    <3>2. eps[e].receiver # u
      BY <1>1, <1>3, IdentitiesDistinct DEF Shape
    <3> QED
      BY <1>5, <1>7, <3>1, <3>2 DEF Waiting, StillWaits
  <2>3. pc'[t].op = "Receive" /\ pc'[t].obj = e /\ eps'[e].receiver = t
    BY <1>5, <1>7, <1>8 DEF In
  <2> QED
    BY ZenonT(30), <1>1, <2>1, <2>2, <2>3, AwaitedKept
<1> QED
  BY ZenonT(30), <1>1, <1>3, <1>4, <1>7, <1>9, <1>11, <1>12, IpcStep DEF LInv, LTypes

(* The endpoint ep becomes r when t calls. *)
Called(ep, r, t) ==
  /\ r \in EndpointType /\ Shape(r) /\ Once(r) /\ r.receiver = None
  /\ Waiting(r, t) /\ \A u : u # t /\ u # None => (Waiting(r, u) <=> Waiting(ep, u))

(* Endpoint::call, delivered or queued *)
LEMMA CallEp ==
  ASSUME NEW ep \in EndpointType, NEW t \in Threads, NEW m \in Message, Shape(ep), Once(ep), call_ok(ep),
         ~Waiting(ep, t)
  PROVE  Called(ep, call(ep, t, m), t)
<1> DEFINE r == call(ep, t, m)
           q == ep.callers
           x == [caller |-> t, message |-> m]
<1>0. ~ep.closed /\ t # None
  BY IdentitiesDistinct DEF call_ok
<1>1. CASE ep.state = "ReceiverWaiting"
  <2>1. /\ r \in EndpointType /\ r.state = "ReplyOutstanding" /\ r.receiver = None
        /\ r.caller = t /\ r.callers = ep.callers
    BY <1>1, CallDelivers
  <2>2. r.closed = ep.closed
    BY <1>1 DEF call, EndpointType
  <2> HIDE DEF r
  <2>3. ep.caller = None
    BY <1>1 DEF Shape
  <2>4. Shape(r)
    BY ZenonT(30), <1>0, <2>1, <2>2 DEF Shape
  <2>5. Once(r)
    BY <2>1 DEF Once, Waiting
  <2>6. Waiting(r, t) /\ \A u : u # t /\ u # None => (Waiting(r, u) <=> Waiting(ep, u))
    BY ZenonT(30), <2>1, <2>3 DEF Waiting
  <2> QED
    BY <2>1, <2>4, <2>5, <2>6 DEF r, Called
<1>2. CASE ep.state # "ReceiverWaiting"
  <2>1. /\ r \in EndpointType /\ r.state = (IF ep.state = "Idle" THEN "CallersPending" ELSE ep.state)
        /\ r.receiver = ep.receiver /\ r.caller = ep.caller /\ r.callers = Append(q, x)
    BY ZenonT(30), <1>2, CallQueues
  <2>2. r.closed = ep.closed
    BY <1>2 DEF call, EndpointType
  <2> HIDE DEF r
  <2>3. /\ Len(q) \in Nat /\ Len(r.callers) = Len(q) + 1 /\ r.callers[Len(q) + 1] = x
        /\ (\A i \in 1..Len(q) : r.callers[i] = q[i]) /\ r.callers # <<>>
    <3> DEFINE R == [caller : Threads, message : Message]
    <3>1. q \in Seq(R) /\ x \in R
      BY DEF EndpointType
    <3> HIDE DEF R, q, x
    <3> QED
      BY <2>1, <3>1
  <2>4. x.caller = t
    OBVIOUS
  <2> HIDE DEF q, x
  <2>5. Shape(r)
    <3>1. ep.receiver = None
      BY <1>2 DEF Shape
    <3> QED
      BY ZenonT(30), <1>0, <1>2, <2>1, <2>2, <2>3, <3>1 DEF Shape
  <2>6. \A i \in 1..Len(r.callers) : i \in 1..Len(q) \/ i = Len(q) + 1
    BY <2>3
  <2>7. \A i \in 1..Len(q) : q[i].caller # t
    BY DEF Waiting, q
  <2>8. Once(r)
    <3>1. ASSUME NEW i \in 1..Len(r.callers) PROVE r.callers[i].caller # r.caller
      BY ZenonT(30), <2>1, <2>3, <2>4, <2>6 DEF Once, Waiting, q
    <3>2. ASSUME NEW i \in 1..Len(r.callers), NEW j \in 1..Len(r.callers), r.callers[i].caller = r.callers[j].caller
          PROVE  i = j
      BY ZenonT(30), <2>3, <2>4, <2>6, <2>7, <3>2 DEF Once, q
    <3> QED
      BY <3>1, <3>2 DEF Once
  <2>9. Waiting(r, t)
    <3>1. Len(q) + 1 \in 1..Len(r.callers)
      BY <2>3
    <3> QED
      BY ZenonT(30), <2>3, <2>4, <3>1 DEF Waiting
  <2>10. ASSUME NEW u, u # t PROVE Waiting(r, u) <=> Waiting(ep, u)
    <3>1. (\E i \in 1..Len(r.callers) : r.callers[i].caller = u) <=> (\E i \in 1..Len(q) : q[i].caller = u)
      <4>1. \A i \in 1..Len(q) : i \in 1..Len(r.callers)
        BY <2>3
      <4> QED
        BY ZenonT(30), <2>3, <2>4, <2>6, <2>10, <4>1
    <3> QED
      BY <2>1, <3>1 DEF Waiting, q
  <2>11. r.receiver = None
    BY <1>2, <2>1 DEF Shape
  <2> QED
    BY ZenonT(30), <2>1, <2>5, <2>8, <2>9, <2>10, <2>11 DEF r, Called
<1> QED
  BY <1>1, <1>2

LEMMA LReceive ==
  ASSUME InitPolls, LInv, NEW t \in Threads, NEW e \in Endpoints, Receive(t, e), UNCHANGED proc
  PROVE  LInv' /\ Keeps(sched, sched')
  BY LReceiveTakes, LReceiveBlocks

(* What OperationCode::Call finds and does to the endpoint *)
CallMade(t, e, ep) ==
  /\ Called(eps[e], ep, t) /\ eps' \in [Endpoints -> EndpointType]
  /\ \A f \in Endpoints : eps'[f] = IF f = e THEN ep ELSE eps[f]
  /\ \A f \in Endpoints : Shape(eps'[f]) /\ Once(eps'[f])
  /\ ncalls' \in [Threads -> Nat] /\ notifs' = notifs
  /\ eps[e].receiver # t
  /\ eps[e].receiver # None => LReg(sched, pc, eps[e].receiver, "Receive", e)

LEMMA CallEndpoint ==
  ASSUME InitPolls, LInv, NEW t \in Threads, NEW e \in Endpoints, Call(t, e),
         NEW m, m = <<t, ncalls[t] + 1, e>>
  PROVE  m \in Message /\ CallMade(t, e, call(eps[e], t, m))
<1> DEFINE ep == call(eps[e], t, m)
<1>1. /\ sched.up /\ sched.cur = t /\ t # Boot /\ sched.thr[t] = "Running" /\ t # None
      /\ eps \in [Endpoints -> EndpointType] /\ LRegs(sched, pc, eps, notifs)
      /\ (\A f \in Endpoints : Shape(eps[f]) /\ Once(eps[f]))
      /\ \A u, op, o : LReg(sched, pc, u, op, o) => u # t
  BY ZenonT(30), CallerFree DEF Call
<1>2. /\ eps' = [eps EXCEPT ![e] = ep] /\ notifs' = notifs /\ ncalls' = [ncalls EXCEPT ![t] = @ + 1]
      /\ call_ok(eps[e])
  BY DEF Call
<1>3. m \in Message /\ ncalls' \in [Threads -> Nat]
  <2>1. ncalls \in [Threads -> Nat]
    BY DEF LInv, LTypes
  <2> QED
    BY <1>2, <2>1 DEF Message
<1>4. EpReg(sched, pc, eps[e], e)
  BY <1>1 DEF LRegs
<1>5. ~Waiting(eps[e], t)
  BY <1>1, <1>4 DEF EpReg, Waiting
<1>6. Called(eps[e], ep, t)
  BY <1>1, <1>2, <1>3, <1>5, CallEp
<1> HIDE DEF ep
<1>7. ep \in EndpointType /\ Shape(ep) /\ Once(ep)
  BY <1>6 DEF Called
<1>8. /\ eps' \in [Endpoints -> EndpointType]
      /\ \A f \in Endpoints : eps'[f] = IF f = e THEN ep ELSE eps[f]
      /\ \A f \in Endpoints : Shape(eps'[f]) /\ Once(eps'[f])
  BY ZenonT(30), <1>1, <1>2, <1>7, OneEp
<1>9. eps[e].receiver # t /\ (eps[e].receiver # None => LReg(sched, pc, eps[e].receiver, "Receive", e))
  BY <1>1, <1>4 DEF EpReg
<1>10. CallMade(t, e, ep)
  BY ZenonT(30), <1>2, <1>3, <1>6, <1>8, <1>9 DEF CallMade
<1> QED
  BY ZenonT(30), <1>3, <1>10 DEF ep

(* Whoever waits when t calls still waits, unless it is the receiver. *)
LEMMA CallAwaited ==
  ASSUME LInv, RoomForAll, NEW t \in Threads, NEW e \in Endpoints, NEW ep, CallMade(t, e, ep),
         Evolves(sched, sched', t, None) \/ Evolves(sched, sched', t, eps[e].receiver),
         sched'.thr[eps[e].receiver] # "Blocked" \/ eps[e].receiver = None,
         \A u \in Threads : u # t => pc'[u] = pc[u],
         sched'.thr[t] = "Blocked" =>
           pc'[t].op \notin {"Call", "Receive"} \/ (pc'[t].op = "Call" /\ pc'[t].obj = e)
  PROVE  Awaited(sched', pc', eps')
<1>1. Awaited(sched, pc, eps) /\ PcObjects(pc)
  BY DEF LInv
<1>2. /\ \A f \in Endpoints : eps'[f] = IF f = e THEN ep ELSE eps[f]
      /\ Waiting(ep, t) /\ \A u : u # t /\ u # None => (Waiting(ep, u) <=> Waiting(eps[e], u))
  BY DEF CallMade, Called
<1>3. ASSUME NEW u \in Threads, u # t, sched'.thr[u] = "Blocked"
      PROVE  StillWaits(sched, pc, eps, pc', eps', u)
  <2>1. sched.thr[u] = "Blocked" /\ pc'[u] = pc[u] /\ u # None
    BY ZenonT(30), <1>3, IdentitiesDistinct DEF Evolves
  <2>2. eps[e].receiver # u
    BY ZenonT(30), <1>3, <2>1
  <2> QED
    BY ZenonT(30), <1>2, <1>3, <2>1, <2>2 DEF StillWaits
<1>4. sched'.thr[t] = "Blocked" => /\ pc'[t].op = "Call" => Waiting(eps'[pc'[t].obj], t)
                                   /\ pc'[t].op = "Receive" => eps'[pc'[t].obj].receiver = t
  BY <1>2
<1> QED
  BY ZenonT(30), <1>1, <1>3, <1>4, AwaitedKept

(* The kernel stops: nothing else changes. *)
LEMMA Stopped ==
  ASSUME NEW s, SchedType(s), Consistent(s)
  PROVE  LET r == [s EXCEPT !.up = FALSE]
         IN  /\ SchedType(r) /\ Consistent(r)
             /\ r.thr = s.thr /\ r.cur = s.cur /\ r.cpu = s.cpu /\ r.up = FALSE
<1> DEFINE r == [s EXCEPT !.up = FALSE]
<1>1. SchedType(r) /\ r.thr = s.thr /\ r.rq = s.rq /\ r.cur = s.cur /\ r.cpu = s.cpu /\ r.up = FALSE
  BY ZenonT(30) DEF SchedType
<1> HIDE DEF r
<1>2. Consistent(r)
  BY ZenonT(30), <1>1 DEF Consistent, Queued
<1> QED
  BY <1>1, <1>2 DEF r

(* OperationCode::Call whose receiver is gone from the thread table *)
LEMMA LCallPanics ==
  ASSUME InitPolls, LInv, NEW t \in Threads, NEW e \in Endpoints, Call(t, e), UNCHANGED proc,
         eps[e].receiver # None, sched.thr[eps[e].receiver] = "Absent"
  PROVE  LInv' /\ Keeps(sched, sched')
<1>1. /\ sched.up /\ sched.cur = t /\ t # Boot /\ sched.thr[t] = "Running" /\ t # None
      /\ SchedType(sched) /\ Consistent(sched) /\ InitRuns(sched)
      /\ pc \in [Threads -> PcType] /\ PcObjects(pc)
  BY CallerFree DEF Call
<1> DEFINE b == block_current(sched, t)
           ep == call(eps[e], t, <<t, ncalls[t] + 1, e>>)
<1>2. sched' = [b EXCEPT !.up = FALSE] /\ pc' = pc /\ notifs' = notifs /\ pc[t].op = "User"
  BY DEF Call, Syscall
<1>3. CallMade(t, e, ep)
  BY CallEndpoint
<1>4. /\ SchedType(b) /\ Consistent(b) /\ b.thr = [sched.thr EXCEPT ![t] = "Blocked"]
  BY <1>1, BlockCurrent
<1> HIDE DEF b, ep
<1>5. /\ SchedType([b EXCEPT !.up = FALSE]) /\ Consistent([b EXCEPT !.up = FALSE])
      /\ [b EXCEPT !.up = FALSE].thr = b.thr /\ [b EXCEPT !.up = FALSE].up = FALSE
  BY <1>4, Stopped
<1>6. SchedType(sched') /\ Consistent(sched') /\ sched'.thr = b.thr /\ sched'.up = FALSE
  BY ZenonT(30), <1>2, <1>5
<1>7. \A u \in Threads : sched'.thr[u] = IF u = t THEN "Blocked" ELSE sched.thr[u]
  BY <1>1, <1>4, <1>6, Fields DEF AllThreads
<1>8. Evolves(sched, sched', t, None)
  <2>1. InitRuns(sched')
    BY <1>1, <1>7, CoreAssumption DEF InitRuns
  <2> QED
    BY ZenonT(30), <1>1, <1>6, <1>7, <2>1, IdentitiesDistinct DEF Evolves, Terminal
<1>9. RoomForAll => Awaited(sched', pc', eps')
  <2>1. sched'.thr[eps[e].receiver] # "Blocked"
    BY <1>3, <1>7 DEF CallMade, LReg
  <2> QED
    BY ZenonT(30), <1>2, <1>3, <1>8, <2>1, CallAwaited
<1> QED
  BY ZenonT(30), <1>1, <1>2, <1>3, <1>6, <1>8, <1>9, IpcStep DEF LInv, LTypes, CallMade

(* OperationCode::Call that switches away *)
LEMMA LCallBlocks ==
  ASSUME InitPolls, LInv, NEW t \in Threads, NEW e \in Endpoints, Call(t, e), UNCHANGED proc,
         eps[e].receiver = None \/ sched.thr[eps[e].receiver] # "Absent"
  PROVE  LInv' /\ Keeps(sched, sched')
<1>1. /\ sched.up /\ sched.cur = t /\ t # Boot /\ sched.thr[t] = "Running" /\ t # None
      /\ SchedType(sched) /\ Consistent(sched) /\ InitRuns(sched) /\ LRegs(sched, pc, eps, notifs)
      /\ pc \in [Threads -> PcType] /\ PcObjects(pc)
  BY CallerFree DEF Call
<1> DEFINE m == <<t, ncalls[t] + 1, e>>
           ep == call(eps[e], t, m)
           w == eps[e].receiver
           y == Yielded(sched, t, w)
<1>2. m \in Message /\ CallMade(t, e, ep)
  BY ZenonT(30), CallEndpoint
<1>3. w # t /\ w \in Threads \cup {None} /\ (w = None \/ LReg(sched, pc, w, "Receive", e))
  BY <1>2 DEF CallMade, LReg
<1>4. y.rq # <<>> /\ HandsOver(sched, dispatch(y, t), t, w)
  <2> HIDE DEF w
  <2> QED
    BY ZenonT(30), <1>1, <1>3, BlockStep
<1>5. sched' = dispatch(y, t) /\ pc' = [pc EXCEPT ![t] = In("Call", e, m)] /\ notifs' = notifs
  <2>1. y = IF w = None THEN block_current(sched, t) ELSE apply_wake(block_current(sched, t), w)
    BY DEF Yielded
  <2> HIDE DEF y
  <2> QED
    BY <1>4, <2>1 DEF Call
<1> HIDE DEF y, m, ep, w
<1>6. Evolves(sched, sched', t, w) /\ sched'.cur \in Threads /\ sched'.thr[t] = "Blocked"
  BY <1>4, <1>5 DEF HandsOver
<1>7. /\ Survive(sched, pc, sched', pc', w, "Receive", e)
      /\ \A u \in Threads : pc'[u] = IF u = t THEN In("Call", e, m) ELSE pc[u]
  BY ZenonT(30), <1>1, <1>3, <1>5, <1>6, BlockRegs
<1>8. pc' \in [Threads -> PcType] /\ PcObjects(pc')
  BY <1>1, <1>2, <1>5, <1>7 DEF PcType, In, PcObjects
<1>9. EpReg(sched', pc', ep, e)
  <2>1. EpReg(sched, pc, eps[e], e)
    BY <1>1 DEF LRegs
  <2>2. LReg(sched', pc', t, "Call", e)
    BY <1>6, <1>7 DEF LReg, In
  <2>3. /\ ep \in EndpointType /\ ep.receiver = None
        /\ \A u : u # t /\ u # None => (Waiting(ep, u) <=> Waiting(eps[e], u))
    BY <1>2 DEF CallMade, Called
  <2>4. ASSUME NEW u, u # None, Waiting(ep, u) PROVE LReg(sched', pc', u, "Call", e)
    <3>1. CASE u = t
      BY <2>2, <3>1
    <3>2. CASE u # t
      <4>1. LReg(sched, pc, u, "Call", e)
        BY ZenonT(30), <2>1, <2>3, <2>4, <3>2 DEF EpReg, Waiting
      <4> QED
        BY ZenonT(30), <1>7, <4>1 DEF Survive
    <3> QED
      BY <3>1, <3>2
  <2>5. \A i \in 1..Len(ep.callers) : ep.callers[i].caller # None
    BY <2>3, CallerThreads, IdentitiesDistinct
  <2> QED
    BY <2>3, <2>4, <2>5 DEF EpReg, Waiting
<1>10. LRegs(sched', pc', eps', notifs')
  BY ZenonT(30), <1>1, <1>2, <1>5, <1>7, <1>9, OneEpRegs DEF CallMade
<1>11. ASSUME RoomForAll PROVE Awaited(sched', pc', eps')
  <2>1. sched'.thr[w] # "Blocked" \/ w = None
    BY ZenonT(30), <1>3, <1>6, <1>11 DEF Evolves
  <2>2. pc'[t].op = "Call" /\ pc'[t].obj = e /\ \A u \in Threads : u # t => pc'[u] = pc[u]
    BY <1>7 DEF In
  <2> QED
    BY ZenonT(30), <1>2, <1>6, <1>11, <2>1, <2>2, CallAwaited DEF w
<1> QED
  BY ZenonT(30), <1>1, <1>2, <1>5, <1>6, <1>8, <1>10, <1>11, IpcStep DEF LInv, LTypes, CallMade

LEMMA LCall ==
  ASSUME InitPolls, LInv, NEW t \in Threads, NEW e \in Endpoints, Call(t, e), UNCHANGED proc
  PROVE  LInv' /\ Keeps(sched, sched')
  BY LCallPanics, LCallBlocks

(* A wake-up, and what the scheduler does next *)
LEMMA WakeThen ==
  ASSUME NEW s, NEW r, NEW q, NEW w \in Threads, InitRuns(s), Woken(s, r),
         \A u \in AllThreads : u # w => r.thr[u] = s.thr[u],
         RoomForAll => r.thr[w] # "Blocked", Evolves(r, q, None, None)
  PROVE  Evolves(s, q, None, w)
<1>1. \A u \in Threads : /\ r.thr[u] = s.thr[u] \/ (s.thr[u] = "Blocked" /\ r.thr[u] = "Runnable")
                         /\ u # w => r.thr[u] = s.thr[u]
  BY DEF Woken, AllThreads
<1>2. \A u \in Threads : u # None
  BY ZenonT(30), IdentitiesDistinct
<1>3. /\ SchedType(q) /\ Consistent(q) /\ InitRuns(q)
      /\ \A u \in Threads : r.thr[u] \in Terminal \cup {"New"} => q.thr[u] = r.thr[u]
      /\ \A u \in Threads : r.thr[u] = "Blocked" <=> q.thr[u] = "Blocked"
  BY <1>2 DEF Evolves
<1>4. \A u \in Threads : s.thr[u] \in Terminal \cup {"New"} => q.thr[u] = s.thr[u]
  BY <1>1, <1>3 DEF Terminal
<1> QED
  BY ZenonT(30), <1>1, <1>3, <1>4 DEF Evolves

(* The scheduler when a caller c is answered by t *)
LEMMA LReplySched ==
  ASSUME NEW s, SchedType(s), Consistent(s), InitRuns(s), NEW t \in Threads, s.cur = t, NEW c \in Threads,
         NEW wk, wk = apply_wake(s, c), NEW q,
         q = IF reschedule_ok(wk, t, c) THEN reschedule(wk, t, c) ELSE [wk EXCEPT !.up = FALSE]
  PROVE  Evolves(s, q, None, c) /\ (q.up => q.cur \in Threads)
<1>1. /\ Woken(s, wk) /\ \A u \in AllThreads : u # c => wk.thr[u] = s.thr[u]
      /\ RoomForAll => wk.thr[c] # "Blocked"
  <2>1. s.cur # None
    BY IdentitiesDistinct
  <2>2. /\ Woken(s, apply_wake(s, c))
        /\ \A u \in AllThreads : u # c => apply_wake(s, c).thr[u] = s.thr[u]
        /\ RoomForAll => apply_wake(s, c).thr[c] # "Blocked"
    BY <2>1, WakeAny
  <2> QED
    BY <2>2
<1>2. SchedType(wk) /\ Consistent(wk) /\ wk.cur = t
  BY <1>1 DEF Woken
<1>3. InitRuns(wk)
  BY <1>1, CoreAssumption DEF Woken, InitRuns, AllThreads
<1>4. Evolves(wk, q, None, None) /\ (q.up => q.cur \in Threads)
  <2>1. CASE reschedule_ok(wk, t, c)
    <3>1. wk.rq # <<>> /\ c = Head(wk.rq) /\ q = reschedule(wk, t, Head(wk.rq))
      BY <2>1 DEF reschedule_ok
    <3> QED
      BY ZenonT(30), <1>2, <1>3, <3>1, Rotate
  <2>2. CASE ~reschedule_ok(wk, t, c)
    <3>1. /\ SchedType([wk EXCEPT !.up = FALSE]) /\ Consistent([wk EXCEPT !.up = FALSE])
          /\ [wk EXCEPT !.up = FALSE].thr = wk.thr /\ [wk EXCEPT !.up = FALSE].up = FALSE
      BY <1>2, Stopped
    <3>2. SchedType(q) /\ Consistent(q) /\ q.thr = wk.thr /\ q.up = FALSE
      BY ZenonT(30), <2>2, <3>1
    <3> QED
      BY ZenonT(30), <1>3, <3>2, IdentitiesDistinct DEF Evolves, InitRuns
  <2> QED
    BY <2>1, <2>2
<1> QED
  BY ZenonT(30), <1>1, <1>4, WakeThen

(* Endpoint::reply *)
LEMMA ReplyEp ==
  ASSUME NEW ep \in EndpointType, NEW token, Shape(ep), Once(ep), reply_ok(ep, token)
  PROVE  /\ ep.caller # None /\ reply(ep) \in EndpointType /\ Shape(reply(ep)) /\ Once(reply(ep))
         /\ reply(ep).receiver = None /\ ep.receiver = None /\ reply(ep).caller = None
         /\ reply(ep).callers = ep.callers
<1> DEFINE r == reply(ep)
<1>1. /\ r \in EndpointType /\ r.state = (IF ep.callers = <<>> THEN "Idle" ELSE "CallersPending")
      /\ r.receiver = ep.receiver /\ r.caller = None /\ r.callers = ep.callers
  BY ReplyFrees
<1>2. r.closed = ep.closed
  BY DEF reply, EndpointType
<1> HIDE DEF r
<1>3. ep.caller # None /\ ep.receiver = None /\ ~ep.closed
  BY DEF Shape, reply_ok
<1>4. Shape(r)
  BY ZenonT(30), <1>1, <1>2, <1>3 DEF Shape
<1>5. Once(r)
  <2>1. \A i \in 1..Len(ep.callers) : ep.callers[i].caller # None
    BY CallerThreads, IdentitiesDistinct
  <2> QED
    BY ZenonT(30), <1>1, <2>1 DEF Once
<1> QED
  BY ZenonT(30), <1>1, <1>3, <1>4, <1>5 DEF r

(* OperationCode::Reply *)
LEMMA LReply ==
  ASSUME LInv, NEW t \in Threads, NEW h, Reply(t, h), UNCHANGED proc
  PROVE  LInv' /\ Keeps(sched, sched')
<1> DEFINE Wk(c) == apply_wake(sched, c)
<1>1. PICK e \in Endpoints :
        /\ reply_ok(eps[e], h[1]) /\ eps' = [eps EXCEPT ![e] = reply(@)]
        /\ sched' = IF reschedule_ok(Wk(eps[e].caller), t, eps[e].caller) THEN reschedule(Wk(eps[e].caller), t, eps[e].caller)
                    ELSE [Wk(eps[e].caller) EXCEPT !.up = FALSE]
  BY DEF Reply
<1>2. sched.up /\ sched.cur = t /\ notifs' = notifs /\ pc' = pc /\ ncalls' = ncalls
  BY DEF Reply, Syscall
<1>3. /\ SchedType(sched) /\ Consistent(sched) /\ InitRuns(sched)
      /\ eps \in [Endpoints -> EndpointType] /\ notifs \in [Notifications -> NotificationType]
      /\ pc \in [Threads -> PcType] /\ LRegs(sched, pc, eps, notifs) /\ PcObjects(pc)
      /\ (\A f \in Endpoints : Shape(eps[f]) /\ Once(eps[f])) /\ EpReg(sched, pc, eps[e], e)
  BY <1>2 DEF LInv, LTypes, LRegs
<1> DEFINE ep == reply(eps[e])
           c == eps[e].caller
<1>4. /\ c # None /\ ep \in EndpointType /\ Shape(ep) /\ Once(ep)
      /\ ep.receiver = None /\ eps[e].receiver = None /\ ep.caller = None /\ ep.callers = eps[e].callers
  BY ZenonT(30), <1>1, <1>3, ReplyEp
<1>5. LReg(sched, pc, c, "Call", e) /\ c \in Threads
  BY ZenonT(30), <1>3, <1>4 DEF EpReg, LReg
<1>6. Evolves(sched, sched', None, c) /\ (sched'.up => sched'.cur \in Threads)
  <2> HIDE DEF c
  <2>1. sched' = IF reschedule_ok(Wk(c), t, c) THEN reschedule(Wk(c), t, c) ELSE [Wk(c) EXCEPT !.up = FALSE]
    BY ZenonT(30), <1>1 DEF c
  <2> QED
    BY ZenonT(30), <1>2, <1>3, <1>5, <2>1, LReplySched
<1>7. eps' = [eps EXCEPT ![e] = ep]
  BY ZenonT(30), <1>1
<1> HIDE DEF ep, c
<1>8. /\ eps' \in [Endpoints -> EndpointType]
      /\ \A f \in Endpoints : eps'[f] = IF f = e THEN ep ELSE eps[f]
      /\ \A f \in Endpoints : Shape(eps'[f]) /\ Once(eps'[f])
  BY ZenonT(30), <1>2, <1>4, <1>7, OneEp
<1>9. Survive(sched, pc, sched', pc', c, "Call", e)
  <2>1. Keeps(sched, sched')
    BY ZenonT(30), <1>6, EvolvesKeeps
  <2>2. \A u \in Threads : u # c /\ sched.thr[u] = "Blocked" =>
          sched'.thr[u] \in Terminal \cup {"Blocked"} /\ pc'[u] = pc[u]
    BY <1>2, <1>6 DEF Evolves
  <2> QED
    BY ZenonT(30), <1>5, <2>1, <2>2, RegKept
<1>10. EpReg(sched', pc', ep, e)
  <2>1. \A i \in 1..Len(ep.callers) : ep.callers[i].caller # c /\ LReg(sched, pc, ep.callers[i].caller, "Call", e)
    BY ZenonT(30), <1>3, <1>4 DEF Once, EpReg, c
  <2> QED
    BY <1>4, <1>9, <2>1 DEF EpReg, Survive
<1>11. LRegs(sched', pc', eps', notifs')
  BY <1>2, <1>8, <1>9, <1>10, OneEpRegs
<1>12. ASSUME RoomForAll PROVE Awaited(sched', pc', eps')
  <2>1. Awaited(sched, pc, eps)
    BY <1>12 DEF LInv
  <2>2. ASSUME NEW u \in Threads, sched'.thr[u] = "Blocked"
        PROVE  StillWaits(sched, pc, eps, pc', eps', u)
    <3>1. sched.thr[u] = "Blocked" /\ pc'[u] = pc[u] /\ u # None /\ u # c
      BY <1>2, <1>5, <1>6, <1>12, <2>2, IdentitiesDistinct DEF Evolves
    <3> QED
      BY <1>4, <1>8, <3>1 DEF Waiting, StillWaits, c
  <2>3. None \notin Threads
    BY ZenonT(30), IdentitiesDistinct
  <2> QED
    BY ZenonT(30), <1>3, <2>1, <2>2, <2>3, AwaitedKept
<1> QED
  BY ZenonT(30), <1>2, <1>3, <1>6, <1>8, <1>11, <1>12, IpcStep DEF LInv, LTypes
-----------------------------------------------------------------------------
(* The system *)

LEMMA LInitInv ==
  ASSUME LInit
  PROVE  LInv
<1>1. Boot \in Threads /\ Boot # Idle /\ Boot # None
  BY ZenonT(30), CoreAssumption, IdentitiesDistinct
<1>2. \A t \in AllThreads : sched.thr[t] = IF t = Boot THEN "Running" ELSE IF t = Idle THEN "Runnable" ELSE "New"
  BY ZenonT(30) DEF LInit, Init
<1>3. sched.rq = <<>> /\ sched.cur = Boot /\ sched.cpu = Boot /\ sched.up = TRUE
  BY ZenonT(30) DEF LInit, Init
<1>4. SchedType(sched)
  BY <1>1 DEF LInit, Init, SchedType, AllThreads, ThreadState
<1>5. Consistent(sched)
  BY <1>1, <1>2, <1>3, IdentitiesDistinct DEF Consistent, Queued, Elems, Distinct, AllThreads
<1>6. endpoint_new \in EndpointType /\ notification_new \in NotificationType
  BY DEF endpoint_new, EndpointType, EndpointState, notification_new, NotificationType
<1>7. LTypes
  <2>1. User \in PcType
    BY DEF User, PcType
  <2> QED
    BY <1>4, <1>6, <2>1 DEF LInit, Init, LTypes
<1>8. InitRuns(sched) /\ Ended(sched, proc)
  BY <1>1, <1>2 DEF LInit, InitRuns, Ended, AllThreads
<1>9. \A t \in Threads : pc[t] = User
  BY DEF LInit, Init
<1>10. PcObjects(pc) /\ Awaited(sched, pc, eps)
  BY <1>9 DEF PcObjects, Awaited, User
<1>11. /\ \A e \in Endpoints : eps[e] = endpoint_new
       /\ \A n \in Notifications : notifs[n] = notification_new
  BY DEF LInit, Init
<1>12. /\ endpoint_new.receiver = None /\ endpoint_new.caller = None /\ endpoint_new.state = "Idle"
       /\ endpoint_new.callers = <<>> /\ endpoint_new.closed = FALSE /\ notification_new.waiter = None
  BY DEF endpoint_new, notification_new
<1>13. \A e \in Endpoints : Shape(eps[e]) /\ Once(eps[e])
  BY <1>11, <1>12 DEF Shape, Once
<1>14. LRegs(sched, pc, eps, notifs)
  BY <1>11, <1>12 DEF LRegs, EpReg
<1> QED
  BY ZenonT(30), <1>1, <1>3, <1>5, <1>7, <1>8, <1>10, <1>13, <1>14 DEF LInv

LEMMA LNextInv ==
  ASSUME InitPolls, LInv, [LNext]_lvars
  PROVE  LInv' /\ Keeps(sched, sched')
<1>1. CASE UNCHANGED lvars
  <2>1. UNCHANGED <<sched, eps, notifs, pc, ncalls, proc>>
    BY <1>1 DEF lvars
  <2> QED
    BY ZenonT(30), <2>1 DEF LInv, LTypes, Keeps
<1>2. CASE \E t \in Threads : \E u \in Threads : StartProcess(t, u) \/ Terminate(t, u) \/ Reap(t, u)
  BY ZenonT(30), <1>2, LStart, LTerminate, LReap
<1>3. CASE \E t \in Threads : \E e \in Endpoints : CloseEndpoint(t, e)
  BY <1>3, LClose
<1>4. CASE UNCHANGED proc /\ \E t \in Threads : \E e \in Endpoints : Call(t, e) \/ Receive(t, e)
  BY <1>4, LCall, LReceive
<1>5. CASE UNCHANGED proc /\ \E t \in Threads : \E h \in held[t] : Reply(t, h)
  BY <1>5, LReply
<1>6. CASE UNCHANGED proc /\ \E t \in Threads : \E n \in Notifications : Wait(t, n)
  BY <1>6, LWait
<1>7. CASE \E t \in Threads : ExitProcess(t) \/ PageFault(t)
  BY ZenonT(30), <1>7, LExit, LFault
<1>8. CASE UNCHANGED proc /\ \E t \in Threads : ResumeCall(t) \/ ResumeReceive(t) \/ ResumeWait(t)
  BY ZenonT(30), <1>8, LResume
<1>9. CASE UNCHANGED proc /\ ((\E t \in Threads : Yield(t)) \/ Preempt \/ IdleDispatch)
  BY ZenonT(30), <1>9, LRotate
<1>10. CASE UNCHANGED proc /\ \E n \in Notifications : Interrupt(n)
  BY ZenonT(30), <1>10, LInterrupt
<1> QED
  BY ZenonT(30), <1>1, <1>2, <1>3, <1>4, <1>5, <1>6, <1>7, <1>8, <1>9, <1>10 DEF LNext

(* LInv is an invariant of the lifecycle system. *)
THEOREM LInvariance == ASSUME InitPolls PROVE LSpec => []LInv
<1>1. LInit => LInv
  BY LInitInv
<1>2. LInv /\ [LNext]_lvars => LInv'
  BY LNextInv
<1> QED
  BY <1>1, <1>2, PTL DEF LSpec

(* A thread that is neither Runnable, Running nor Blocked is off the CPU   *)
(* and out of the run queue.                                               *)
LEMMA OffTheCpu ==
  ASSUME NEW s, SchedType(s), Consistent(s), NEW t \in Threads, s.thr[t] \in Terminal \cup {"New"}
  PROVE  t \notin Queued(s) /\ s.cpu # t
  BY IdentitiesDistinct DEF Consistent, Terminal

(* Termination, ExitProcess, page faults and endpoint closure keep run     *)
(* queue, thread states, current_thread and CPU consistent, for any number *)
(* of threads and any queue capacity.                                      *)
THEOREM LifecycleConsistent == ASSUME InitPolls PROVE LSpec => []SchedConsistent
<1>1. LInv => SchedConsistent
  BY DEF LInv, SchedConsistent
<1> QED
  BY <1>1, LInvariance, PTL

(* No resurrection: a terminated, exited or faulted thread is never queued *)
(* or executed again, whatever Reply, endpoint closure, Start or interrupt *)
(* still names it, for any programs of the children.                       *)
THEOREM NoThreadReturns == ASSUME InitPolls PROVE LSpec => NoResurrection
<1>1. ASSUME LInv, [LNext]_lvars, NEW t \in Threads, sched.thr[t] \in Terminal
      PROVE  sched'.thr[t] \in Terminal /\ t \notin Queued(sched') /\ sched'.cpu # t
  <2>1. LInv' /\ Keeps(sched, sched')
    BY <1>1, LNextInv
  <2>2. SchedType(sched') /\ Consistent(sched') /\ sched'.thr[t] \in Terminal
    BY <1>1, <2>1 DEF LInv, LTypes, Keeps
  <2> QED
    BY ZenonT(30), <2>2, OffTheCpu
<1>2. LInv /\ [LNext]_lvars =>
        [\A t \in Threads :
           sched.thr[t] \in Terminal =>
             /\ sched'.thr[t] \in Terminal
             /\ t \notin Queued(sched')
             /\ sched'.cpu # t]_lvars
  BY <1>1
<1> QED
  BY <1>2, LInvariance, PTL DEF LSpec, NoResurrection

(* A process that reached Zombie has left the scheduler: when Reap frees   *)
(* its stack and page tables its thread is neither queued nor on the CPU.  *)
THEOREM ZombiesStopped == ASSUME InitPolls PROVE LSpec => []ZombieNotExecuting
<1>1. LInv => ZombieNotExecuting
  BY OffTheCpu DEF LInv, LTypes, Ended, ZombieNotExecuting
<1> QED
  BY <1>1, LInvariance, PTL

(* Closing an endpoint, by DeleteHandle or by Reap, leaves no thread       *)
(* Blocked in a Call or Receive on it, as long as the run queue has room.  *)
THEOREM ClosingWakes == ASSUME InitPolls, RoomForAll PROVE LSpec => []CloseWakesAll
<1>1. LInv => CloseWakesAll
  <2> SUFFICES ASSUME LInv, NEW t \in Threads, pc[t].op \in {"Call", "Receive"}, eps[pc[t].obj].closed,
                      sched.thr[t] = "Blocked"
               PROVE  FALSE
    BY DEF CloseWakesAll
  <2>1. Awaited(sched, pc, eps) /\ pc[t].obj \in Endpoints /\ Shape(eps[pc[t].obj]) /\ t # None
    BY ZenonT(30), IdentitiesDistinct DEF LInv, PcObjects
  <2>2. Waiting(eps[pc[t].obj], t) \/ eps[pc[t].obj].receiver = t
    BY <2>1 DEF Awaited
  <2> QED
    BY <2>1, <2>2 DEF Shape, Waiting
<1> QED
  BY <1>1, LInvariance, PTL
=============================================================================
