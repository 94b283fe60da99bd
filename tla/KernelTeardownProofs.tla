------------------------ MODULE KernelTeardownProofs ------------------------
(***************************************************************************)
(* LInv, the inductive invariant of process termination, and the actions   *)
(* that start and end processes: Start, Terminate, Exit, Fault, Close and  *)
(* Reap preserve it.                                                       *)
(***************************************************************************)
EXTENDS KernelLifecycle, KernelStepProofs, WellFoundedInduction

(* The provers a leaf is tried with that names none *)
USE ZenonT(3), SMTT(30), Z3T(30)
-----------------------------------------------------------------------------
(* Induction over the natural numbers in first-order form, and the states  *)
(* of a loop                                                               *)

(* A set of natural numbers that is not empty has a least element. *)
LEMMA LeastNat ==
  ASSUME NEW S, S \subseteq Nat, S # {}
  PROVE  \E n \in S : \A m \in S : n <= m
<1> DEFINE R == OpToRel(<, Nat)
<1>1. IsWellFoundedOn(R, Nat)
  BY NatLessThanWellFounded
<1>2. PICK n \in S : \A m \in S : ~(<<m, n>> \in R)
  <2> HIDE DEF R
  <2> QED BY <1>1, WFMin
<1>3. \A m \in S : m < n => <<m, n>> \in R
  BY DEF OpToRel
<1>4. \A m \in S : ~(m < n)
  BY <1>2, <1>3
<1> QED
  BY <1>4

(* A set that contains 0 and, with every number below n, the next one      *)
(* contains all numbers up to n.                                           *)
LEMMA UpTo ==
  ASSUME NEW n \in Nat, NEW S, 0 \in S, \A k \in 0..(n - 1) : k \in S => k + 1 \in S
  PROVE  0..n \subseteq S
<1> DEFINE T == {k \in 0..n : k \notin S}
<1> SUFFICES ASSUME T # {} PROVE FALSE
  OBVIOUS
<1>1. PICK k \in T : \A j \in T : k <= j
  <2>1. T \subseteq Nat
    OBVIOUS
  <2> QED
    BY <2>1, LeastNat
<1>2. k # 0
  OBVIOUS
<1>3. k - 1 \in 0..(n - 1) /\ k - 1 \in S
  BY <1>1, <1>2
<1> QED
  BY <1>3

(* A loop of n steps, each a function on the set D, has a sequence of      *)
(* states.                                                                 *)
Runs(D, n, step, x) ==
  \E f \in [0..n -> D] : f[0] = x /\ \A k \in 1..n : f[k] = step[k][f[k - 1]]

LEMMA Loop ==
  ASSUME NEW D, NEW n \in Nat, NEW step \in [1..n -> [D -> D]], NEW x \in D
  PROVE  Runs(D, n, step, x)
<1> DEFINE P(m) == \E f \in [0..m -> D] : f[0] = x /\ \A k \in 1..m : f[k] = step[k][f[k - 1]]
           S == {m \in 0..n : P(m)}
<1>1. P(0)
  <2> DEFINE f == [k \in 0..0 |-> x]
  <2>1. f \in [0..0 -> D] /\ f[0] = x /\ \A k \in 1..0 : f[k] = step[k][f[k - 1]]
    OBVIOUS
  <2> QED
    BY <2>1
<1>2. ASSUME NEW m \in 0..(n - 1), P(m) PROVE P(m + 1)
  <2>1. PICK f \in [0..m -> D] : f[0] = x /\ \A k \in 1..m : f[k] = step[k][f[k - 1]]
    BY <1>2
  <2> DEFINE g == [k \in 0..(m + 1) |-> IF k = m + 1 THEN step[m + 1][f[m]] ELSE f[k]]
  <2>2. f[m] \in D /\ m + 1 \in 1..n
    BY <2>1
  <2>3. step[m + 1][f[m]] \in D
    BY <2>2
  <2>4. g \in [0..(m + 1) -> D]
    BY <2>1, <2>3
  <2>5. g[0] = x
    BY <2>1
  <2>6. ASSUME NEW k \in 1..(m + 1) PROVE g[k] = step[k][g[k - 1]]
    <3>1. CASE k = m + 1
      <4>1. k \in 0..(m + 1) /\ k - 1 = m /\ m \in 0..(m + 1) /\ m # m + 1
        BY <3>1
      <4>2. g[k] = step[k][f[m]] /\ g[m] = f[m]
        BY <3>1, <4>1
      <4> QED
        BY <4>1, <4>2
    <3>2. CASE k # m + 1
      <4>1. k \in 1..m /\ k \in 0..(m + 1) /\ k - 1 \in 0..(m + 1) /\ k - 1 # m + 1
        BY <3>2
      <4>2. g[k] = f[k] /\ g[k - 1] = f[k - 1]
        BY <3>2, <4>1
      <4> QED
        BY <2>1, <4>1, <4>2
    <3> QED
      BY <3>1, <3>2
  <2> HIDE DEF g
  <2> QED
    BY <2>4, <2>5, <2>6
<1>3. P(n)
  <2> HIDE DEF P
  <2>1. 0 \in S /\ \A k \in 0..(n - 1) : k \in S => k + 1 \in S
    BY <1>1, <1>2
  <2>2. 0..n \subseteq S
    BY <2>1, UpTo
  <2> QED
    BY <2>2
<1> QED
  BY <1>3 DEF Runs
-----------------------------------------------------------------------------
PcType == [op : {"User", "Call", "Receive", "Wait"},
           obj : Endpoints \cup Notifications \cup {None},
           msg : Message \cup {<<>>}]

LTypes ==
  /\ SchedType(sched)
  /\ eps \in [Endpoints -> EndpointType]
  /\ notifs \in [Notifications -> NotificationType]
  /\ pc \in [Threads -> PcType]
  /\ ncalls \in [Threads -> Nat]
  /\ proc \in [Threads -> {"Prepared", "Runnable", "Running", "Zombie", "Reaped"}]

InitRuns(s) == s.thr[Boot] \in {"Runnable", "Running"}

(* The thread of a process that ended is on its way out, or never ran. *)
Ended(s, pr) == \A t \in Threads : pr[t] \in {"Zombie", "Reaped"} => s.thr[t] \in Terminal \cup {"New"}

Shape(ep) ==
  /\ ep.receiver # None => ep.state = "ReceiverWaiting"
  /\ ep.caller # None <=> ep.state = "ReplyOutstanding"
  /\ ep.state = "CallersPending" => ep.callers # <<>>
  /\ ep.closed => ep.receiver = None /\ ep.caller = None /\ ep.callers = <<>>

(* No thread is the outstanding caller and queued, or queued twice. *)
Once(ep) ==
  \A i \in 1..Len(ep.callers) :
    /\ ep.callers[i].caller # ep.caller
    /\ \A j \in 1..Len(ep.callers) : ep.callers[i].caller = ep.callers[j].caller => i = j

PcObjects(p) ==
  \A t \in Threads : p[t].op \in {"Call", "Receive"} => p[t].obj \in Endpoints

(* A thread that is registered to be woken is Blocked in the call it is    *)
(* registered for, or has ended since.                                     *)
LReg(s, p, u, op, o) ==
  /\ u \in Threads
  /\ s.thr[u] \in Terminal \/ (s.thr[u] = "Blocked" /\ p[u].op = op /\ p[u].obj = o)

EpReg(s, p, ep, e) ==
  /\ ep.receiver # None => LReg(s, p, ep.receiver, "Receive", e)
  /\ ep.caller # None => LReg(s, p, ep.caller, "Call", e)
  /\ \A i \in 1..Len(ep.callers) : LReg(s, p, ep.callers[i].caller, "Call", e)

LRegs(s, p, E, N) ==
  /\ \A e \in Endpoints : EpReg(s, p, E[e], e)
  /\ \A n \in Notifications : N[n].waiter # None => LReg(s, p, N[n].waiter, "Wait", n)

Waiting(ep, u) == ep.caller = u \/ \E i \in 1..Len(ep.callers) : ep.callers[i].caller = u

(* A thread Blocked in a Call or Receive is registered where it waits. *)
Awaited(s, p, E) ==
  \A u \in Threads : s.thr[u] = "Blocked" =>
    /\ p[u].op = "Call" => Waiting(E[p[u].obj], u)
    /\ p[u].op = "Receive" => E[p[u].obj].receiver = u

LInv ==
  /\ LTypes
  /\ Consistent(sched)
  /\ InitRuns(sched)
  /\ Ended(sched, proc)
  /\ \A e \in Endpoints : Shape(eps[e]) /\ Once(eps[e])
  /\ PcObjects(pc)
  /\ sched.up => sched.cur \in Threads /\ LRegs(sched, pc, eps, notifs)
  /\ RoomForAll => Awaited(sched, pc, eps)

-----------------------------------------------------------------------------
(* The scheduler as threads are woken and ended *)

(* What waking threads may do to the scheduler. *)
Woken(s, r) ==
  /\ SchedType(r) /\ Consistent(r)
  /\ r.cur = s.cur /\ r.cpu = s.cpu /\ r.up = s.up
  /\ \A u \in AllThreads : r.thr[u] = s.thr[u] \/ (s.thr[u] = "Blocked" /\ r.thr[u] = "Runnable")

(* Waking two lists of threads is waking one. *)
LEMMA WokenTwice ==
  ASSUME NEW s, NEW r, NEW q, Woken(s, r), Woken(r, q)
  PROVE  Woken(s, q)
<1>1. \A u \in AllThreads : q.thr[u] = s.thr[u] \/ (s.thr[u] = "Blocked" /\ q.thr[u] = "Runnable")
  BY ZenonT(30) DEF Woken
<1> QED
  BY <1>1 DEF Woken

(* Scheduler::apply_wake of any thread but a stranded one; with room in    *)
(* the queue the thread is not Blocked afterwards.                         *)
LEMMA WakeAny ==
  ASSUME NEW s, SchedType(s), Consistent(s), NEW t \in Threads, s.cur # None \/ t # s.cpu
  PROVE  /\ Woken(s, apply_wake(s, t))
         /\ \A u \in AllThreads : u # t => apply_wake(s, t).thr[u] = s.thr[u]
         /\ RoomForAll => apply_wake(s, t).thr[t] # "Blocked"
<1> DEFINE r == apply_wake(s, t)
<1>1. CASE Len(s.rq) < Capacity /\ s.thr[t] = "Blocked"
  <2>1. t # s.cpu
    BY <1>1, IdentitiesDistinct DEF Consistent
  <2>2. /\ SchedType(r) /\ Consistent(r) /\ r.thr = [s.thr EXCEPT ![t] = "Runnable"]
        /\ r.cur = s.cur /\ r.cpu = s.cpu /\ r.up = s.up
    BY <1>1, <2>1, ApplyWakeFields
  <2> HIDE DEF r
  <2>3. \A u \in AllThreads : r.thr[u] = IF u = t THEN "Runnable" ELSE s.thr[u]
    BY <2>2, Fields
  <2>4. Woken(s, r)
    BY <1>1, <2>2, <2>3 DEF Woken
  <2> QED
    BY <2>3, <2>4 DEF r, AllThreads
<1>2. CASE ~(Len(s.rq) < Capacity /\ s.thr[t] = "Blocked")
  <2>1. r = s
    BY <1>2 DEF apply_wake
  <2>2. Woken(s, s)
    BY DEF Woken
  <2>3. ASSUME RoomForAll, s.thr[t] = "Blocked" PROVE FALSE
    <3>1. t \notin Elems(s.rq) /\ Distinct(s.rq) /\ s.rq \in Seq(Threads)
      BY <2>3, Fields DEF Consistent, Queued
    <3>2. Len(s.rq) < Capacity
      BY <2>3, <3>1, QueueRoom
    <3> QED
      BY <1>2, <2>3, <3>2
  <2> QED
    BY <2>1, <2>2, <2>3
<1> QED
  BY <1>1, <1>2

(* The next thread takes over the CPU from one that is neither Runnable    *)
(* nor gone from the table: dispatch when a thread has ended.              *)
LEMMA HandOver ==
  ASSUME NEW s, SchedType(s), NEW t \in Threads, s.rq # <<>>, Distinct(s.rq),
         \A u \in Threads : u \in Queued(s) <=> s.thr[u] = "Runnable",
         \A u \in Threads : s.thr[u] # "Running", s.thr[t] \notin {"Runnable", "Absent"}
  PROVE  LET h == Head(s.rq)
             r == dispatch(s, t)
         IN  /\ SchedType(r) /\ Consistent(r)
             /\ r.thr = [s.thr EXCEPT ![h] = "Running"]
             /\ h \in Threads /\ s.thr[h] = "Runnable"
<1> DEFINE h == Head(s.rq)
           r == dispatch(s, t)
<1>1. /\ h \in Elems(s.rq) /\ h \in Threads /\ Tail(s.rq) \in Seq(Threads)
      /\ Distinct(Tail(s.rq)) /\ Elems(Tail(s.rq)) = Elems(s.rq) \ {h}
  BY Fields, PopFront
<1>2. s.thr[h] = "Runnable" /\ h # t
  BY <1>1 DEF Queued
<1>3. switch_ok([s EXCEPT !.rq = Tail(@), !.cur = h], t, h)
  BY <1>2 DEF switch_ok, SchedType
<1>4. r = switch_to_next([s EXCEPT !.rq = Tail(@), !.cur = h], h)
  BY <1>3 DEF dispatch
<1> HIDE DEF h
<1>5. r = [s EXCEPT !.rq = Tail(s.rq), !.cur = h, !.thr = [s.thr EXCEPT ![h] = "Running"], !.cpu = h]
  BY <1>1, <1>2, <1>4 DEF switch_to_next, SchedType, AllThreads
<1>6. /\ r.thr = [s.thr EXCEPT ![h] = "Running"]
      /\ r.rq = Tail(s.rq) /\ r.cur = h /\ r.cpu = h /\ r.up = s.up
  BY <1>5 DEF SchedType
<1>7. SchedType(r)
  <2>1. [s.thr EXCEPT ![h] = "Running"] \in [AllThreads -> ThreadState \cup {"Absent"}]
    BY Fields, <1>1 DEF AllThreads, ThreadState
  <2> QED
    BY ZenonT(60), <1>1, <1>5, <2>1 DEF SchedType, AllThreads
<1> HIDE DEF r
<1>8. \A u \in AllThreads : r.thr[u] = IF u = h THEN "Running" ELSE s.thr[u]
  BY ZenonT(30), <1>1, <1>6, Fields
<1>9. Consistent(r)
  BY <1>1, <1>2, <1>6, <1>8, IdentitiesDistinct DEF Consistent, Queued, AllThreads
<1> QED
  BY <1>1, <1>2, <1>6, <1>7, <1>9 DEF r, h

(* One sequence after another. *)
Then(a, b, r) ==
  /\ r \in Seq(Threads) /\ Len(r) = Len(a) + Len(b)
  /\ \A k \in 1..Len(a) : r[k] = a[k]
  /\ \A k \in 1..Len(b) : r[Len(a) + k] = b[k]

LEMMA Joined ==
  ASSUME NEW a \in Seq(Threads), NEW b \in Seq(Threads)
  PROVE  Then(a, b, a \o b)
<1> DEFINE r == a \o b
<1>1. Len(a) \in Nat /\ Len(b) \in Nat
  OBVIOUS
<1>2. r \in Seq(Threads) /\ Len(r) = Len(a) + Len(b)
  OBVIOUS
<1>3. \A k \in 1..Len(a) : r[k] = a[k]
  BY <1>1
<1>4. \A k \in 1..Len(b) : r[Len(a) + k] = b[k]
  BY <1>1
<1> HIDE DEF r
<1>5. Then(a, b, r)
  BY <1>2, <1>3, <1>4 DEF Then
<1> QED
  BY <1>5 DEF r

(* A queue without its i-th entry, from the parts before and after it. *)
Without(q, i, r) ==
  /\ r \in Seq(Threads) /\ Len(r) = Len(q) - 1
  /\ \A k \in 1..(Len(q) - 1) : r[k] = IF k < i THEN q[k] ELSE q[k + 1]

LEMMA PartsJoined ==
  ASSUME NEW q \in Seq(Threads), NEW i \in 1..Len(q), NEW a \in Seq(Threads), NEW b \in Seq(Threads),
         Len(a) = i - 1, Len(b) = Len(q) - i, NEW r \in Seq(Threads), Len(r) = Len(a) + Len(b),
         \A k \in 1..(i - 1) : a[k] = q[k], \A k \in 1..(Len(q) - i) : b[k] = q[i + k],
         \A k \in 1..Len(a) : r[k] = a[k], \A k \in 1..Len(b) : r[Len(a) + k] = b[k]
  PROVE  Without(q, i, r)
<1>1. Len(q) \in Nat /\ i \in Nat /\ i >= 1 /\ i <= Len(q) /\ Len(r) = Len(q) - 1
  OBVIOUS
<1>2. ASSUME NEW k \in 1..(Len(q) - 1) PROVE r[k] = IF k < i THEN q[k] ELSE q[k + 1]
  <2>1. CASE k < i
    <3>1. k \in 1..Len(a) /\ k \in 1..(i - 1)
      BY <1>1, <2>1
    <3> QED
      BY <2>1, <3>1
  <2>2. CASE ~(k < i)
    <3> DEFINE j == k - (i - 1)
    <3>1. j \in 1..Len(b) /\ j \in 1..(Len(q) - i) /\ i + j = k + 1 /\ Len(a) + j = k
      BY <1>1, <2>2
    <3> HIDE DEF j
    <3>2. r[k] = b[j] /\ b[j] = q[k + 1]
      BY ZenonT(30), <3>1
    <3> QED
      BY <2>2, <3>2
  <2> QED
    BY <2>1, <2>2
<1> QED
  BY <1>1, <1>2 DEF Without

LEMMA CutWithout ==
  ASSUME NEW q \in Seq(Threads), NEW i \in 1..Len(q)
  PROVE  Without(q, i, SubSeq(q, 1, i - 1) \o SubSeq(q, i + 1, Len(q)))
<1> DEFINE a == SubSeq(q, 1, i - 1)
           b == SubSeq(q, i + 1, Len(q))
           r == a \o b
<1>1. Len(q) \in Nat /\ i \in Nat /\ i >= 1 /\ i <= Len(q)
  OBVIOUS
<1>2. /\ a \in Seq(Threads) /\ Len(a) = i - 1
      /\ \A k \in 1..(i - 1) : a[k] = q[k]
  BY <1>1
<1>3. /\ b \in Seq(Threads) /\ Len(b) = Len(q) - i
      /\ \A k \in 1..(Len(q) - i) : b[k] = q[i + k]
  BY <1>1
<1> HIDE DEF a, b
<1>4. /\ r \in Seq(Threads) /\ Len(r) = Len(a) + Len(b)
      /\ \A k \in 1..Len(a) : r[k] = a[k]
      /\ \A k \in 1..Len(b) : r[Len(a) + k] = b[k]
  BY <1>2, <1>3, Joined DEF Then
<1> HIDE DEF r
<1>5. Without(q, i, r)
  BY ZenonT(30), <1>2, <1>3, <1>4, PartsJoined
<1> QED
  BY <1>5 DEF r, a, b

(* Taking one entry out of a queue without repetitions. *)
LEMMA CutOut ==
  ASSUME NEW q \in Seq(Threads), Distinct(q), NEW i \in 1..Len(q), NEW r, Without(q, i, r)
  PROVE  r \in Seq(Threads) /\ Distinct(r) /\ Elems(r) = Elems(q) \ {q[i]}
<1>1. Len(q) \in Nat /\ i \in Nat /\ i >= 1 /\ i <= Len(q)
  OBVIOUS
<1>4. r \in Seq(Threads) /\ Len(r) = Len(q) - 1
  BY DEF Without
<1>5. \A k \in 1..(Len(q) - 1) : r[k] = IF k < i THEN q[k] ELSE q[k + 1]
  BY DEF Without
<1>6. Distinct(r)
  <2> SUFFICES ASSUME NEW c \in 1..(Len(q) - 1), NEW d \in 1..(Len(q) - 1), r[c] = r[d] PROVE c = d
    BY <1>4 DEF Distinct
  <2> DEFINE at(k) == IF k < i THEN k ELSE k + 1
  <2>1. at(c) \in 1..Len(q) /\ at(d) \in 1..Len(q)
    BY <1>1
  <2>2. r[c] = q[at(c)] /\ r[d] = q[at(d)]
    BY <1>5
  <2> HIDE DEF at
  <2>3. at(c) = at(d)
    BY <2>1, <2>2 DEF Distinct
  <2> QED
    BY <1>1, <2>3 DEF at
<1>7. ASSUME NEW k \in 1..Len(r) PROVE r[k] \in Elems(q) /\ r[k] # q[i]
  <2>1. k \in 1..(Len(q) - 1)
    BY <1>4
  <2> DEFINE j == IF k < i THEN k ELSE k + 1
  <2>2. j \in 1..Len(q) /\ j # i
    BY <1>1, <2>1
  <2>3. r[k] = q[j]
    BY <1>5, <2>1
  <2> HIDE DEF j
  <2> QED
    BY <2>2, <2>3 DEF Distinct, Elems
<1>8. ASSUME NEW j \in 1..Len(q), q[j] # q[i] PROVE q[j] \in Elems(r)
  <2>1. j < i \/ j > i
    BY <1>1, <1>8
  <2>2. CASE j < i
    <3>0. j \in 1..(Len(q) - 1)
      BY <1>1, <2>2
    <3>1. j \in 1..(Len(q) - 1) /\ r[j] = q[j]
      BY <1>5, <2>2, <3>0
    <3> QED
      BY <1>4, <3>1 DEF Elems
  <2>3. CASE j > i
    <3>1. j - 1 \in 1..(Len(q) - 1) /\ ~(j - 1 < i) /\ (j - 1) + 1 = j
      BY <1>1, <2>3
    <3>2. r[j - 1] = q[j]
      BY <1>5, <3>1
    <3> QED
      BY <1>4, <3>1, <3>2 DEF Elems
  <2> QED
    BY <2>1, <2>2, <2>3
<1>9. Elems(r) = Elems(q) \ {q[i]}
  BY <1>7, <1>8 DEF Elems
<1> QED
  BY <1>4, <1>6, <1>9

(* Scheduler::remove_thread of a thread that is not current. *)
LEMMA RemoveThread ==
  ASSUME NEW s, SchedType(s), Distinct(s.rq), NEW t \in Threads, s.cur # t,
         NEW r, r = remove_thread(s, t)
  PROVE  /\ SchedType(r) /\ r.thr = s.thr /\ r.cur = s.cur /\ r.cpu = s.cpu /\ r.up = s.up
         /\ Distinct(r.rq) /\ Queued(r) = Queued(s) \ {t}
<1>1. CASE t \notin Queued(s)
  <2>1. r = s
    BY <1>1 DEF remove_thread
  <2> QED
    BY <1>1, <2>1
<1>2. CASE t \in Queued(s)
  <2> DEFINE P(j) == s.rq[j] = t /\ \A k \in 1..(j - 1) : s.rq[k] # t
             i == CHOOSE j \in 1..Len(s.rq) : P(j)
             q == SubSeq(s.rq, 1, i - 1) \o SubSeq(s.rq, i + 1, Len(s.rq))
  <2>1. r = [s EXCEPT !.rq = q]
    BY <1>2 DEF remove_thread
  <2>2. i \in 1..Len(s.rq) /\ s.rq[i] = t
    <3>1. PICK j \in 1..Len(s.rq) : s.rq[j] = t
      BY <1>2 DEF Queued, Elems
    <3>2. P(j)
      <4>1. \A k \in 1..(j - 1) : k \in 1..Len(s.rq) /\ k # j
        BY Fields
      <4> QED
        BY <3>1, <4>1 DEF Distinct
    <3> HIDE DEF P
    <3>3. i \in 1..Len(s.rq) /\ P(i)
      BY <3>2
    <3> QED
      BY <3>3 DEF P
  <2> HIDE DEF i
  <2>3. q \in Seq(Threads) /\ Distinct(q) /\ Elems(q) = Elems(s.rq) \ {t}
    <3>1. Without(s.rq, i, q)
      BY <2>2, Fields, CutWithout
    <3> HIDE DEF q
    <3> QED
      BY <2>2, <3>1, Fields, CutOut
  <2> HIDE DEF q
  <2>4. r.rq = q /\ r.thr = s.thr /\ r.cur = s.cur /\ r.cpu = s.cpu /\ r.up = s.up
    BY <2>1 DEF SchedType
  <2>5. SchedType(r)
    BY <2>1, <2>3 DEF SchedType
  <2> QED
    BY <2>3, <2>4, <2>5 DEF Queued
<1> QED
  BY <1>1, <1>2
-----------------------------------------------------------------------------
(* The wake loops *)

(* The scheduler after waking the first k threads of a list. *)
WokenBy(s, r, q, k) ==
  /\ Woken(s, r)
  /\ \A u \in AllThreads : r.thr[u] # s.thr[u] => \E i \in 1..k : q[i] = u
  /\ RoomForAll => \A i \in 1..k : r.thr[q[i]] # "Blocked"

(* One turn of the loop. *)
LEMMA WakeTurn ==
  ASSUME NEW s, s.cur # None, NEW q \in Seq(Threads), NEW k \in 0..(Len(q) - 1),
         NEW r, WokenBy(s, r, q, k)
  PROVE  WokenBy(s, apply_wake(r, q[k + 1]), q, k + 1)
<1> DEFINE t == q[k + 1]
           a == apply_wake(r, t)
<1>1. t \in Threads /\ t \in AllThreads /\ k + 1 \in 1..(k + 1)
  BY DEF AllThreads
<1>2. SchedType(r) /\ Consistent(r) /\ r.cur # None /\ Woken(s, r)
  BY DEF WokenBy, Woken
<1> HIDE DEF t
<1>3. /\ Woken(r, a)
      /\ \A u \in AllThreads : u # t => a.thr[u] = r.thr[u]
      /\ RoomForAll => a.thr[t] # "Blocked"
  BY <1>1, <1>2, WakeAny
<1> HIDE DEF a
<1>4. Woken(s, a)
  BY <1>2, <1>3, WokenTwice
<1>5. ASSUME NEW u \in AllThreads, a.thr[u] # s.thr[u] PROVE \E i \in 1..(k + 1) : q[i] = u
  <2>1. CASE u = t
    BY <1>1, <2>1 DEF t
  <2>2. CASE u # t
    <3>1. r.thr[u] # s.thr[u]
      BY <1>3, <1>5, <2>2
    <3>2. PICK i \in 1..k : q[i] = u
      BY <3>1 DEF WokenBy
    <3> QED
      BY <3>2
  <2> QED
    BY <2>1, <2>2
<1>6. ASSUME RoomForAll, NEW i \in 1..(k + 1) PROVE a.thr[q[i]] # "Blocked"
  <2>1. CASE q[i] = t
    BY <1>3, <1>6, <2>1
  <2>2. CASE q[i] # t
    <3>1. i # k + 1
      BY <2>2 DEF t
    <3>2. i \in 1..k /\ i \in 1..Len(q)
      BY <3>1
    <3>3. r.thr[q[i]] # "Blocked" /\ q[i] \in AllThreads
      BY <1>6, <3>2 DEF WokenBy, AllThreads
    <3> QED
      BY <1>3, <2>2, <3>3
  <2> QED
    BY <2>1, <2>2
<1>7. WokenBy(s, a, q, k + 1)
  BY <1>4, <1>5, <1>6 DEF WokenBy
<1> QED
  BY <1>7 DEF a, t

(* wake_thread for every thread of a list *)
LEMMA WakeAll ==
  ASSUME NEW s, SchedType(s), Consistent(s), s.cur # None, NEW q \in Seq(Threads)
  PROVE  WokenBy(s, wake_all(s, q), q, Len(q))
<1> DEFINE n == Len(q)
           Rec == [thr : [AllThreads -> ThreadState \cup {"Absent"}], rq : Seq(Threads),
                   cur : AllThreads \cup {None}, cpu : AllThreads, up : BOOLEAN]
           D == {r \in Rec : Woken(s, r)}
           step == [k \in 1..n |-> [r \in D |-> apply_wake(r, q[k])]]
           P(w) == w = [i \in 0..n |-> IF i = 0 THEN s ELSE apply_wake(w[i - 1], q[i])]
           woken == CHOOSE w : P(w)
<1>1. n \in Nat /\ \A k \in 1..n : q[k] \in Threads
  OBVIOUS
<1>2. wake_all(s, q) = woken[n]
  BY DEF wake_all
<1>3. \A r : r \in D <=> Woken(s, r)
  BY DEF Woken, SchedType
<1>4. s \in D
  BY <1>3 DEF Woken
<1> HIDE DEF D
<1>5. ASSUME NEW k \in 1..n, NEW r \in D PROVE apply_wake(r, q[k]) \in D
  <2>1. SchedType(r) /\ Consistent(r) /\ r.cur # None /\ Woken(s, r)
    BY <1>3 DEF Woken
  <2>2. Woken(r, apply_wake(r, q[k]))
    BY <1>1, <2>1, WakeAny
  <2> QED
    BY <1>3, <2>1, <2>2, WokenTwice
<1>6. step \in [1..n -> [D -> D]]
  BY <1>5
<1>7. Runs(D, n, step, s)
  <2> HIDE DEF step, n
  <2> QED
    BY ZenonT(30), <1>1, <1>4, <1>6, Loop
<1>8. PICK f \in [0..n -> D] : f[0] = s /\ \A k \in 1..n : f[k] = step[k][f[k - 1]]
  BY <1>7 DEF Runs
<1>9. P(f)
  <2>1. ASSUME NEW i \in 0..n PROVE f[i] = IF i = 0 THEN s ELSE apply_wake(f[i - 1], q[i])
    <3>1. CASE i = 0
      BY <1>8, <3>1
    <3>2. CASE i # 0
      <4>1. i \in 1..n /\ i - 1 \in 0..n
        BY <1>1, <3>2
      <4>2. f[i - 1] \in D
        BY <1>8, <4>1
      <4>3. f[i] = apply_wake(f[i - 1], q[i])
        BY <1>8, <4>1, <4>2
      <4> QED
        BY <3>2, <4>3
    <3> QED
      BY <3>1, <3>2
  <2> QED
    BY <1>8, <2>1
<1>10. woken = [i \in 0..n |-> IF i = 0 THEN s ELSE apply_wake(woken[i - 1], q[i])]
  <2>1. P(woken)
    <3> HIDE DEF P
    <3> QED
      BY <1>9
  <2> QED
    BY <2>1
<1> HIDE DEF woken, step, P
<1> DEFINE S == {k \in 0..n : WokenBy(s, woken[k], q, k)}
<1>11. 0 \in S
  <2>1. 0 \in 0..n /\ woken[0] = s /\ Woken(s, s)
    BY <1>1, <1>3, <1>4, <1>10
  <2> QED
    BY <2>1 DEF WokenBy
<1>12. ASSUME NEW k \in 0..(n - 1), k \in S PROVE k + 1 \in S
  <2>1. k + 1 \in 0..n /\ k + 1 # 0 /\ (k + 1) - 1 = k
    BY <1>1
  <2>2. woken[k + 1] = apply_wake(woken[k], q[k + 1])
    BY <1>10, <2>1
  <2>3. WokenBy(s, woken[k + 1], q, k + 1)
    BY <1>12, <2>2, WakeTurn
  <2> QED
    BY ZenonT(30), <2>1, <2>3
<1>13. n \in S
  <2> HIDE DEF S, n
  <2>1. 0..n \subseteq S
    BY <1>1, <1>11, <1>12, UpTo
  <2> QED
    BY <1>1, <2>1
<1> QED
  BY <1>2, <1>13

(* The threads Endpoint::close asks to wake *)
WokeSet(ep) == {u \in Threads : ep.receiver = u \/ Waiting(ep, u)}

LEMMA ThenElems ==
  ASSUME NEW a \in Seq(Threads), NEW b \in Seq(Threads), NEW r, Then(a, b, r)
  PROVE  r \in Seq(Threads) /\ Elems(r) = Elems(a) \cup Elems(b)
<1>1. Len(a) \in Nat /\ Len(b) \in Nat /\ r \in Seq(Threads) /\ Len(r) = Len(a) + Len(b)
  BY DEF Then
<1>2. ASSUME NEW k \in 1..Len(a) PROVE a[k] \in Elems(r)
  <2>1. k \in 1..Len(r) /\ r[k] = a[k]
    BY <1>1 DEF Then
  <2> QED
    BY <2>1 DEF Elems
<1>3. ASSUME NEW k \in 1..Len(b) PROVE b[k] \in Elems(r)
  <2>1. Len(a) + k \in 1..Len(r) /\ r[Len(a) + k] = b[k]
    BY <1>1 DEF Then
  <2> QED
    BY <2>1 DEF Elems
<1>4. ASSUME NEW k \in 1..Len(r) PROVE r[k] \in Elems(a) \cup Elems(b)
  <2>1. CASE k \in 1..Len(a)
    <3>1. r[k] = a[k]
      BY <2>1 DEF Then
    <3> QED
      BY ZenonT(30), <2>1, <3>1 DEF Elems
  <2>2. CASE k \notin 1..Len(a)
    <3> DEFINE j == k - Len(a)
    <3>1. j \in 1..Len(b) /\ Len(a) + j = k
      BY <1>1, <2>2
    <3> HIDE DEF j
    <3>2. r[k] = b[j]
      BY <3>1 DEF Then
    <3> QED
      BY <3>1, <3>2 DEF Elems
  <2> QED
    BY <2>1, <2>2
<1>5. Elems(r) = Elems(a) \cup Elems(b)
  BY ZenonT(30), <1>2, <1>3, <1>4 DEF Elems
<1> QED
  BY <1>1, <1>5

(* The entries of a queue of callers name threads. *)
LEMMA CallerThreads ==
  ASSUME NEW ep \in EndpointType
  PROVE  Len(ep.callers) \in Nat /\ \A i \in 1..Len(ep.callers) : ep.callers[i].caller \in Threads
<1> DEFINE R == [caller : Threads, message : Message]
<1>1. ep.callers \in Seq(R)
  BY DEF EndpointType
<1>2. \A x \in R : x.caller \in Threads
  OBVIOUS
<1> HIDE DEF R
<1> QED
  BY <1>1, <1>2

LEMMA WokeThreads ==
  ASSUME NEW ep \in EndpointType
  PROVE  woke_threads(ep) \in Seq(Threads) /\ Elems(woke_threads(ep)) = WokeSet(ep)
<1> DEFINE a == IF ep.receiver = None THEN <<>> ELSE <<ep.receiver>>
           b == IF ep.caller = None THEN <<>> ELSE <<ep.caller>>
           c == [i \in 1..Len(ep.callers) |-> ep.callers[i].caller]
<1>1. /\ ep.receiver \in Threads \cup {None} /\ ep.caller \in Threads \cup {None}
      /\ ep.callers \in Seq([caller : Threads, message : Message])
  BY DEF EndpointType
<1>2. a \in Seq(Threads) /\ Elems(a) = {ep.receiver} \ {None}
  BY <1>1 DEF Elems
<1>3. b \in Seq(Threads) /\ Elems(b) = {ep.caller} \ {None}
  BY <1>1 DEF Elems
<1>4. c \in Seq(Threads) /\ Elems(c) = {ep.callers[i].caller : i \in 1..Len(ep.callers)}
  <2>1. Len(ep.callers) \in Nat /\ \A i \in 1..Len(ep.callers) : ep.callers[i].caller \in Threads
    BY CallerThreads
  <2>2. c \in Seq(Threads) /\ Len(c) = Len(ep.callers)
    BY <2>1
  <2> QED
    BY <2>2 DEF Elems
<1>5. woke_threads(ep) = (a \o b) \o c
  BY DEF woke_threads
<1> HIDE DEF a, b, c
<1> DEFINE ab == a \o b
<1>6. ab \in Seq(Threads) /\ Elems(ab) = Elems(a) \cup Elems(b)
  BY ZenonT(30), <1>2, <1>3, Joined, ThenElems
<1> HIDE DEF ab
<1>7. ab \o c \in Seq(Threads) /\ Elems(ab \o c) = Elems(ab) \cup Elems(c)
  BY ZenonT(30), <1>4, <1>6, Joined, ThenElems
<1>8. WokeSet(ep) = (({ep.receiver} \ {None}) \cup ({ep.caller} \ {None}))
                       \cup {ep.callers[i].caller : i \in 1..Len(ep.callers)}
  <2>1. \A i \in 1..Len(ep.callers) : ep.callers[i].caller \in Threads
    BY CallerThreads
  <2> QED
    BY <1>1, <2>1, IdentitiesDistinct DEF WokeSet, Waiting
<1> QED
  BY ZenonT(30), <1>2, <1>3, <1>4, <1>5, <1>6, <1>7, <1>8 DEF ab

(* The scheduler after closing the first k endpoints of a list. *)
ClosedBy(s, r, ends, k) ==
  /\ Woken(s, r)
  /\ \A u \in AllThreads : r.thr[u] # s.thr[u] => \E i \in 1..k : u \in WokeSet(eps[ends[i]])
  /\ RoomForAll => \A i \in 1..k : \A u \in WokeSet(eps[ends[i]]) : r.thr[u] # "Blocked"

(* Closing one endpoint *)
LEMMA CloseWakes ==
  ASSUME NEW s, SchedType(s), Consistent(s), s.cur # None, NEW ep \in EndpointType,
         NEW a, a = wake_all(s, woke_threads(ep))
  PROVE  /\ Woken(s, a)
         /\ \A u \in AllThreads : a.thr[u] # s.thr[u] => u \in WokeSet(ep)
         /\ RoomForAll => \A u \in WokeSet(ep) : a.thr[u] # "Blocked"
<1> DEFINE q == woke_threads(ep)
<1>1. q \in Seq(Threads) /\ Elems(q) = WokeSet(ep)
  BY WokeThreads
<1>2. a = wake_all(s, q)
  OBVIOUS
<1> HIDE DEF q
<1>3. WokenBy(s, a, q, Len(q))
  BY <1>1, <1>2, WakeAll
<1> QED
  BY ZenonT(30), <1>1, <1>3 DEF WokenBy, Elems

LEMMA CloseTurn ==
  ASSUME NEW s, s.cur # None, eps \in [Endpoints -> EndpointType],
         NEW n \in Nat, NEW ends \in [1..n -> Endpoints], NEW k \in 0..(n - 1),
         NEW r, ClosedBy(s, r, ends, k)
  PROVE  ClosedBy(s, wake_all(r, woke_threads(eps[ends[k + 1]])), ends, k + 1)
<1> DEFINE ep == eps[ends[k + 1]]
           a == wake_all(r, woke_threads(ep))
<1>1. ep \in EndpointType /\ k + 1 \in 1..(k + 1)
  OBVIOUS
<1>2. SchedType(r) /\ Consistent(r) /\ r.cur # None /\ Woken(s, r)
  BY DEF ClosedBy, Woken
<1> HIDE DEF ep
<1>3. /\ Woken(r, a)
      /\ \A u \in AllThreads : a.thr[u] # r.thr[u] => u \in WokeSet(ep)
      /\ RoomForAll => \A u \in WokeSet(ep) : a.thr[u] # "Blocked"
  BY <1>1, <1>2, CloseWakes
<1> HIDE DEF a
<1>4. Woken(s, a)
  BY <1>2, <1>3, WokenTwice
<1>5. ASSUME NEW u \in AllThreads, a.thr[u] # s.thr[u] PROVE \E i \in 1..(k + 1) : u \in WokeSet(eps[ends[i]])
  <2>1. CASE u \in WokeSet(ep)
    BY <1>1, <2>1 DEF ep
  <2>2. CASE u \notin WokeSet(ep)
    <3>1. r.thr[u] # s.thr[u]
      BY ZenonT(30), <1>3, <1>5, <2>2
    <3>2. PICK i \in 1..k : u \in WokeSet(eps[ends[i]])
      BY <3>1 DEF ClosedBy
    <3>3. i \in 1..(k + 1)
      OBVIOUS
    <3> QED
      BY <3>2, <3>3
  <2> QED
    BY <2>1, <2>2
<1>6. ASSUME RoomForAll, NEW i \in 1..(k + 1), NEW u \in WokeSet(eps[ends[i]]) PROVE a.thr[u] # "Blocked"
  <2>1. CASE i = k + 1
    BY <1>3, <1>6, <2>1 DEF ep
  <2>2. CASE i # k + 1
    <3>1. i \in 1..k
      BY <2>2
    <3>2. r.thr[u] # "Blocked" /\ u \in AllThreads
      BY <1>6, <3>1 DEF ClosedBy, WokeSet, AllThreads
    <3>3. a.thr[u] = r.thr[u] \/ a.thr[u] = "Runnable"
      BY <1>3, <3>2 DEF Woken
    <3> QED
      BY <3>2, <3>3
  <2> QED
    BY <2>1, <2>2
<1>7. ClosedBy(s, a, ends, k + 1)
  BY ZenonT(30), <1>4, <1>5, <1>6 DEF ClosedBy
<1> QED
  BY ZenonT(30), <1>7 DEF a, ep

(* Every handle of a process deleted *)
LEMMA CloseAll ==
  ASSUME NEW s, SchedType(s), Consistent(s), s.cur # None, eps \in [Endpoints -> EndpointType],
         NEW n \in Nat, NEW ends \in [1..n -> Endpoints]
  PROVE  ClosedBy(s, close_all(s, ends), ends, n)
<1> DEFINE Rec == [thr : [AllThreads -> ThreadState \cup {"Absent"}], rq : Seq(Threads),
                   cur : AllThreads \cup {None}, cpu : AllThreads, up : BOOLEAN]
           D == {r \in Rec : Woken(s, r)}
           turn(r, k) == wake_all(r, woke_threads(eps[ends[k]]))
           step == [k \in 1..n |-> [r \in D |-> turn(r, k)]]
           P(w) == w = [k \in 0..n |-> IF k = 0 THEN s ELSE turn(w[k - 1], k)]
           after == CHOOSE w : P(w)
<1>1. Len(ends) = n
  OBVIOUS
<1>2. close_all(s, ends) = after[n]
  BY <1>1 DEF close_all
<1>3. \A r : r \in D <=> Woken(s, r)
  BY DEF Woken, SchedType
<1>4. s \in D
  BY <1>3 DEF Woken
<1> HIDE DEF D
<1>5. ASSUME NEW k \in 1..n, NEW r \in D PROVE turn(r, k) \in D
  <2>1. SchedType(r) /\ Consistent(r) /\ r.cur # None /\ Woken(s, r)
    BY <1>3 DEF Woken
  <2>2. eps[ends[k]] \in EndpointType
    OBVIOUS
  <2>3. Woken(r, turn(r, k))
    BY <2>1, <2>2, CloseWakes
  <2> HIDE DEF turn
  <2> QED
    BY ZenonT(30), <1>3, <2>1, <2>3, WokenTwice
<1> HIDE DEF turn
<1>6. step \in [1..n -> [D -> D]]
  BY <1>5
<1>7. Runs(D, n, step, s)
  <2> HIDE DEF step
  <2> QED
    BY <1>4, <1>6, Loop
<1>8. PICK f \in [0..n -> D] : f[0] = s /\ \A k \in 1..n : f[k] = step[k][f[k - 1]]
  BY <1>7 DEF Runs
<1>9. P(f)
  <2>1. ASSUME NEW k \in 0..n PROVE f[k] = IF k = 0 THEN s ELSE turn(f[k - 1], k)
    <3>1. CASE k = 0
      BY ZenonT(30), <1>8, <3>1
    <3>2. CASE k # 0
      <4>1. k \in 1..n /\ k - 1 \in 0..n
        BY <3>2
      <4>2. f[k - 1] \in D
        BY <1>8, <4>1
      <4>3. f[k] = turn(f[k - 1], k)
        BY <1>8, <4>1, <4>2
      <4> QED
        BY <3>2, <4>3
    <3> QED
      BY <3>1, <3>2
  <2> QED
    BY <1>8, <2>1
<1>10. after = [k \in 0..n |-> IF k = 0 THEN s ELSE turn(after[k - 1], k)]
  <2>1. P(after)
    <3> HIDE DEF P
    <3> QED
      BY <1>9
  <2> QED
    BY <2>1
<1> HIDE DEF after, step, P
<1> DEFINE S == {k \in 0..n : ClosedBy(s, after[k], ends, k)}
<1>11. 0 \in S
  <2>1. 0 \in 0..n /\ after[0] = s /\ Woken(s, s)
    BY <1>3, <1>4, <1>10
  <2> QED
    BY <2>1 DEF ClosedBy
<1>12. ASSUME NEW k \in 0..(n - 1), k \in S PROVE k + 1 \in S
  <2>1. k + 1 \in 0..n /\ k + 1 # 0 /\ (k + 1) - 1 = k
    OBVIOUS
  <2>2. after[k + 1] = turn(after[k], k + 1)
    BY <1>10, <2>1
  <2>3. ClosedBy(s, after[k + 1], ends, k + 1)
    BY ZenonT(30), <1>12, <2>2, CloseTurn DEF turn
  <2> QED
    BY <2>1, <2>3
<1>13. n \in S
  <2> HIDE DEF S
  <2>1. 0..n \subseteq S
    BY <1>11, <1>12, UpTo
  <2> QED
    BY <2>1
<1> QED
  BY ZenonT(30), <1>2, <1>13
-----------------------------------------------------------------------------
(* What the actions have in common *)

(* A thread on its way out stays there. *)
Keeps(s, r) == \A u \in Threads : s.thr[u] \in Terminal => r.thr[u] \in Terminal

(* Every registration survives, except that of w for op0 on o0. *)
Survive(s, p, r, p2, w, op0, o0) ==
  \A u, op, o : LReg(s, p, u, op, o) /\ (u # w \/ op # op0 \/ o # o0) => LReg(r, p2, u, op, o)

(* The registrations survive a step that wakes at most w. *)
LEMMA RegKept ==
  ASSUME NEW s, NEW p, NEW r, NEW p2, NEW w, NEW op0, NEW o0,
         w = None \/ LReg(s, p, w, op0, o0), Keeps(s, r),
         \A u \in Threads : u # w /\ s.thr[u] = "Blocked" =>
           r.thr[u] \in Terminal \cup {"Blocked"} /\ p2[u] = p[u]
  PROVE  Survive(s, p, r, p2, w, op0, o0)
<1> SUFFICES ASSUME NEW u, NEW op, NEW o, LReg(s, p, u, op, o), u # w \/ op # op0 \/ o # o0
             PROVE  LReg(r, p2, u, op, o)
  BY DEF Survive
<1>1. CASE s.thr[u] \in Terminal
  BY <1>1 DEF LReg, Keeps
<1>2. CASE s.thr[u] \notin Terminal
  <2>1. u \in Threads /\ s.thr[u] = "Blocked" /\ p[u].op = op /\ p[u].obj = o
    BY <1>2 DEF LReg
  <2>2. u # w
    <3>1. u # None
      BY <2>1, IdentitiesDistinct
    <3> QED
      BY ZenonT(30), <1>2, <2>1, <3>1 DEF LReg
  <2> QED
    BY <2>1, <2>2 DEF LReg
<1> QED
  BY <1>1, <1>2

(* A Blocked thread u stays registered where it waits. *)
StillWaits(s, p, E, p2, E2, u) ==
  /\ s.thr[u] = "Blocked" /\ p2[u] = p[u]
  /\ \A e \in Endpoints :
       /\ p[u].obj = e /\ p[u].op = "Call" /\ Waiting(E[e], u) => Waiting(E2[e], u)
       /\ p[u].obj = e /\ p[u].op = "Receive" /\ E[e].receiver = u => E2[e].receiver = u

(* Threads other than t stay registered where they wait. *)
LEMMA AwaitedKept ==
  ASSUME NEW s, NEW p, NEW E, NEW r, NEW p2, NEW E2, NEW t, Awaited(s, p, E), PcObjects(p),
         \A u \in Threads : u # t /\ r.thr[u] = "Blocked" => StillWaits(s, p, E, p2, E2, u),
         t \in Threads /\ r.thr[t] = "Blocked" =>
           /\ p2[t].op = "Call" => Waiting(E2[p2[t].obj], t)
           /\ p2[t].op = "Receive" => E2[p2[t].obj].receiver = t
  PROVE  Awaited(r, p2, E2)
<1> SUFFICES ASSUME NEW u \in Threads, r.thr[u] = "Blocked"
             PROVE  /\ p2[u].op = "Call" => Waiting(E2[p2[u].obj], u)
                    /\ p2[u].op = "Receive" => E2[p2[u].obj].receiver = u
  BY DEF Awaited
<1>1. CASE u = t
  BY <1>1
<1>2. CASE u # t
  <2>1. /\ s.thr[u] = "Blocked" /\ p2[u] = p[u]
        /\ \A e \in Endpoints : /\ p[u].obj = e /\ p[u].op = "Call" /\ Waiting(E[e], u) => Waiting(E2[e], u)
                                /\ p[u].obj = e /\ p[u].op = "Receive" /\ E[e].receiver = u => E2[e].receiver = u
    BY <1>2 DEF StillWaits
  <2>2. p[u].op \in {"Call", "Receive"} => p[u].obj \in Endpoints
    BY DEF PcObjects
  <2>3. /\ p[u].op = "Call" => Waiting(E[p[u].obj], u)
        /\ p[u].op = "Receive" => E[p[u].obj].receiver = u
    BY <2>1 DEF Awaited
  <2> QED
    BY ZenonT(30), <2>1, <2>2, <2>3
<1> QED
  BY <1>1, <1>2

(* A step that only changes the scheduler and the processes *)
LEMMA SchedStep ==
  ASSUME LInv, sched.up, UNCHANGED <<eps, notifs, pc, ncalls>>,
         SchedType(sched'), Consistent(sched'), InitRuns(sched'), sched'.cur \in Threads, Ended(sched', proc'),
         proc' \in [Threads -> {"Prepared", "Runnable", "Running", "Zombie", "Reaped"}],
         Keeps(sched, sched'),
         \A u \in Threads : sched.thr[u] = "Blocked" => sched'.thr[u] \in Terminal \cup {"Blocked"},
         \A u \in Threads : sched'.thr[u] = "Blocked" => sched.thr[u] = "Blocked"
  PROVE  LInv'
<1>1. \A u, op, o : LReg(sched, pc, u, op, o) => LReg(sched', pc', u, op, o)
  BY DEF LReg, Keeps
<1>2. LRegs(sched', pc', eps', notifs')
  BY ZenonT(30), <1>1 DEF LInv, LRegs, EpReg
<1>3. RoomForAll => Awaited(sched', pc', eps')
  BY DEF LInv, Awaited
<1>4. LTypes'
  BY DEF LInv, LTypes
<1> QED
  BY ZenonT(30), <1>2, <1>3, <1>4 DEF LInv

(* The current thread is on the CPU and Running. *)
LEMMA CurrentRuns ==
  ASSUME LInv, sched.up
  PROVE  /\ SchedType(sched) /\ Consistent(sched) /\ InitRuns(sched)
         /\ sched.cur \in Threads /\ sched.cpu = sched.cur /\ sched.thr[sched.cur] = "Running"
         /\ sched.cur # None
         /\ \A u \in Threads : sched.thr[u] = "Running" => u = sched.cur
  BY ZenonT(30), IdentitiesDistinct DEF LInv, LTypes, Consistent

(* When another thread runs, the supervisor is queued. *)
LEMMA BootQueued ==
  ASSUME NEW s, SchedType(s), \A u \in Threads : u \in Queued(s) <=> s.thr[u] = "Runnable",
         InitRuns(s), s.thr[Boot] # "Running"
  PROVE  s.rq # <<>> /\ Boot \in Queued(s)
<1>1. Boot \in Queued(s)
  BY CoreAssumption DEF InitRuns
<1> QED
  BY <1>1 DEF Queued, Elems

(* ProcessControlOp::Start *)
LEMMA LStart ==
  ASSUME LInv, NEW t \in Threads, NEW u \in Threads, StartProcess(t, u)
  PROVE  LInv' /\ Keeps(sched, sched')
<1>1. /\ sched.up /\ sched.cur = t /\ sched.thr[u] = "New" /\ enqueue_ok(sched, u)
      /\ sched' = enqueue(sched, u) /\ UNCHANGED <<eps, notifs, pc, ncalls>>
      /\ proc[u] = "Prepared" /\ proc' = [proc EXCEPT ![u] = "Runnable"]
  BY DEF StartProcess, Start, Syscall
<1>2. SchedType(sched) /\ Consistent(sched) /\ InitRuns(sched)
  BY DEF LInv, LTypes
<1>3. /\ SchedType(sched') /\ Consistent(sched')
      /\ sched'.thr = [sched.thr EXCEPT ![u] = "Runnable"] /\ sched'.cur = sched.cur
  BY ZenonT(30), <1>1, <1>2, EnqueueNew
<1>4. \A v \in AllThreads : sched'.thr[v] = IF v = u THEN "Runnable" ELSE sched.thr[v]
  BY ZenonT(30), <1>2, <1>3, Fields
<1>5. /\ proc' \in [Threads -> {"Prepared", "Runnable", "Running", "Zombie", "Reaped"}]
      /\ \A v \in Threads : proc'[v] = IF v = u THEN "Runnable" ELSE proc[v]
  BY <1>1 DEF LInv, LTypes
<1>6. InitRuns(sched') /\ sched'.cur \in Threads
  BY ZenonT(30), <1>1, <1>2, <1>3, <1>4, CoreAssumption DEF InitRuns, AllThreads
<1>7. Ended(sched', proc')
  BY <1>4, <1>5 DEF LInv, Ended, AllThreads
<1>8. Keeps(sched, sched')
  BY <1>1, <1>4 DEF Keeps, Terminal, AllThreads
<1>9. \A v \in Threads : sched.thr[v] = "Blocked" <=> sched'.thr[v] = "Blocked"
  BY <1>1, <1>4 DEF AllThreads
<1> QED
  BY <1>1, <1>3, <1>5, <1>6, <1>7, <1>8, <1>9, SchedStep

(* Under a polling supervisor only the boot thread controls processes. *)
LEMMA OnlyBoot ==
  ASSUME InitPolls, NEW t \in Threads, NEW u \in Threads, Supervisor[u] = t
  PROVE  t = Boot /\ u # Boot
  BY LifecycleAssumption, IdentitiesDistinct DEF InitPolls

(* ProcessControlOp::Terminate: the child is never the current thread. *)
LEMMA LTerminate ==
  ASSUME InitPolls, LInv, NEW t \in Threads, NEW u \in Threads, Terminate(t, u)
  PROVE  LInv' /\ Keeps(sched, sched')
<1> DEFINE s1 == [sched EXCEPT !.thr[u] = make_dying(@)]
<1>1. /\ sched.up /\ sched.cur = t /\ Supervisor[u] = t
      /\ sched' = remove_thread(s1, u) /\ UNCHANGED <<eps, notifs, pc, ncalls>>
      /\ proc' = [proc EXCEPT ![u] = "Zombie"]
  BY DEF Terminate, Syscall
<1>2. t = Boot /\ u # Boot
  BY <1>1, OnlyBoot
<1>3. /\ SchedType(sched) /\ Consistent(sched) /\ InitRuns(sched)
      /\ sched.cpu = Boot /\ sched.thr[Boot] = "Running" /\ \A v \in Threads : sched.thr[v] = "Running" => v = Boot
  BY ZenonT(30), <1>1, <1>2, CurrentRuns
<1>4. s1 = [sched EXCEPT !.thr = [sched.thr EXCEPT ![u] = make_dying(sched.thr[u])]]
  BY <1>3, Fields DEF AllThreads, SchedType
<1> DEFINE f == [sched.thr EXCEPT ![u] = make_dying(sched.thr[u])]
<1>5. f \in [AllThreads -> ThreadState \cup {"Absent"}]
      /\ \A v \in AllThreads : f[v] = IF v = u THEN make_dying(sched.thr[u]) ELSE sched.thr[v]
  BY ZenonT(30), <1>3, Fields DEF AllThreads, ThreadState, make_dying
<1> HIDE DEF f
<1>6. SchedType(s1) /\ s1.thr = f /\ s1.rq = sched.rq /\ s1.cur = sched.cur /\ s1.cpu = sched.cpu /\ s1.up = sched.up
  <2>1. s1 = [sched EXCEPT !.thr = f]
    BY <1>4 DEF f
  <2> HIDE DEF s1
  <2> QED
    BY <1>3, <1>5, <2>1 DEF SchedType
<1> HIDE DEF s1
<1>7. /\ SchedType(sched') /\ sched'.thr = f /\ sched'.cur = Boot /\ sched'.cpu = Boot
      /\ Distinct(sched'.rq) /\ Queued(sched') = Queued(sched) \ {u}
  <2>1. Distinct(s1.rq) /\ s1.cur # u /\ Queued(s1) = Queued(sched)
    BY <1>1, <1>2, <1>3, <1>6 DEF Consistent, Queued
  <2> QED
    BY <1>1, <1>2, <1>3, <1>6, <2>1, RemoveThread
<1>8. make_dying(sched.thr[u]) \in {"New", "Dying", "Dead", "Absent"}
  BY ZenonT(30), <1>2, <1>3, Fields DEF make_dying, ThreadState, AllThreads
<1>9. \A v \in Threads : sched'.thr[v] = IF v = u THEN make_dying(sched.thr[u]) ELSE sched.thr[v]
  BY ZenonT(30), <1>5, <1>7 DEF AllThreads
<1>10. Consistent(sched')
  <2>1. \A v \in Threads : v \in Queued(sched') <=> sched'.thr[v] = "Runnable"
    BY ZenonT(30), <1>3, <1>7, <1>8, <1>9 DEF Consistent
  <2>2. \A v \in Threads : sched'.thr[v] = "Running" => v = Boot
    BY <1>3, <1>8, <1>9
  <2>3. sched'.thr[Boot] = "Running"
    BY <1>2, <1>3, <1>9, CoreAssumption
  <2> QED
    BY ZenonT(30), <1>7, <2>1, <2>2, <2>3, CoreAssumption, IdentitiesDistinct DEF Consistent
<1>11. /\ proc' \in [Threads -> {"Prepared", "Runnable", "Running", "Zombie", "Reaped"}]
       /\ \A v \in Threads : proc'[v] = IF v = u THEN "Zombie" ELSE proc[v]
  BY <1>1 DEF LInv, LTypes
<1>12. Ended(sched', proc')
  BY <1>8, <1>9, <1>11 DEF LInv, Ended, Terminal
<1>13. Keeps(sched, sched') /\ InitRuns(sched') /\ sched'.cur \in Threads
  BY ZenonT(30), <1>2, <1>3, <1>7, <1>9, CoreAssumption DEF Keeps, InitRuns, Terminal, make_dying
<1>14. \A v \in Threads : sched.thr[v] = "Blocked" => sched'.thr[v] \in Terminal \cup {"Blocked"}
  BY <1>9 DEF Terminal, make_dying
<1>15. \A v \in Threads : sched'.thr[v] = "Blocked" => sched.thr[v] = "Blocked"
  BY <1>8, <1>9
<1> QED
  BY ZenonT(30), <1>1, <1>7, <1>10, <1>11, <1>12, <1>13, <1>14, <1>15, SchedStep

(* The running child ends and hands the CPU to the head of the queue, on   *)
(* which at least the supervisor is.                                       *)
LEMMA EndCurrent ==
  ASSUME LInv, sched.up, NEW t \in Threads, sched.cur = t, t # Boot,
         NEW s1, SchedType(s1), s1.rq = sched.rq, NEW d \in {"Dying", "Dead"},
         s1.thr = [sched.thr EXCEPT ![t] = d]
  PROVE  /\ s1.rq # <<>>
         /\ sched' = dispatch(s1, t) /\ UNCHANGED <<eps, notifs, pc, ncalls>>
              /\ proc' \in [Threads -> {"Prepared", "Runnable", "Running", "Zombie", "Reaped"}]
              /\ (\A v \in Threads : v # t => proc'[v] = proc[v])
            => LInv' /\ Keeps(sched, sched')
<1>1. /\ SchedType(sched) /\ Consistent(sched) /\ InitRuns(sched)
      /\ sched.cpu = t /\ sched.thr[t] = "Running" /\ \A v \in Threads : sched.thr[v] = "Running" => v = t
  BY CurrentRuns
<1>2. \A v \in AllThreads : s1.thr[v] = IF v = t THEN d ELSE sched.thr[v]
  BY ZenonT(30), <1>1, Fields DEF AllThreads
<1>3. /\ Distinct(s1.rq) /\ Queued(s1) = Queued(sched)
      /\ \A v \in Threads : v \in Queued(s1) <=> s1.thr[v] = "Runnable"
      /\ \A v \in Threads : s1.thr[v] # "Running"
  BY <1>1, <1>2 DEF Consistent, Queued, AllThreads
<1>4. InitRuns(s1) /\ s1.thr[Boot] # "Running"
  BY ZenonT(30), <1>1, <1>2, <1>3, CoreAssumption DEF InitRuns, AllThreads
<1>5. s1.rq # <<>>
  BY <1>3, <1>4, BootQueued
<1>6. ASSUME sched' = dispatch(s1, t), UNCHANGED <<eps, notifs, pc, ncalls>>,
             proc' \in [Threads -> {"Prepared", "Runnable", "Running", "Zombie", "Reaped"}],
             \A v \in Threads : v # t => proc'[v] = proc[v]
      PROVE  LInv' /\ Keeps(sched, sched')
  <2> DEFINE h == Head(s1.rq)
  <2>1. s1.thr[t] \notin {"Runnable", "Absent"}
    BY <1>2 DEF AllThreads
  <2>2. /\ SchedType(sched') /\ Consistent(sched') /\ sched'.thr = [s1.thr EXCEPT ![h] = "Running"]
        /\ h \in Threads /\ s1.thr[h] = "Runnable"
    BY ZenonT(40), <1>3, <1>5, <1>6, <2>1, HandOver
  <2> HIDE DEF h
  <2>3. h # t /\ sched.thr[h] = "Runnable"
    BY <1>2, <2>2 DEF AllThreads
  <2>4. \A v \in Threads : sched'.thr[v] = IF v = h THEN "Running" ELSE IF v = t THEN d ELSE sched.thr[v]
    BY <1>2, <2>2, Fields DEF AllThreads
  <2>5. Keeps(sched, sched') /\ InitRuns(sched')
    BY <1>1, <2>2, <2>3, <2>4, CoreAssumption DEF Keeps, InitRuns, Terminal
  <2>6. sched'.cur \in Threads
    BY ZenonT(30), <2>2, <2>4 DEF Consistent
  <2>7. Ended(sched', proc')
    BY <1>6, <2>3, <2>4 DEF LInv, Ended, Terminal
  <2>8. \A v \in Threads : sched.thr[v] = "Blocked" <=> sched'.thr[v] = "Blocked"
    BY <1>1, <2>3, <2>4
  <2> QED
    BY ZenonT(30), <1>6, <2>2, <2>5, <2>6, <2>7, <2>8, SchedStep
<1> QED
  BY <1>5, <1>6

(* exit_current_process *)
LEMMA LExit ==
  ASSUME InitPolls, LInv, NEW t \in Threads, ExitProcess(t)
  PROVE  LInv' /\ Keeps(sched, sched')
<1>1. /\ sched.up /\ sched.cur = t /\ t # Boot /\ UNCHANGED <<eps, notifs, pc, ncalls>>
  BY DEF ExitProcess, Syscall, InitPolls
<1>2. /\ SchedType(sched) /\ Consistent(sched) /\ InitRuns(sched)
      /\ sched.cpu = t /\ sched.thr[t] = "Running"
  BY <1>1, CurrentRuns
<1>3. CASE ~exit_ok(proc[t])
  <2>1. proc[t] \in {"Zombie", "Reaped"}
    BY <1>3 DEF exit_ok, LInv, LTypes
  <2>2. sched.thr[t] \in Terminal \cup {"New"}
    BY <2>1 DEF LInv, Ended
  <2> QED
    BY <1>2, <2>2 DEF Terminal
<1>4. CASE exit_ok(proc[t])
  <2> DEFINE d0 == [sched EXCEPT !.thr[t] = make_dying(@)]
             s1 == remove_thread(d0, t)
  <2>1. d0 = [sched EXCEPT !.thr = [sched.thr EXCEPT ![t] = "Dying"]]
    BY <1>2, Fields DEF AllThreads, SchedType, make_dying
  <2>2. d0.cur = t
    BY <1>1, <1>2, <2>1 DEF SchedType
  <2>3. s1 = [sched EXCEPT !.thr = [sched.thr EXCEPT ![t] = "Dying"], !.cur = None]
    <3> HIDE DEF d0
    <3> QED
      BY <1>2, <2>1, <2>2 DEF remove_thread, SchedType
  <2>4. [sched.thr EXCEPT ![t] = "Dying"] \in [AllThreads -> ThreadState \cup {"Absent"}]
    BY <1>2, Fields DEF AllThreads, ThreadState
  <2> HIDE DEF d0
  <2>5. SchedType(s1) /\ s1.rq = sched.rq /\ s1.thr = [sched.thr EXCEPT ![t] = "Dying"]
    <3> HIDE DEF s1
    <3> QED
      BY <1>2, <2>3, <2>4 DEF SchedType
  <2>6. s1.rq # <<>>
    <3> HIDE DEF s1
    <3> QED
      BY <1>1, <2>5, EndCurrent
  <2>7. proc' = [proc EXCEPT ![t] = "Zombie"] /\ sched' = dispatch(s1, t)
    BY <1>4, <2>6 DEF ExitProcess, d0
  <2>8. /\ proc' \in [Threads -> {"Prepared", "Runnable", "Running", "Zombie", "Reaped"}]
        /\ \A v \in Threads : v # t => proc'[v] = proc[v]
    BY <2>7 DEF LInv, LTypes
  <2> HIDE DEF s1
  <2> QED
    BY ZenonT(30), <1>1, <2>5, <2>7, <2>8, EndCurrent
<1> QED
  BY <1>3, <1>4

(* page_fault_handler for a user-mode fault *)
LEMMA LFault ==
  ASSUME InitPolls, LInv, NEW t \in Threads, PageFault(t)
  PROVE  LInv' /\ Keeps(sched, sched')
<1>1. sched.up /\ sched.cpu = t /\ t # Boot /\ UNCHANGED <<eps, notifs, pc, ncalls, proc>>
  BY DEF PageFault, InitPolls
<1>2. /\ SchedType(sched) /\ sched.cur = t /\ sched.cur # None /\ sched.thr[t] = "Running"
  BY <1>1, CurrentRuns
<1> DEFINE s1 == [sched EXCEPT !.thr[t] = make_dead(make_dying(@))]
<1>3. s1 = [sched EXCEPT !.thr = [sched.thr EXCEPT ![t] = "Dead"]]
  BY <1>2, Fields DEF AllThreads, SchedType, make_dying, make_dead
<1>4. [sched.thr EXCEPT ![t] = "Dead"] \in [AllThreads -> ThreadState \cup {"Absent"}]
  BY <1>2, Fields DEF AllThreads, ThreadState
<1>5. SchedType(s1) /\ s1.rq = sched.rq /\ s1.thr = [sched.thr EXCEPT ![t] = "Dead"]
  <2> HIDE DEF s1
  <2> QED
    BY <1>2, <1>3, <1>4 DEF SchedType
<1>6. s1.rq # <<>>
  <2> HIDE DEF s1
  <2> QED
    BY <1>1, <1>2, <1>5, EndCurrent
<1>7. sched' = dispatch(s1, t)
  BY <1>2, <1>5, <1>6 DEF PageFault
<1>8. /\ proc' \in [Threads -> {"Prepared", "Runnable", "Running", "Zombie", "Reaped"}]
      /\ \A v \in Threads : v # t => proc'[v] = proc[v]
  BY <1>1 DEF LInv, LTypes
<1> HIDE DEF s1
<1> QED
  BY <1>1, <1>2, <1>5, <1>7, <1>8, EndCurrent
-----------------------------------------------------------------------------
(* Closing endpoints *)

ClosedEps(C) == [e \in Endpoints |-> IF e \in C THEN close(eps[e]) ELSE eps[e]]

AfterClose(E2, r) ==
  /\ E2 \in [Endpoints -> EndpointType]
  /\ \A e \in Endpoints : Shape(E2[e]) /\ Once(E2[e])
  /\ LRegs(r, pc, E2, notifs) /\ (RoomForAll => Awaited(r, pc, E2))
  /\ r.cur \in Threads /\ InitRuns(r)
  /\ \A u \in Threads : sched.thr[u] \in Terminal \cup {"New"} => r.thr[u] = sched.thr[u]

(* The endpoints of C are closed and their threads woken. *)
LEMMA ClosedStep ==
  ASSUME LInv, sched.up, NEW C \in SUBSET Endpoints, NEW r, Woken(sched, r),
         \A u \in AllThreads : r.thr[u] # sched.thr[u] => \E e \in C : u \in WokeSet(eps[e]),
         RoomForAll => \A e \in C : \A u \in WokeSet(eps[e]) : r.thr[u] # "Blocked"
  PROVE  AfterClose(ClosedEps(C), r)
<1> DEFINE E2 == ClosedEps(C)
<1>1. /\ eps \in [Endpoints -> EndpointType] /\ LRegs(sched, pc, eps, notifs) /\ PcObjects(pc)
      /\ sched.cur \in Threads
  BY DEF LInv, LTypes
<1>2. ASSUME NEW e \in Endpoints
      PROVE  /\ close(eps[e]) \in EndpointType /\ close(eps[e]).receiver = None /\ close(eps[e]).caller = None
             /\ close(eps[e]).callers = <<>> /\ close(eps[e]).state = "Idle"
  <2>1. eps[e] \in EndpointType /\ eps[e].seq \in Nat
    BY <1>1 DEF EndpointType
  <2> DEFINE new == endpoint_new
  <2>2. /\ new \in EndpointType /\ new.receiver = None /\ new.caller = None
        /\ new.callers = <<>> /\ new.state = "Idle"
    BY DEF EndpointType, EndpointState, endpoint_new
  <2>3. close(eps[e]) = [new EXCEPT !.seq = eps[e].seq, !.closed = TRUE]
    BY DEF close
  <2> HIDE DEF new
  <2> QED
    BY ZenonT(30), <2>1, <2>2, <2>3 DEF EndpointType, EndpointState
<1>3. E2 \in [Endpoints -> EndpointType]
  BY <1>1, <1>2 DEF ClosedEps
<1>4. \A e \in Endpoints : E2[e] = IF e \in C THEN close(eps[e]) ELSE eps[e]
  BY DEF ClosedEps
<1> HIDE DEF E2
<1>5. \A e \in Endpoints : Shape(E2[e]) /\ Once(E2[e])
  <2> TAKE e \in Endpoints
  <2>1. CASE e \in C
    BY <1>2, <1>4, <2>1 DEF Shape, Once
  <2>2. CASE e \notin C
    BY <1>4, <2>2 DEF LInv
  <2> QED
    BY <2>1, <2>2
<1>6. \A u \in Threads : r.thr[u] = sched.thr[u] \/ (sched.thr[u] = "Blocked" /\ r.thr[u] = "Runnable")
  BY DEF Woken, AllThreads
<1>7. ASSUME NEW u \in Threads, r.thr[u] # sched.thr[u]
      PROVE  \E e \in C : pc[u].op \in {"Call", "Receive"} /\ pc[u].obj = e
  <2>1. PICK e \in C : u \in WokeSet(eps[e])
    BY <1>7 DEF AllThreads
  <2>2. EpReg(sched, pc, eps[e], e)
    BY <1>1 DEF LRegs
  <2>3. u # None
    BY IdentitiesDistinct
  <2>4. LReg(sched, pc, u, "Receive", e) \/ LReg(sched, pc, u, "Call", e)
    BY <2>1, <2>2, <2>3 DEF EpReg, WokeSet, Waiting
  <2>5. sched.thr[u] = "Blocked"
    BY <1>6, <1>7
  <2> QED
    BY <2>4, <2>5 DEF LReg, Terminal
<1>8. ASSUME NEW u, NEW op, NEW o, LReg(sched, pc, u, op, o), o \notin C \/ op = "Wait"
      PROVE  LReg(r, pc, u, op, o)
  <2>1. u \in Threads
    BY <1>8 DEF LReg
  <2>2. CASE r.thr[u] = sched.thr[u]
    BY <1>8, <2>2 DEF LReg
  <2>3. CASE r.thr[u] # sched.thr[u]
    BY ZenonT(30), <1>6, <1>7, <1>8, <2>1, <2>3 DEF LReg, Terminal
  <2> QED
    BY <2>2, <2>3
<1>9. LRegs(r, pc, E2, notifs)
  <2>1. ASSUME NEW e \in Endpoints PROVE EpReg(r, pc, E2[e], e)
    <3>1. CASE e \in C
      BY <1>2, <1>4, <3>1 DEF EpReg
    <3>2. CASE e \notin C
      <4>1. EpReg(sched, pc, eps[e], e) /\ E2[e] = eps[e]
        BY <1>1, <1>4, <3>2 DEF LRegs
      <4> QED
        BY <1>8, <3>2, <4>1 DEF EpReg
    <3> QED
      BY <3>1, <3>2
  <2>2. \A n \in Notifications : notifs[n].waiter # None => LReg(r, pc, notifs[n].waiter, "Wait", n)
    BY <1>1, <1>8 DEF LRegs
  <2> QED
    BY <2>1, <2>2 DEF LRegs
<1>10. ASSUME RoomForAll PROVE Awaited(r, pc, E2)
  <2>1. Awaited(sched, pc, eps)
    BY <1>10 DEF LInv
  <2>2. ASSUME NEW u \in Threads, r.thr[u] = "Blocked"
        PROVE  /\ pc[u].op = "Call" => Waiting(E2[pc[u].obj], u)
               /\ pc[u].op = "Receive" => E2[pc[u].obj].receiver = u
    <3>1. sched.thr[u] = "Blocked"
      BY <1>6, <2>2
    <3>2. /\ pc[u].op = "Call" => Waiting(eps[pc[u].obj], u)
          /\ pc[u].op = "Receive" => eps[pc[u].obj].receiver = u
      BY <2>1, <3>1 DEF Awaited
    <3>3. \A e \in C : u \notin WokeSet(eps[e])
      BY ZenonT(30), <1>10, <2>2
    <3>4. pc[u].op \in {"Call", "Receive"} => pc[u].obj \in Endpoints /\ pc[u].obj \notin C
      BY <1>1, <3>2, <3>3 DEF PcObjects, WokeSet
    <3> QED
      BY <1>4, <3>2, <3>4
  <2> QED
    BY <2>2 DEF Awaited
<1>11. r.cur \in Threads /\ InitRuns(r)
  BY <1>1, <1>6, CoreAssumption DEF LInv, InitRuns, Woken
<1>12. \A u \in Threads : sched.thr[u] \in Terminal \cup {"New"} => r.thr[u] = sched.thr[u]
  BY <1>6 DEF Terminal
<1> QED
  BY <1>3, <1>5, <1>9, <1>10, <1>11, <1>12 DEF AfterClose, E2

(* DeleteHandle on an endpoint handle *)
LEMMA LClose ==
  ASSUME LInv, NEW t \in Threads, NEW e \in Endpoints, CloseEndpoint(t, e)
  PROVE  LInv' /\ Keeps(sched, sched')
<1>1. /\ sched.up /\ UNCHANGED <<notifs, pc, ncalls, proc>>
      /\ eps' = [eps EXCEPT ![e] = close(@)] /\ sched' = wake_all(sched, woke_threads(eps[e]))
  BY DEF CloseEndpoint, Syscall
<1>2. SchedType(sched) /\ Consistent(sched) /\ sched.cur # None /\ eps \in [Endpoints -> EndpointType]
  BY <1>1, CurrentRuns DEF LInv, LTypes
<1>3. /\ Woken(sched, sched')
      /\ \A u \in AllThreads : sched'.thr[u] # sched.thr[u] => u \in WokeSet(eps[e])
      /\ RoomForAll => \A u \in WokeSet(eps[e]) : sched'.thr[u] # "Blocked"
  <2>1. eps[e] \in EndpointType
    BY <1>2
  <2> QED
    BY ZenonT(30), <1>1, <1>2, <2>1, CloseWakes
<1>4. eps' = ClosedEps({e})
  BY <1>1, <1>2 DEF ClosedEps
<1>5. AfterClose(eps', sched')
  <2> DEFINE C == {e}
  <2>1. C \in SUBSET Endpoints /\ \A f \in C : f = e
    OBVIOUS
  <2>2. \A u \in AllThreads : sched'.thr[u] # sched.thr[u] => \E f \in C : u \in WokeSet(eps[f])
    BY <1>3
  <2>3. RoomForAll => \A f \in C : \A u \in WokeSet(eps[f]) : sched'.thr[u] # "Blocked"
    BY <1>3
  <2>4. eps' = ClosedEps(C)
    BY ZenonT(30), <1>4
  <2> HIDE DEF C
  <2> QED
    BY ZenonT(30), <1>1, <1>3, <2>1, <2>2, <2>3, <2>4, ClosedStep
<1>6. Keeps(sched, sched') /\ Ended(sched', proc')
  BY <1>1, <1>5 DEF AfterClose, Keeps, LInv, Ended, Terminal
<1>7. LTypes' /\ Consistent(sched')
  BY <1>1, <1>3, <1>5 DEF AfterClose, LInv, LTypes, Woken
<1> QED
  BY <1>1, <1>5, <1>6, <1>7 DEF AfterClose, LInv

(* ProcessControlOp::Reap *)
LEMMA LReap ==
  ASSUME InitPolls, LInv, NEW t \in Threads, NEW u \in Threads, Reap(t, u)
  PROVE  LInv' /\ Keeps(sched, sched')
<1> DEFINE C == {e \in Holds[u] : ~eps[e].closed}
           n == Cardinality(C)
<1>1. /\ sched.up /\ sched.cur = t /\ Supervisor[u] = t /\ proc[u] = "Zombie"
      /\ UNCHANGED <<notifs, pc, ncalls>> /\ proc' = [proc EXCEPT ![u] = "Reaped"]
      /\ eps' = ClosedEps(C)
  BY DEF Reap, Syscall, ClosedEps
<1>2. PICK order \in Orders(C) : sched' = [close_all(sched, order) EXCEPT !.thr[u] = "Absent"]
  BY DEF Reap
<1>3. C \in SUBSET Endpoints /\ n \in Nat
  <2>1. C \subseteq Endpoints
    BY LifecycleAssumption
  <2> QED
    BY <2>1, LifecycleAssumption
<1> HIDE DEF C
<1>4. /\ order \in [1..n -> Endpoints] /\ \A k \in 1..n : order[k] \in C
      /\ \A e \in C : \E k \in 1..n : order[k] = e
  BY <1>2, <1>3 DEF Orders
<1> HIDE DEF n
<1> DEFINE r == close_all(sched, order)
<1>5. /\ SchedType(sched) /\ Consistent(sched) /\ sched.cur # None /\ eps \in [Endpoints -> EndpointType]
      /\ sched.cpu = t /\ sched.thr[t] = "Running"
  BY <1>1, CurrentRuns DEF LInv, LTypes
<1>6. ClosedBy(sched, r, order, n)
  BY <1>3, <1>4, <1>5, CloseAll
<1>60. sched' = [r EXCEPT !.thr[u] = "Absent"]
  BY <1>2
<1> HIDE DEF r
<1>7. /\ Woken(sched, r)
      /\ \A v \in AllThreads : r.thr[v] # sched.thr[v] => \E e \in C : v \in WokeSet(eps[e])
      /\ RoomForAll => \A e \in C : \A v \in WokeSet(eps[e]) : r.thr[v] # "Blocked"
  <2>1. ASSUME NEW v \in AllThreads, r.thr[v] # sched.thr[v] PROVE \E e \in C : v \in WokeSet(eps[e])
    <3>1. PICK i \in 1..n : v \in WokeSet(eps[order[i]])
      BY <1>6, <2>1 DEF ClosedBy
    <3> QED
      BY <1>4, <3>1
  <2>2. ASSUME RoomForAll, NEW e \in C, NEW v \in WokeSet(eps[e]) PROVE r.thr[v] # "Blocked"
    <3>1. PICK k \in 1..n : order[k] = e
      BY <1>4
    <3> QED
      BY <1>6, <2>2, <3>1 DEF ClosedBy
  <2> QED
    BY <1>6, <2>1, <2>2 DEF ClosedBy
<1>8. AfterClose(eps', r)
  BY <1>1, <1>3, <1>7, ClosedStep
<1>9. u # t /\ u # Boot /\ t = Boot
  BY <1>1, OnlyBoot
<1>10. /\ SchedType(r) /\ Consistent(r) /\ r.cur = t /\ r.cpu = t /\ r.up = sched.up
       /\ r.thr[u] \in Terminal \cup {"New"}
  <2>1. sched.thr[u] \in Terminal \cup {"New"}
    BY <1>1 DEF LInv, Ended
  <2> QED
    BY <1>1, <1>5, <1>7, <1>8, <2>1 DEF Woken, AfterClose
<1> DEFINE f == [r.thr EXCEPT ![u] = "Absent"]
<1>11. /\ f \in [AllThreads -> ThreadState \cup {"Absent"}]
       /\ \A v \in AllThreads : f[v] = IF v = u THEN "Absent" ELSE r.thr[v]
  BY <1>10, Fields DEF AllThreads
<1>12. sched' = [r EXCEPT !.thr = f]
  BY <1>10, <1>60 DEF SchedType
<1> HIDE DEF f
<1>13. /\ SchedType(sched') /\ sched'.thr = f /\ sched'.rq = r.rq /\ sched'.cur = t /\ sched'.cpu = t
       /\ sched'.up = sched.up
  BY <1>10, <1>11, <1>12 DEF SchedType
<1>14. \A v \in Threads : sched'.thr[v] = IF v = u THEN "Absent" ELSE r.thr[v]
  BY <1>11, <1>13 DEF AllThreads
<1>15. Consistent(sched')
  <2>1. \A v \in Threads : v \in Queued(sched') <=> sched'.thr[v] = "Runnable"
    BY <1>10, <1>13, <1>14 DEF Consistent, Queued, Terminal
  <2>2. \A v \in Threads : sched'.thr[v] = "Running" => v = t
    BY <1>10, <1>14 DEF Consistent
  <2>3. sched'.thr[t] = "Running" /\ Distinct(sched'.rq)
    BY <1>9, <1>10, <1>13, <1>14, IdentitiesDistinct DEF Consistent
  <2> QED
    BY <1>13, <2>1, <2>2, <2>3, IdentitiesDistinct DEF Consistent
<1>16. /\ proc' \in [Threads -> {"Prepared", "Runnable", "Running", "Zombie", "Reaped"}]
       /\ \A v \in Threads : proc'[v] = IF v = u THEN "Reaped" ELSE proc[v]
  BY <1>1 DEF LInv, LTypes
<1>17. Ended(sched', proc') /\ Keeps(sched, sched')
  BY ZenonT(30), <1>8, <1>14, <1>16 DEF LInv, Ended, Keeps, AfterClose, Terminal
<1>18. InitRuns(sched')
  BY <1>8, <1>9, <1>14, CoreAssumption DEF AfterClose, InitRuns
<1>19. LRegs(sched', pc', eps', notifs')
  <2>1. \A v, op, o : LReg(r, pc, v, op, o) => LReg(sched', pc', v, op, o)
    BY <1>1, <1>14 DEF LReg, Terminal
  <2> QED
    BY <1>1, <1>8, <2>1 DEF AfterClose, LRegs, EpReg
<1>20. RoomForAll => Awaited(sched', pc', eps')
  BY ZenonT(30), <1>1, <1>8, <1>14 DEF AfterClose, Awaited
<1>21. LTypes'
  BY <1>1, <1>8, <1>13, <1>16 DEF LInv, LTypes, AfterClose
<1>22. (\A e \in Endpoints : Shape(eps[e]) /\ Once(eps[e]))' /\ PcObjects(pc')
  BY <1>1, <1>8 DEF AfterClose, LInv
<1> QED
  BY <1>13, <1>15, <1>17, <1>18, <1>19, <1>20, <1>21, <1>22 DEF LInv
=============================================================================
