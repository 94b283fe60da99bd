-------------------------- MODULE KernelStepProofs ---------------------------
(***************************************************************************)
(* What the operations of the scheduler preserve, whichever threads exist; *)
(* what those of ipc.rs and notification.rs do to an endpoint or a         *)
(* notification; and that every action of the IPC core preserves its       *)
(* inductive invariant IInv.                                               *)
(***************************************************************************)
EXTENDS KernelIpc, TLAPS

(* The provers a leaf is tried with that names none *)
USE ZenonT(3), SMTT(30), Z3T(30)
-----------------------------------------------------------------------------
(* The scheduler *)

(* A thread pushed to the front of a run queue it is not in. *)
LEMMA PushFront ==
  ASSUME NEW q \in Seq(Threads), NEW t \in Threads, t \notin Elems(q), Distinct(q)
  PROVE  LET r == <<t>> \o q
         IN  r \in Seq(Threads) /\ Distinct(r) /\ Elems(r) = Elems(q) \cup {t}
<1> DEFINE r == <<t>> \o q
<1>1. /\ r \in Seq(Threads) /\ Len(q) \in Nat /\ Len(r) = Len(q) + 1 /\ r[1] = t
      /\ \A i \in 1..Len(q) : i + 1 \in 1..Len(r) /\ r[i + 1] = q[i]
      /\ \A i \in 1..Len(r) : i # 1 => i - 1 \in 1..Len(q) /\ r[i] = q[i - 1]
      /\ 1 \in 1..Len(r)
  OBVIOUS
<1> HIDE DEF r
<1>2. Distinct(r)
  <2> SUFFICES ASSUME NEW i \in 1..Len(r), NEW j \in 1..Len(r), r[i] = r[j]
               PROVE  i = j
    BY DEF Distinct
  <2>1. \A k \in 1..Len(q) : q[k] # t
    BY DEF Elems
  <2>2. CASE i = 1 \/ j = 1
    <3>1. ASSUME NEW k \in 1..Len(r), k # 1 PROVE r[k] # t
      <4>1. k - 1 \in 1..Len(q) /\ r[k] = q[k - 1]
        BY <1>1, <3>1
      <4> QED BY <2>1, <4>1
    <3> QED BY <1>1, <2>2, <3>1
  <2>3. CASE i # 1 /\ j # 1
    <3>1. i - 1 \in 1..Len(q) /\ j - 1 \in 1..Len(q) /\ q[i - 1] = q[j - 1]
      BY <1>1, <2>3
    <3>2. i - 1 = j - 1
      BY <3>1 DEF Distinct
    <3> QED BY <3>2, <1>1
  <2> QED BY <2>2, <2>3
<1>3. ASSUME NEW u PROVE u \in Elems(r) <=> u \in Elems(q) \cup {t}
  <2>1. ASSUME u \in Elems(r) PROVE u \in Elems(q) \cup {t}
    <3>1. PICK i \in 1..Len(r) : u = r[i]
      BY <2>1 DEF Elems
    <3> QED BY ZenonT(30), <1>1, <3>1 DEF Elems
  <2>2. ASSUME u \in Elems(q) PROVE u \in Elems(r)
    <3>1. PICK i \in 1..Len(q) : u = q[i]
      BY <2>2 DEF Elems
    <3>2. i + 1 \in 1..Len(r) /\ r[i + 1] = u
      BY <1>1, <3>1
    <3> QED BY <3>2 DEF Elems
  <2>3. t \in Elems(r)
    BY <1>1 DEF Elems
  <2> QED BY <2>1, <2>2, <2>3
<1> QED BY <1>1, <1>2, <1>3 DEF r

(* The rest of a run queue after dequeue_next. *)
LEMMA PopFront ==
  ASSUME NEW q \in Seq(Threads), q # <<>>, Distinct(q)
  PROVE  /\ Head(q) \in Elems(q)
         /\ Head(q) \in Threads
         /\ Tail(q) \in Seq(Threads)
         /\ Distinct(Tail(q))
         /\ Elems(Tail(q)) = Elems(q) \ {Head(q)}
<1> DEFINE r == Tail(q)
           h == Head(q)
<1>1. /\ r \in Seq(Threads) /\ Len(q) \in Nat /\ Len(q) > 0 /\ Len(r) = Len(q) - 1
      /\ h = q[1] /\ h \in Threads
      /\ \A i \in 1..Len(r) : i + 1 \in 1..Len(q) /\ i + 1 # 1 /\ r[i] = q[i + 1]
      /\ \A i \in 1..Len(q) : i # 1 => i - 1 \in 1..Len(r) /\ r[i - 1] = q[i]
      /\ 1 \in 1..Len(q)
  OBVIOUS
<1> HIDE DEF r, h
<1>2. Distinct(r)
  <2> SUFFICES ASSUME NEW i \in 1..Len(r), NEW j \in 1..Len(r), r[i] = r[j]
               PROVE  i = j
    BY DEF Distinct
  <2>1. i + 1 \in 1..Len(q) /\ j + 1 \in 1..Len(q) /\ q[i + 1] = q[j + 1]
    BY <1>1
  <2>2. i + 1 = j + 1
    BY <2>1 DEF Distinct
  <2> QED BY <2>2, <1>1
<1>3. ASSUME NEW u PROVE u \in Elems(r) <=> u \in Elems(q) \ {h}
  <2>1. ASSUME u \in Elems(r) PROVE u \in Elems(q) \ {h}
    <3>1. PICK i \in 1..Len(r) : u = r[i]
      BY <2>1 DEF Elems
    <3>2. i + 1 \in 1..Len(q) /\ q[i + 1] = u /\ i + 1 # 1
      BY <1>1, <3>1
    <3>3. u # h
      BY <1>1, <3>2 DEF Distinct
    <3> QED BY <3>2, <3>3 DEF Elems
  <2>2. ASSUME u \in Elems(q), u # h PROVE u \in Elems(r)
    <3>1. PICK i \in 1..Len(q) : u = q[i]
      BY <2>2 DEF Elems
    <3>2. i # 1
      BY <1>1, <2>2, <3>1
    <3>3. i - 1 \in 1..Len(r) /\ r[i - 1] = u
      BY <1>1, <3>1, <3>2
    <3> QED BY <3>3 DEF Elems
  <2> QED BY <2>1, <2>2
<1>4. h \in Elems(q)
  BY <1>1 DEF Elems
<1> QED BY <1>1, <1>2, <1>3, <1>4 DEF r, h

(* A thread appended to a run queue it is not in. *)
LEMMA PushBack ==
  ASSUME NEW q \in Seq(Threads), NEW t \in Threads, t \notin Elems(q), Distinct(q)
  PROVE  LET r == Append(q, t)
         IN  r \in Seq(Threads) /\ Distinct(r) /\ Elems(r) = Elems(q) \cup {t}
<1> DEFINE r == Append(q, t)
           n == Len(q) + 1
<1>1. /\ r \in Seq(Threads) /\ Len(q) \in Nat /\ Len(r) = n /\ r[n] = t
      /\ \A i \in 1..Len(q) : i \in 1..Len(r) /\ i # n /\ r[i] = q[i]
      /\ \A i \in 1..Len(r) : i # n => i \in 1..Len(q)
      /\ n \in 1..Len(r)
  OBVIOUS
<1> HIDE DEF r, n
<1>2. \A k \in 1..Len(q) : q[k] # t
  BY DEF Elems
<1>3. Distinct(r)
  <2> SUFFICES ASSUME NEW i \in 1..Len(r), NEW j \in 1..Len(r), r[i] = r[j]
               PROVE  i = j
    BY DEF Distinct
  <2>1. CASE i = n \/ j = n
    BY <1>1, <1>2, <2>1
  <2>2. CASE i # n /\ j # n
    BY <1>1, <2>2 DEF Distinct
  <2> QED BY <2>1, <2>2
<1>4. ASSUME NEW u PROVE u \in Elems(r) <=> u \in Elems(q) \cup {t}
  <2>1. ASSUME u \in Elems(r) PROVE u \in Elems(q) \cup {t}
    <3>1. PICK i \in 1..Len(r) : u = r[i]
      BY <2>1 DEF Elems
    <3> QED BY <1>1, <3>1 DEF Elems
  <2>2. ASSUME u \in Elems(q) PROVE u \in Elems(r)
    <3>1. PICK i \in 1..Len(q) : u = q[i]
      BY <2>2 DEF Elems
    <3> QED BY <1>1, <3>1 DEF Elems
  <2>3. t \in Elems(r)
    BY <1>1 DEF Elems
  <2> QED BY <2>1, <2>2, <2>3
<1> QED BY <1>1, <1>3, <1>4 DEF r
-----------------------------------------------------------------------------
(* The fields of a well-typed scheduler record. *)
LEMMA Fields ==
  ASSUME NEW s, SchedType(s)
  PROVE  /\ s.thr \in [AllThreads -> ThreadState \cup {"Absent"}]
         /\ s.rq \in Seq(Threads)
         /\ s.cur \in AllThreads \cup {None}
         /\ s.cpu \in AllThreads
         /\ s.up \in BOOLEAN
  BY DEF SchedType

(* Scheduler::block_current of the running thread: what changes, and that  *)
(* the scheduler stays consistent.                                         *)
LEMMA BlockCurrent ==
  ASSUME NEW s, SchedType(s), Consistent(s), NEW t \in Threads, s.cur = t
  PROVE  LET r == block_current(s, t)
         IN  /\ SchedType(r)
             /\ Consistent(r)
             /\ r.thr = [s.thr EXCEPT ![t] = "Blocked"]
             /\ r.rq = s.rq /\ r.cur = None /\ r.cpu = t /\ r.up = s.up
             /\ s.thr[t] = "Running"
<1> DEFINE r == block_current(s, t)
<1>1. s.cpu = t /\ s.thr[t] = "Running"
  BY IdentitiesDistinct DEF Consistent
<1>2. r = [s EXCEPT !.thr[t] = "Blocked", !.cur = None]
  BY <1>1 DEF block_current
<1>3. r.thr = [s.thr EXCEPT ![t] = "Blocked"]
      /\ r.rq = s.rq /\ r.cur = None /\ r.cpu = t /\ r.up = s.up
  BY <1>1, <1>2 DEF SchedType
<1>4. SchedType(r)
  <2>1. [s.thr EXCEPT ![t] = "Blocked"] \in [AllThreads -> ThreadState \cup {"Absent"}]
    BY Fields DEF AllThreads, ThreadState
  <2> QED BY <1>2, <2>1 DEF SchedType
<1> HIDE DEF r
<1>5. \A u \in AllThreads : r.thr[u] = IF u = t THEN "Blocked" ELSE s.thr[u]
  BY <1>3, Fields
<1>6. Consistent(r)
  BY <1>1, <1>3, <1>5, IdentitiesDistinct DEF Consistent, Queued, AllThreads
<1> QED BY <1>1, <1>3, <1>4, <1>6 DEF r

(* Scheduler::apply_wake of a Blocked thread whose stack the CPU is not    *)
(* on, while the queue has room.                                           *)
LEMMA ApplyWake ==
  ASSUME NEW s, SchedType(s), Consistent(s), NEW t \in Threads, t # s.cpu,
         s.thr[t] = "Blocked", Len(s.rq) < Capacity
  PROVE  LET r == apply_wake(s, t)
         IN  /\ SchedType(r)
             /\ Consistent(r)
             /\ r.thr = [s.thr EXCEPT ![t] = "Runnable"]
             /\ r.rq = <<t>> \o s.rq /\ r.rq # <<>> /\ Head(r.rq) = t
             /\ r.cur = s.cur /\ r.cpu = s.cpu /\ r.up = s.up
<1> DEFINE r == apply_wake(s, t)
<1>1. r = [s EXCEPT !.thr[t] = "Runnable", !.rq = <<t>> \o @]
  BY DEF apply_wake
<1>2. /\ r.thr = [s.thr EXCEPT ![t] = "Runnable"]
      /\ r.rq = <<t>> \o s.rq
      /\ r.cur = s.cur /\ r.cpu = s.cpu /\ r.up = s.up
  BY <1>1 DEF SchedType
<1>3. t \notin Elems(s.rq) /\ Distinct(s.rq)
  BY DEF Consistent, Queued
<1>4. /\ <<t>> \o s.rq \in Seq(Threads)
      /\ Distinct(<<t>> \o s.rq)
      /\ Elems(<<t>> \o s.rq) = Elems(s.rq) \cup {t}
  BY <1>3, Fields, PushFront
<1>5. SchedType(r)
  <2>1. [s.thr EXCEPT ![t] = "Runnable"] \in [AllThreads -> ThreadState \cup {"Absent"}]
    BY Fields DEF AllThreads, ThreadState
  <2> QED BY <1>1, <1>4, <2>1 DEF SchedType
<1>6. <<t>> \o s.rq # <<>> /\ Head(<<t>> \o s.rq) = t
  BY Fields
<1> HIDE DEF r
<1>7. \A u \in AllThreads : r.thr[u] = IF u = t THEN "Runnable" ELSE s.thr[u]
  BY <1>2, Fields
<1>8. Consistent(r)
  BY <1>2, <1>4, <1>7, Fields, IdentitiesDistinct DEF Consistent, Queued, AllThreads
<1> QED BY <1>2, <1>5, <1>6, <1>8 DEF r

(* The same without the queue. *)
LEMMA ApplyWakeFields ==
  ASSUME NEW s, SchedType(s), Consistent(s), NEW t \in Threads, t # s.cpu,
         s.thr[t] = "Blocked", Len(s.rq) < Capacity
  PROVE  /\ SchedType(apply_wake(s, t))
         /\ Consistent(apply_wake(s, t))
         /\ apply_wake(s, t).thr = [s.thr EXCEPT ![t] = "Runnable"]
         /\ apply_wake(s, t).cur = s.cur
         /\ apply_wake(s, t).cpu = s.cpu
         /\ apply_wake(s, t).up = s.up
  BY ApplyWake

(* dequeue_next, set_current_thread and switch_to_next when the thread the *)
(* CPU is on is not the head of the queue: whether a thread that blocked   *)
(* or the idle thread gives up the CPU.                                    *)
LEMMA SwitchToHead ==
  ASSUME NEW s, SchedType(s), Consistent(s), s.rq # <<>>, s.cur = None \/ s.cpu = Idle
  PROVE  LET h == Head(s.rq)
             r == switch_to_next([s EXCEPT !.rq = Tail(@), !.cur = h], h)
         IN  /\ SchedType(r)
             /\ Consistent(r)
             /\ r.thr = [s.thr EXCEPT ![h] = "Running"]
             /\ r.cur = h /\ r.cpu = h /\ r.up = s.up
             /\ h \in Threads /\ h # s.cpu /\ s.thr[h] = "Runnable"
<1> DEFINE h == Head(s.rq)
           r == switch_to_next([s EXCEPT !.rq = Tail(@), !.cur = h], h)
<1>1. /\ h \in Elems(s.rq) /\ h \in Threads /\ Tail(s.rq) \in Seq(Threads)
      /\ Distinct(Tail(s.rq)) /\ Elems(Tail(s.rq)) = Elems(s.rq) \ {h}
  BY Fields, PopFront DEF Consistent
<1>2. s.thr[h] = "Runnable" /\ h # s.cpu
  BY <1>1, IdentitiesDistinct DEF Consistent, Queued
<1> HIDE DEF h
<1>3. r = [s EXCEPT !.rq = Tail(s.rq), !.cur = h, !.thr = [s.thr EXCEPT ![h] = "Running"], !.cpu = h]
  BY <1>1, <1>2 DEF switch_to_next, SchedType, AllThreads
<1>4. /\ r.thr = [s.thr EXCEPT ![h] = "Running"]
      /\ r.rq = Tail(s.rq) /\ r.cur = h /\ r.cpu = h /\ r.up = s.up
  BY <1>3 DEF SchedType
<1>5. SchedType(r)
  <2>1. [s.thr EXCEPT ![h] = "Running"] \in [AllThreads -> ThreadState \cup {"Absent"}]
    BY Fields, <1>1 DEF AllThreads, ThreadState
  <2> QED BY ZenonT(60), <1>1, <1>3, <2>1 DEF SchedType, AllThreads
<1> HIDE DEF r
<1>6. \A u \in AllThreads : r.thr[u] = IF u = h THEN "Running" ELSE s.thr[u]
  BY <1>1, <1>4, Fields
<1>7. \A u \in Threads : s.thr[u] # "Running"
  BY IdentitiesDistinct DEF Consistent
<1>8. Consistent(r)
  BY <1>1, <1>2, <1>4, <1>6, <1>7, IdentitiesDistinct DEF Consistent, Queued, AllThreads
<1> QED BY <1>1, <1>2, <1>4, <1>5, <1>8 DEF r, h

(* dispatch after the thread the CPU is on blocked: neither unwrap() of    *)
(* the hand-over can fail.                                                 *)
LEMMA Dispatch ==
  ASSUME NEW s, SchedType(s), Consistent(s), s.rq # <<>>, s.cur = None
  PROVE  LET h == Head(s.rq)
             r == dispatch(s, s.cpu)
         IN  /\ SchedType(r)
             /\ Consistent(r)
             /\ r.thr = [s.thr EXCEPT ![h] = "Running"]
             /\ r.cur = h /\ r.cpu = h /\ r.up = s.up
             /\ h \in Threads /\ h # s.cpu /\ s.thr[h] = "Runnable"
<1> DEFINE h == Head(s.rq)
<1>1. h \in Threads /\ h # s.cpu /\ s.thr[h] = "Runnable"
  BY SwitchToHead
<1>2. s.thr[s.cpu] = "Blocked"
  BY DEF Consistent
<1>3. switch_ok([s EXCEPT !.rq = Tail(@), !.cur = h], s.cpu, h)
  BY <1>1, <1>2 DEF switch_ok, SchedType
<1>4. dispatch(s, s.cpu) = switch_to_next([s EXCEPT !.rq = Tail(@), !.cur = h], h)
  BY <1>3 DEF dispatch
<1> QED BY ZenonT(30), <1>4, SwitchToHead

(* reschedule of the running user thread to the head of the queue (Reply,  *)
(* Yield and timer preemption).                                            *)
LEMMA Reschedule ==
  ASSUME NEW s, SchedType(s), Consistent(s), NEW t \in Threads, s.cur = t, s.rq # <<>>
  PROVE  LET h == Head(s.rq)
             r == reschedule(s, t, h)
         IN  /\ reschedule_ok(s, t, h)
             /\ SchedType(r)
             /\ Consistent(r)
             /\ r.thr = [[s.thr EXCEPT ![t] = "Runnable"] EXCEPT ![h] = "Running"]
             /\ r.cur = h /\ r.cpu = h /\ r.up = s.up
             /\ h \in Threads /\ h # t
<1> DEFINE h == Head(s.rq)
           q == Append(Tail(s.rq), t)
           f == [[s.thr EXCEPT ![t] = "Runnable"] EXCEPT ![h] = "Running"]
           r == reschedule(s, t, h)
<1>1. s.cpu = t /\ s.thr[t] = "Running"
  BY IdentitiesDistinct DEF Consistent
<1>2. /\ h \in Elems(s.rq) /\ h \in Threads /\ Tail(s.rq) \in Seq(Threads)
      /\ Distinct(Tail(s.rq)) /\ Elems(Tail(s.rq)) = Elems(s.rq) \ {h}
  BY Fields, PopFront DEF Consistent
<1>3. s.thr[h] = "Runnable" /\ h # t /\ t \notin Elems(s.rq)
  BY <1>1, <1>2 DEF Consistent, Queued
<1>4. q \in Seq(Threads) /\ Distinct(q) /\ Elems(q) = (Elems(s.rq) \ {h}) \cup {t}
  <2>1. t \notin Elems(Tail(s.rq))
    BY <1>2, <1>3
  <2> QED BY <1>2, <2>1, PushBack
<1>5. reschedule_ok(s, t, h)
  BY <1>1, <1>3 DEF reschedule_ok
<1> HIDE DEF h
<1>6. f \in [AllThreads -> ThreadState \cup {"Absent"}]
  BY Fields, <1>2 DEF AllThreads, ThreadState
<1>7. r = [s EXCEPT !.thr = f, !.rq = q, !.cur = h, !.cpu = h]
  BY DEF reschedule, SchedType
<1>8. SchedType(r)
  BY ZenonT(30), <1>2, <1>4, <1>6, <1>7 DEF SchedType, AllThreads
<1>9. r.thr = f /\ r.rq = q /\ r.cur = h /\ r.cpu = h /\ r.up = s.up
  BY <1>7 DEF SchedType
<1>10. \A u \in AllThreads :
         f[u] = IF u = h THEN "Running" ELSE IF u = t THEN "Runnable" ELSE s.thr[u]
  BY <1>2, Fields DEF AllThreads
<1> HIDE DEF r, q, f
<1>11. \A u \in Threads : f[u] = "Running" => u = h
  BY <1>1, <1>10 DEF Consistent, AllThreads
<1>12. \A u \in Threads : u \in Elems(q) <=> f[u] = "Runnable"
  BY ZenonT(30), <1>3, <1>4, <1>10 DEF Consistent, Queued, AllThreads
<1>13. Consistent(r)
  BY ZenonT(30), <1>2, <1>4, <1>9, <1>10, <1>11, <1>12, IdentitiesDistinct DEF Consistent, Queued, AllThreads
<1> QED BY <1>2, <1>3, <1>5, <1>8, <1>9, <1>13 DEF r, h, f

(* Scheduler::enqueue of a New thread (Process Start). *)
LEMMA EnqueueNew ==
  ASSUME NEW s, SchedType(s), Consistent(s), NEW t \in Threads,
         s.thr[t] = "New", enqueue_ok(s, t)
  PROVE  LET r == enqueue(s, t)
         IN  /\ SchedType(r)
             /\ Consistent(r)
             /\ r.thr = [s.thr EXCEPT ![t] = "Runnable"]
             /\ r.cur = s.cur /\ r.cpu = s.cpu /\ r.up = s.up
<1> DEFINE q == Append(s.rq, t)
           f == [s.thr EXCEPT ![t] = "Runnable"]
           r == enqueue(s, t)
<1>1. t \notin Elems(s.rq) /\ Distinct(s.rq)
  BY DEF enqueue_ok, Consistent, Queued
<1>2. q \in Seq(Threads) /\ Distinct(q) /\ Elems(q) = Elems(s.rq) \cup {t}
  BY <1>1, Fields, PushBack
<1>3. f \in [AllThreads -> ThreadState \cup {"Absent"}]
  BY Fields DEF AllThreads, ThreadState
<1>4. r = [s EXCEPT !.thr = f, !.rq = q]
  BY DEF enqueue, SchedType
<1>5. SchedType(r)
  BY ZenonT(30), <1>2, <1>3, <1>4 DEF SchedType
<1>6. r.thr = f /\ r.rq = q /\ r.cur = s.cur /\ r.cpu = s.cpu /\ r.up = s.up
  BY <1>4 DEF SchedType
<1>7. \A u \in AllThreads : f[u] = IF u = t THEN "Runnable" ELSE s.thr[u]
  BY Fields
<1> HIDE DEF r, q, f
<1>8. s.cpu # t
  BY IdentitiesDistinct DEF Consistent
<1>9. Consistent(r)
  BY <1>2, <1>6, <1>7, <1>8, Fields, IdentitiesDistinct DEF Consistent, Queued, AllThreads
<1> QED BY <1>5, <1>6, <1>9 DEF r, f

(* The switch to the idle thread that WaitNotification makes when nothing  *)
(* else is runnable.                                                       *)
LEMMA SwitchToIdle ==
  ASSUME NEW s, SchedType(s), Consistent(s), s.cur = None
  PROVE  LET r == switch_to_next([s EXCEPT !.cur = Idle], Idle)
         IN  /\ SchedType(r)
             /\ Consistent(r)
             /\ \A u \in Threads : r.thr[u] = s.thr[u]
             /\ s.thr[Idle] \in {"Runnable", "Running"} => r.thr[Idle] = "Running"
             /\ r.cur = Idle /\ r.cpu = Idle /\ r.up = s.up
<1> DEFINE f == [s.thr EXCEPT ![Idle] = IF @ = "Runnable" THEN "Running" ELSE @]
           r == switch_to_next([s EXCEPT !.cur = Idle], Idle)
<1>1. f \in [AllThreads -> ThreadState \cup {"Absent"}]
  BY Fields DEF AllThreads, ThreadState
<1>2. r = [s EXCEPT !.thr = f, !.cur = Idle, !.cpu = Idle]
  BY DEF switch_to_next, SchedType
<1>3. SchedType(r)
  BY ZenonT(30), <1>1, <1>2 DEF SchedType, AllThreads
<1>4. r.thr = f /\ r.rq = s.rq /\ r.cur = Idle /\ r.cpu = Idle /\ r.up = s.up
  BY <1>2 DEF SchedType
<1>5. \A u \in Threads : f[u] = s.thr[u]
  BY Fields, IdentitiesDistinct DEF AllThreads
<1>6. s.thr[Idle] \in {"Runnable", "Running"} => f[Idle] = "Running"
  BY Fields DEF AllThreads
<1> HIDE DEF r, f
<1>7. \A u \in Threads : s.thr[u] # "Running"
  BY IdentitiesDistinct DEF Consistent
<1>8. Consistent(r)
  BY <1>4, <1>5, <1>7, IdentitiesDistinct DEF Consistent, Queued, AllThreads
<1> QED BY <1>3, <1>4, <1>5, <1>6, <1>8 DEF r

(* A run queue without repetitions that misses some thread has room when   *)
(* it can hold every thread.                                               *)
LEMMA QueueRoom ==
  ASSUME RoomForAll, NEW q \in Seq(Threads), Distinct(q), NEW t \in Threads, t \notin Elems(q)
  PROVE  Len(q) < Capacity
<1> DEFINE r == <<t>> \o q
<1>1. r \in Seq(Threads) /\ Distinct(r)
  BY PushFront
<1>2. Len(r) = Len(q) + 1 /\ Len(q) \in Nat
  OBVIOUS
<1> HIDE DEF r
<1>3. Len(r) <= Capacity
  BY <1>1 DEF RoomForAll
<1> QED BY <1>2, <1>3, CoreAssumption
-----------------------------------------------------------------------------
(* The IPC core *)

(* What the operations of notification.rs do to a notification. *)
LEMMA NotificationOps ==
  ASSUME NEW n \in NotificationType, NEW t \in Threads
  PROVE  /\ wait(n, t) \in NotificationType
         /\ wait(n, t).waiter = IF wait_blocks(n) THEN t ELSE n.waiter
         /\ signal(n) \in NotificationType
         /\ signal(n).waiter # None => signal(n).waiter = n.waiter /\ signal_wakes(n) = None
         /\ take_signals(n) \in NotificationType
         /\ take_signals(n).waiter = n.waiter
  BY DEF NotificationType, wait, wait_blocks, signal, signal_wakes, take_signals

(* A system call is made by the current thread, which is Running, so no    *)
(* thread is stranded and the caller is registered nowhere.                *)
LEMMA CallerRuns ==
  ASSUME IInv, NEW t \in Threads, sched.cur = t
  PROVE  /\ sched.cpu = t
         /\ sched.thr[t] = "Running"
         /\ sched.cur # None
         /\ \A u : ~Stranded(u)
  BY IdentitiesDistinct DEF IInv, SchedConsistent, Consistent, Stranded

(* A thread that resumes inside a call is current. *)
LEMMA ResumerRuns ==
  ASSUME IInv, NEW t \in Threads, sched.cpu = t, pc[t].op # "User"
  PROVE  sched.cur = t
  BY IdentitiesDistinct DEF IInv, SchedConsistent, Consistent, PcShape

(* Registrations survive a step that leaves endpoints' and notifications'  *)
(* registrations, and every Blocked thread, alone.                         *)
LEMMA KeepRegistrations ==
  ASSUME IInv, \A u : ~Stranded(u),
         \A e \in Endpoints : /\ eps'[e].receiver = eps[e].receiver
                              /\ eps'[e].caller = eps[e].caller
                              /\ eps'[e].callers = eps[e].callers,
         \A n \in Notifications : notifs'[n].waiter = notifs[n].waiter,
         \A u \in Threads : sched.thr[u] = "Blocked" =>
                              sched'.thr[u] = "Blocked" /\ pc'[u] = pc[u],
         sched'.cur # None
  PROVE  Registrations' /\ CallersOnce'
<1>1. \A u, op, o : Registered(u, op, o) => Registered(u, op, o)' /\ ~Stranded(u)'
  BY DEF Registered, Stranded
<1>2. Registrations'
  BY <1>1 DEF IInv, Registrations
<1>3. CallersOnce'
  BY DEF IInv, CallersOnce
<1> QED BY <1>2, <1>3

(* Process Start of a child. *)
LEMMA StartStep ==
  ASSUME IInv, NEW t \in Threads, NEW u \in Threads, Start(t, u)
  PROVE  IInv' /\ sched'.up = sched.up
<1>1. SchedType(sched) /\ Consistent(sched) /\ sched.cur = t /\ sched.thr[u] = "New" /\ enqueue_ok(sched, u)
  BY DEF Start, Syscall, IInv, TypeOK, SchedConsistent
<1>2. /\ SchedType(sched')
      /\ Consistent(sched')
      /\ sched'.thr = [sched.thr EXCEPT ![u] = "Runnable"]
      /\ sched'.cur = sched.cur /\ sched'.cpu = sched.cpu /\ sched'.up = sched.up
  BY <1>1, EnqueueNew DEF Start
<1>3. UNCHANGED <<eps, notifs, pc, inbox, held, ncalls>>
  BY DEF Start
<1>4. \A v \in AllThreads : sched'.thr[v] = IF v = u THEN "Runnable" ELSE sched.thr[v]
  BY <1>1, <1>2, Fields
<1>5. TypeOK' /\ SchedConsistent'
  BY <1>2, <1>3 DEF IInv, TypeOK, SchedConsistent
<1>6. ThreadsAlive'
  BY <1>4, IdentitiesDistinct DEF IInv, ThreadsAlive, AllThreads
<1>7. PcShape' /\ EndpointShape'
  BY <1>1, <1>2, <1>3, IdentitiesDistinct DEF IInv, PcShape, EndpointShape
<1>8. Registrations' /\ CallersOnce'
  BY <1>1, <1>2, <1>3, <1>4, CallerRuns, KeepRegistrations DEF AllThreads
<1> QED BY <1>2, <1>5, <1>6, <1>7, <1>8 DEF IInv

(* A call that returns takes its receive buffer. *)
LEMMA ResumeCallStep ==
  ASSUME IInv, NEW t \in Threads, ResumeCall(t)
  PROVE  IInv' /\ sched' = sched
<1>1. sched.cur = t /\ sched' = sched /\ eps' = eps /\ notifs' = notifs /\ held' = held /\ ncalls' = ncalls
  BY ResumerRuns DEF ResumeCall, Resuming
<1>2. sched.thr[t] = "Running" /\ sched.cur # None /\ \A u : ~Stranded(u)
  BY <1>1, CallerRuns
<1>3. pc' = [pc EXCEPT ![t] = User] /\ inbox' = [inbox EXCEPT ![t] = <<>>]
  BY DEF ResumeCall
<1>4. TypeOK' /\ SchedConsistent'
  BY <1>1, <1>3 DEF IInv, TypeOK, SchedConsistent, User
<1>5. \A u \in Threads : pc'[u] = IF u = t THEN User ELSE pc[u]
  BY <1>3 DEF IInv, TypeOK
<1>6. ThreadsAlive' /\ EndpointShape'
  BY <1>1 DEF IInv, ThreadsAlive, EndpointShape
<1>7. PcShape'
  BY <1>1, <1>2, <1>5 DEF IInv, PcShape, User
<1>8. Registrations' /\ CallersOnce'
  BY <1>1, <1>2, <1>5, KeepRegistrations
<1> QED BY <1>1, <1>4, <1>6, <1>7, <1>8 DEF IInv

(* The rotation of the run queue that Yield and the timer perform. *)
LEMMA RotateStep ==
  ASSUME IInv, NEW t \in Threads, sched.cur = t, sched.rq # <<>>,
         sched' = reschedule(sched, t, Head(sched.rq)),
         UNCHANGED <<eps, notifs, pc, inbox, held, ncalls>>
  PROVE  IInv' /\ sched'.up = sched.up
<1> DEFINE h == Head(sched.rq)
<1>1. SchedType(sched) /\ Consistent(sched)
  BY DEF IInv, TypeOK, SchedConsistent
<1>2. /\ SchedType(sched') /\ Consistent(sched')
      /\ sched'.thr = [[sched.thr EXCEPT ![t] = "Runnable"] EXCEPT ![h] = "Running"]
      /\ sched'.cur = h /\ sched'.cpu = h /\ sched'.up = sched.up
      /\ h \in Threads /\ h # t /\ reschedule_ok(sched, t, h)
  BY <1>1, Reschedule
<1>3. sched.thr[t] = "Running" /\ sched.thr[h] = "Runnable"
  BY <1>2 DEF reschedule_ok
<1> HIDE DEF h
<1>4. \A v \in AllThreads :
        sched'.thr[v] = IF v = h THEN "Running" ELSE IF v = t THEN "Runnable" ELSE sched.thr[v]
  BY ZenonT(30), <1>1, <1>2, Fields DEF AllThreads
<1>5. TypeOK' /\ SchedConsistent'
  BY <1>2 DEF IInv, TypeOK, SchedConsistent
<1>6. ThreadsAlive'
  BY <1>2, <1>4, IdentitiesDistinct DEF IInv, ThreadsAlive, AllThreads
<1>7. PcShape' /\ EndpointShape'
  BY ZenonT(30), <1>2, IdentitiesDistinct DEF IInv, PcShape, EndpointShape
<1>8. sched'.cur # None
  BY <1>2, IdentitiesDistinct
<1>9. \A u \in Threads : sched.thr[u] = "Blocked" => sched'.thr[u] = "Blocked"
  BY <1>3, <1>4 DEF AllThreads
<1>10. Registrations' /\ CallersOnce'
  BY <1>8, <1>9, CallerRuns, KeepRegistrations
<1> QED BY <1>2, <1>5, <1>6, <1>7, <1>10 DEF IInv

(* OperationCode::Yield *)
LEMMA YieldStep ==
  ASSUME IInv, NEW t \in Threads, Yield(t)
  PROVE  IInv' /\ sched'.up = sched.up
  BY RotateStep DEF Yield, Syscall

(* The timer interrupt that ends a quantum. *)
LEMMA PreemptStep ==
  ASSUME IInv, Preempt
  PROVE  IInv' /\ sched'.up = sched.up
<1>1. sched.cur \in Threads
  BY DEF Preempt, IInv, TypeOK, SchedType, SchedConsistent, Consistent, AllThreads
<1> QED BY <1>1, RotateStep DEF Preempt

(* The idle thread hands the CPU to the head of the queue. *)
LEMMA IdleDispatchStep ==
  ASSUME IInv, IdleDispatch
  PROVE  IInv' /\ sched'.up = sched.up
<1> DEFINE h == Head(sched.rq)
           s1 == [sched EXCEPT !.rq = Tail(@), !.cur = h]
<1>1. SchedType(sched) /\ Consistent(sched) /\ sched.rq # <<>> /\ sched.cpu = Idle /\ sched.cur = Idle
  BY DEF IInv, TypeOK, SchedConsistent, IdleDispatch
<1>2. /\ SchedType(switch_to_next(s1, h)) /\ Consistent(switch_to_next(s1, h))
      /\ switch_to_next(s1, h).thr = [sched.thr EXCEPT ![h] = "Running"]
      /\ switch_to_next(s1, h).cur = h /\ switch_to_next(s1, h).cpu = h
      /\ switch_to_next(s1, h).up = sched.up
      /\ h \in Threads /\ h # sched.cpu /\ sched.thr[h] = "Runnable"
  BY <1>1, SwitchToHead
<1>3. switch_ok(s1, Idle, h)
  BY <1>1, <1>2 DEF switch_ok, SchedType, IInv, ThreadsAlive
<1>4. sched' = switch_to_next(s1, h)
  BY <1>3 DEF IdleDispatch
<1>5. UNCHANGED <<eps, notifs, pc, inbox, held, ncalls>>
  BY DEF IdleDispatch
<1> HIDE DEF h, s1
<1>6. \A v \in AllThreads : sched'.thr[v] = IF v = h THEN "Running" ELSE sched.thr[v]
  BY <1>1, <1>2, <1>4, Fields DEF AllThreads
<1>7. sched'.cur # None /\ \A u : ~Stranded(u)
  BY <1>1, <1>2, <1>4, IdentitiesDistinct DEF Stranded
<1>8. TypeOK' /\ SchedConsistent'
  BY <1>2, <1>4, <1>5 DEF IInv, TypeOK, SchedConsistent
<1>9. ThreadsAlive'
  BY <1>2, <1>6, IdentitiesDistinct DEF IInv, ThreadsAlive, AllThreads
<1>10. PcShape' /\ EndpointShape'
  BY <1>5, <1>7 DEF IInv, PcShape, EndpointShape
<1>11. \A u \in Threads : sched.thr[u] = "Blocked" => sched'.thr[u] = "Blocked"
  BY <1>2, <1>6 DEF AllThreads
<1>12. Registrations' /\ CallersOnce'
  BY <1>5, <1>7, <1>11, KeepRegistrations
<1> QED BY <1>2, <1>4, <1>8, <1>9, <1>10, <1>12 DEF IInv

(* A device interrupt signals a notification and wakes its waiter, also    *)
(* while the CPU is on a stranded thread.                                  *)
LEMMA InterruptStep ==
  ASSUME IInv, NEW n \in Notifications, Interrupt(n)
  PROVE  IInv' /\ sched'.up = sched.up
<1> DEFINE w == signal_wakes(notifs[n])
<1>1. SchedType(sched) /\ Consistent(sched)
  BY DEF IInv, TypeOK, SchedConsistent
<1>2. UNCHANGED <<eps, pc, inbox, held, ncalls>> /\ notifs' = [notifs EXCEPT ![n] = signal(@)]
  BY DEF Interrupt
<1>3. notifs' \in [Notifications -> NotificationType]
  BY <1>2, CoreAssumption, NotificationOps DEF IInv, TypeOK
<1>4. \A m \in Notifications :
         notifs'[m].waiter # None => notifs'[m].waiter = notifs[m].waiter /\ (m # n \/ w = None)
  BY <1>2, CoreAssumption, NotificationOps DEF IInv, TypeOK
<1>5. w # None => /\ w = notifs[n].waiter /\ w \in Threads /\ w # sched.cpu
                  /\ Registered(w, "Wait", n) /\ pc[w].op = "Wait" /\ pc[w].obj = n
  <2> HAVE w # None
  <2>1. w = notifs[n].waiter
    BY DEF signal_wakes
  <2>2. Registered(w, "Wait", n) /\ ~Stranded(w)
    BY <2>1 DEF IInv, Registrations
  <2>3. w \in Threads /\ sched.thr[w] = "Blocked" /\ pc[w].op = "Wait" /\ pc[w].obj = n
    BY <2>2 DEF Registered
  <2>4. w # sched.cpu
    BY <1>1, <2>2, <2>3, IdentitiesDistinct DEF Consistent, Stranded
  <2> QED BY <2>1, <2>2, <2>3, <2>4
<1> HIDE DEF w
<1>6. /\ SchedType(sched') /\ Consistent(sched')
      /\ sched'.cur = sched.cur /\ sched'.cpu = sched.cpu /\ sched'.up = sched.up
      /\ \A v \in AllThreads : sched'.thr[v] = sched.thr[v] \/ (v = w /\ w # None /\ sched'.thr[v] = "Runnable")
  <2>1. CASE w # None /\ Len(sched.rq) < Capacity /\ sched.thr[w] = "Blocked"
    <3>1. sched' = apply_wake(sched, w)
      BY <2>1 DEF Interrupt, w
    <3>2. /\ SchedType(sched') /\ Consistent(sched')
          /\ sched'.thr = [sched.thr EXCEPT ![w] = "Runnable"]
          /\ sched'.cur = sched.cur /\ sched'.cpu = sched.cpu /\ sched'.up = sched.up
      BY ZenonT(30), <1>1, <1>5, <2>1, <3>1, ApplyWake
    <3> QED BY <1>1, <2>1, <3>2, Fields
  <2>2. CASE ~(w # None /\ Len(sched.rq) < Capacity /\ sched.thr[w] = "Blocked")
    <3>1. sched' = sched
      BY <2>2 DEF Interrupt, apply_wake, w
    <3> QED BY <1>1, <3>1
  <2> QED BY <2>1, <2>2
<1>7. TypeOK' /\ SchedConsistent'
  BY <1>2, <1>3, <1>6 DEF IInv, TypeOK, SchedConsistent
<1>8. ThreadsAlive'
  BY <1>5, <1>6, IdentitiesDistinct DEF IInv, ThreadsAlive, AllThreads
<1>9. PcShape' /\ EndpointShape'
  BY <1>2, <1>6 DEF IInv, PcShape, EndpointShape
<1>10. \A u : Stranded(u)' <=> Stranded(u)
  BY <1>6 DEF Stranded
<1>11. \A u, op, o : Registered(u, op, o) /\ (u # w \/ w = None) => Registered(u, op, o)'
  BY <1>2, <1>6, <1>10 DEF Registered, AllThreads
<1>12. Registrations'
  <2>1. ASSUME NEW u, NEW op, NEW o, op # "Wait" \/ o # n, Registered(u, op, o)
        PROVE  u # w \/ w = None
    BY <1>1, <1>5, <2>1 DEF Registered, Stranded
  <2>2. \A u, op, o : Registered(u, op, o) /\ (op # "Wait" \/ o # n) => Registered(u, op, o)'
    BY <1>11, <2>1
  <2>3. (\A e \in Endpoints :
           /\ eps[e].receiver # None => Registered(eps[e].receiver, "Receive", e)
           /\ eps[e].caller # None => Registered(eps[e].caller, "Call", e)
           /\ \A i \in 1..Len(eps[e].callers) : Registered(eps[e].callers[i].caller, "Call", e))'
    BY <1>2, <2>2 DEF IInv, Registrations
  <2>4. (\A m \in Notifications : notifs[m].waiter # None =>
           Registered(notifs[m].waiter, "Wait", m) /\ ~Stranded(notifs[m].waiter))'
    BY <1>4, <1>10, <1>11, <2>2 DEF IInv, Registrations
  <2> QED BY <2>3, <2>4 DEF Registrations
<1>13. CallersOnce'
  BY ZenonT(30), <1>2 DEF IInv, CallersOnce
<1> QED BY <1>6, <1>7, <1>8, <1>9, <1>12, <1>13 DEF IInv

(* Registrations survive a step in which the running thread t blocks, as   *)
(* long as every old registration that remains is of another thread.       *)
LEMMA KeepOthers ==
  ASSUME IInv, NEW t \in Threads, sched.cur = t,
         \A u \in Threads : u # t /\ sched.thr[u] = "Blocked" =>
                              sched'.thr[u] = "Blocked" /\ pc'[u] = pc[u],
         sched'.cur # None \/ sched'.cpu = t
  PROVE  \A u, op, o : Registered(u, op, o) => u # t /\ Registered(u, op, o)' /\ ~Stranded(u)'
<1>1. sched.thr[t] = "Running" /\ \A u : ~Stranded(u)
  BY CallerRuns
<1> SUFFICES ASSUME NEW u, NEW op, NEW o, Registered(u, op, o)
             PROVE  u # t /\ Registered(u, op, o)' /\ ~Stranded(u)'
  OBVIOUS
<1>2. u \in Threads /\ sched.thr[u] = "Blocked" /\ pc[u].op = op /\ pc[u].obj = o
  BY <1>1 DEF Registered
<1>3. u # t
  BY <1>1, <1>2
<1> QED BY <1>2, <1>3 DEF Registered, Stranded

(* What a thread that blocks and hands over the CPU leaves behind. *)
LEMMA BlockAndDispatch ==
  ASSUME IInv, NEW t \in Threads, sched.cur = t, sched.rq # <<>>
  PROVE  LET r == dispatch(block_current(sched, t), t)
         IN  /\ SchedType(r) /\ Consistent(r)
             /\ r.up = sched.up /\ r.cur \in Threads
             /\ r.thr[t] = "Blocked"
             /\ r.cpu = r.cur /\ r.thr[Idle] = sched.thr[Idle]
             /\ \A u \in Threads : u = t \/ r.thr[u] = sched.thr[u]
                                   \/ (r.thr[u] = "Running" /\ sched.thr[u] = "Runnable")
<1> DEFINE b == block_current(sched, t)
           r == dispatch(b, t)
           h == Head(b.rq)
<1>1. SchedType(sched) /\ Consistent(sched)
  BY DEF IInv, TypeOK, SchedConsistent
<1>2. /\ SchedType(b) /\ Consistent(b) /\ b.thr = [sched.thr EXCEPT ![t] = "Blocked"]
      /\ b.rq = sched.rq /\ b.cur = None /\ b.cpu = t /\ b.up = sched.up
  BY <1>1, BlockCurrent
<1> HIDE DEF b
<1>3. /\ SchedType(r) /\ Consistent(r) /\ r.thr = [b.thr EXCEPT ![h] = "Running"]
      /\ r.cur = h /\ r.cpu = h /\ r.up = b.up
      /\ h \in Threads /\ h # t /\ b.thr[h] = "Runnable"
  BY ZenonT(40), <1>2, Dispatch
<1> HIDE DEF r, h
<1>4. \A u \in AllThreads :
        r.thr[u] = IF u = h THEN "Running" ELSE IF u = t THEN "Blocked" ELSE sched.thr[u]
  BY <1>1, <1>2, <1>3, Fields DEF AllThreads
<1>5. sched.thr[h] = "Runnable"
  BY <1>1, <1>2, <1>3, Fields DEF AllThreads
<1> QED BY <1>2, <1>3, <1>4, <1>5, IdentitiesDistinct DEF r, b, AllThreads

(* WaitNotification: the waiter blocks and the next thread or the idle     *)
(* thread runs.                                                            *)
LEMMA WaitStep ==
  ASSUME IInv, NEW t \in Threads, NEW n \in Notifications, Wait(t, n)
  PROVE  IInv' /\ sched'.up = sched.up
<1>1. /\ SchedType(sched) /\ Consistent(sched) /\ sched.cur = t
      /\ UNCHANGED <<eps, inbox, held, ncalls>> /\ notifs' = [notifs EXCEPT ![n] = wait(@, t)]
  BY DEF IInv, TypeOK, SchedConsistent, Wait, Syscall
<1>2. sched.thr[t] = "Running" /\ sched.cur # None /\ \A u : ~Stranded(u)
  BY <1>1, CallerRuns
<1>3. notifs' \in [Notifications -> NotificationType]
  BY <1>1, NotificationOps DEF IInv, TypeOK
<1>4. CASE ~wait_blocks(notifs[n])
  <2>1. sched' = sched /\ pc' = pc
    BY <1>4 DEF Wait
  <2>2. \A m \in Notifications : notifs'[m].waiter = notifs[m].waiter
    BY <1>1, <1>4, NotificationOps DEF IInv, TypeOK
  <2>3. Registrations' /\ CallersOnce'
    BY <1>1, <1>2, <2>1, <2>2, KeepRegistrations
  <2>4. TypeOK' /\ SchedConsistent' /\ ThreadsAlive' /\ PcShape' /\ EndpointShape'
    BY <1>1, <1>3, <2>1 DEF IInv, TypeOK, SchedConsistent, ThreadsAlive, PcShape, EndpointShape
  <2> QED BY <2>1, <2>3, <2>4 DEF IInv
<1>5. CASE wait_blocks(notifs[n])
  <2> DEFINE b == block_current(sched, t)
  <2>1. pc' = [pc EXCEPT ![t] = In("Wait", n, <<>>)]
    BY <1>5 DEF Wait
  <2>2. /\ SchedType(b) /\ Consistent(b) /\ b.thr = [sched.thr EXCEPT ![t] = "Blocked"]
        /\ b.rq = sched.rq /\ b.cur = None /\ b.cpu = t /\ b.up = sched.up
    BY <1>1, BlockCurrent
  <2>3. /\ SchedType(sched') /\ Consistent(sched')
        /\ sched'.up = sched.up /\ sched'.cur \in AllThreads
        /\ sched'.thr[t] = "Blocked" /\ sched'.thr[Idle] \in {"Runnable", "Running"}
        /\ \A u \in Threads : u = t \/ sched'.thr[u] = sched.thr[u]
                              \/ (sched'.thr[u] = "Running" /\ sched.thr[u] = "Runnable")
    <3>1. CASE sched.rq = <<>>
      <4>1. sched' = switch_to_next([b EXCEPT !.cur = Idle], Idle)
        BY <1>5, <2>2, <3>1 DEF Wait
      <4> HIDE DEF b
      <4>2. b.thr[Idle] \in {"Runnable", "Running"} /\ b.thr[t] = "Blocked"
            /\ \A u \in Threads : u # t => b.thr[u] = sched.thr[u]
        BY <1>1, <2>2, Fields, IdentitiesDistinct DEF IInv, ThreadsAlive, AllThreads
      <4> DEFINE r == switch_to_next([b EXCEPT !.cur = Idle], Idle)
      <4>3. /\ SchedType(r) /\ Consistent(r)
            /\ \A u \in Threads : r.thr[u] = b.thr[u]
            /\ b.thr[Idle] \in {"Runnable", "Running"} => r.thr[Idle] = "Running"
            /\ r.cur = Idle /\ r.up = b.up
        BY <2>2, SwitchToIdle
      <4> HIDE DEF r
      <4> QED BY ZenonT(30), <2>2, <4>1, <4>2, <4>3 DEF AllThreads, r
    <3>2. CASE sched.rq # <<>>
      <4>1. sched' = dispatch(b, t)
        BY <1>5, <2>2, <3>2 DEF Wait
      <4>2. sched.thr[Idle] \in {"Runnable", "Running"} /\ Idle # t
        BY IdentitiesDistinct DEF IInv, ThreadsAlive
      <4> QED BY <1>1, <3>2, <4>1, <4>2, BlockAndDispatch DEF AllThreads
    <3> QED BY <3>1, <3>2
  <2>4. sched'.cur # None
    BY <2>3, IdentitiesDistinct DEF AllThreads
  <2>5. \A u \in Threads : pc'[u] = IF u = t THEN In("Wait", n, <<>>) ELSE pc[u]
    BY <2>1 DEF IInv, TypeOK
  <2>6. TypeOK' /\ SchedConsistent'
    <3>1. In("Wait", n, <<>>) \in [op : {"User", "Call", "Receive", "Wait"},
                                   obj : Endpoints \cup Notifications \cup {None},
                                   msg : Message \cup {<<>>}]
      BY DEF In
    <3> QED BY <1>1, <1>3, <2>1, <2>3, <3>1 DEF IInv, TypeOK, SchedConsistent
  <2>7. ThreadsAlive'
    BY <2>3 DEF IInv, ThreadsAlive
  <2>8. PcShape' /\ EndpointShape'
    BY <1>1, <2>4, <2>5 DEF IInv, PcShape, EndpointShape, In
  <2>9. \A u, op, o : Registered(u, op, o) => u # t /\ Registered(u, op, o)' /\ ~Stranded(u)'
    <3>1. \A u \in Threads : u # t /\ sched.thr[u] = "Blocked" => sched'.thr[u] = "Blocked" /\ pc'[u] = pc[u]
      BY <2>3, <2>5
    <3> QED BY <1>1, <2>4, <3>1, KeepOthers
  <2>10. Registered(t, "Wait", n)' /\ ~Stranded(t)'
    BY <2>3, <2>4, <2>5 DEF Registered, Stranded, In
  <2>11. Registrations'
    <3>1. \A m \in Notifications : notifs'[m].waiter = IF m = n THEN t ELSE notifs[m].waiter
      BY ZenonT(30), <1>1, <1>5, NotificationOps DEF IInv, TypeOK
    <3>2. (\A m \in Notifications : notifs[m].waiter # None =>
             Registered(notifs[m].waiter, "Wait", m) /\ ~Stranded(notifs[m].waiter))'
      BY <2>9, <2>10, <3>1 DEF IInv, Registrations
    <3> QED BY <1>1, <2>9, <3>2 DEF IInv, Registrations
  <2>12. CallersOnce'
    BY ZenonT(30), <1>1 DEF IInv, CallersOnce
  <2> QED BY <2>3, <2>6, <2>7, <2>8, <2>11, <2>12 DEF IInv
<1> QED BY <1>4, <1>5

(* A woken waiter takes the signals. *)
LEMMA ResumeWaitStep ==
  ASSUME IInv, NEW t \in Threads, ResumeWait(t)
  PROVE  IInv' /\ sched' = sched
<1>1. sched.cur = t /\ sched' = sched /\ eps' = eps /\ inbox' = inbox /\ held' = held /\ ncalls' = ncalls
  BY ResumerRuns DEF ResumeWait, Resuming
<1>2. sched.thr[t] = "Running" /\ sched.cur # None /\ \A u : ~Stranded(u)
  BY <1>1, CallerRuns
<1>3. pc' = [pc EXCEPT ![t] = User] /\ notifs' = [notifs EXCEPT ![pc[t].obj] = take_signals(@)]
  BY DEF ResumeWait
<1>4. TypeOK' /\ SchedConsistent'
  BY <1>1, <1>3, NotificationOps DEF IInv, TypeOK, SchedConsistent, User
<1>5. \A u \in Threads : pc'[u] = IF u = t THEN User ELSE pc[u]
  BY <1>3 DEF IInv, TypeOK
<1>6. ThreadsAlive' /\ EndpointShape'
  BY <1>1 DEF IInv, ThreadsAlive, EndpointShape
<1>7. PcShape'
  BY <1>1, <1>2, <1>5 DEF IInv, PcShape, User
<1>8. \A m \in Notifications : notifs'[m].waiter = notifs[m].waiter
  BY <1>3, NotificationOps DEF IInv, TypeOK
<1>9. Registrations' /\ CallersOnce'
  BY <1>1, <1>2, <1>5, <1>8, KeepRegistrations
<1> QED BY <1>1, <1>4, <1>6, <1>7, <1>9 DEF IInv

(* A woken receiver takes the call that was left for it. *)
LEMMA ResumeReceiveStep ==
  ASSUME IInv, NEW t \in Threads, ResumeReceive(t)
  PROVE  IInv' /\ sched' = sched
<1> DEFINE e == pc[t].obj
<1>1. sched.cur = t /\ sched' = sched /\ notifs' = notifs /\ inbox' = inbox /\ ncalls' = ncalls
  BY ResumerRuns DEF ResumeReceive, Resuming
<1>2. sched.thr[t] = "Running" /\ sched.cur # None /\ \A u : ~Stranded(u)
  BY <1>1, CallerRuns
<1>3. e \in Endpoints
  BY DEF ResumeReceive, Resuming, IInv, PcShape
<1>4. pc' = [pc EXCEPT ![t] = User]
  BY DEF ResumeReceive
<1>5. /\ eps' \in [Endpoints -> EndpointType]
      /\ held' \in [Threads -> SUBSET (Token \X Message)]
      /\ \A f \in Endpoints : /\ eps'[f].receiver = eps[f].receiver
                              /\ eps'[f].caller = eps[f].caller
                              /\ eps'[f].callers = eps[f].callers
                              /\ eps'[f].state = eps[f].state
                              /\ eps'[f].token = eps[f].token
  <2>1. CASE has_received_call(eps[e])
    <3>1. eps' = [eps EXCEPT ![e] = take_received_call(@)]
          /\ held' = [held EXCEPT ![t] = @ \cup {<<eps[e].token, eps[e].message>>}]
      BY <2>1 DEF ResumeReceive
    <3>2. eps[e].token \in Token /\ eps[e].message \in Message
      BY <1>3, <2>1 DEF IInv, TypeOK, EndpointType, EndpointShape, has_received_call
    <3>3. eps[e] \in EndpointType
      BY <1>3 DEF IInv, TypeOK
    <3>4. /\ take_received_call(eps[e]) \in EndpointType
          /\ take_received_call(eps[e]).receiver = eps[e].receiver
          /\ take_received_call(eps[e]).caller = eps[e].caller
          /\ take_received_call(eps[e]).callers = eps[e].callers
          /\ take_received_call(eps[e]).state = eps[e].state
          /\ take_received_call(eps[e]).token = eps[e].token
      BY <3>3 DEF EndpointType, take_received_call
    <3>5. eps' \in [Endpoints -> EndpointType] /\ \A f \in Endpoints : eps'[f] = IF f = e THEN take_received_call(eps[e]) ELSE eps[f]
      BY <1>3, <3>1, <3>4 DEF IInv, TypeOK
    <3>6. held' \in [Threads -> SUBSET (Token \X Message)]
      BY <3>1, <3>2 DEF IInv, TypeOK
    <3> QED BY <3>4, <3>5, <3>6
  <2>2. CASE ~has_received_call(eps[e])
    BY <2>2 DEF ResumeReceive, IInv, TypeOK
  <2> QED BY <2>1, <2>2
<1>6. TypeOK' /\ SchedConsistent'
  BY <1>1, <1>4, <1>5 DEF IInv, TypeOK, SchedConsistent, User
<1>7. \A u \in Threads : pc'[u] = IF u = t THEN User ELSE pc[u]
  BY <1>4 DEF IInv, TypeOK
<1>8. ThreadsAlive' /\ EndpointShape'
  BY <1>1, <1>5 DEF IInv, ThreadsAlive, EndpointShape
<1>9. PcShape'
  BY <1>1, <1>2, <1>7 DEF IInv, PcShape, User
<1>10. Registrations' /\ CallersOnce'
  BY <1>1, <1>2, <1>5, <1>7, KeepRegistrations
<1> QED BY <1>1, <1>6, <1>8, <1>9, <1>10 DEF IInv
-----------------------------------------------------------------------------
(* What Endpoint::call, receive and reply do to an endpoint. *)
LEMMA CallDelivers ==
  ASSUME NEW ep \in EndpointType, NEW t \in Threads, NEW m \in Message,
         ep.state = "ReceiverWaiting"
  PROVE  /\ call(ep, t, m) \in EndpointType
         /\ call(ep, t, m).state = "ReplyOutstanding" /\ call(ep, t, m).token \in Token
         /\ call(ep, t, m).receiver = None /\ call(ep, t, m).caller = t
         /\ call(ep, t, m).callers = ep.callers
<1>1. <<t, ep.seq + 1>> \in Token
  BY DEF EndpointType, Token
<1>2. call(ep, t, m) = [ep EXCEPT !.state = "ReplyOutstanding", !.receiver = None, !.caller = t,
                          !.token = <<t, ep.seq + 1>>, !.message = m, !.seq = ep.seq + 1]
  BY DEF call, make_reply_token, EndpointType
<1> DEFINE k == <<t, ep.seq + 1>>
<1>3. ep.seq + 1 \in Nat
  BY DEF EndpointType
<1> HIDE DEF k
<1>4. call(ep, t, m) \in EndpointType
  BY ZenonT(30), <1>1, <1>2, <1>3 DEF EndpointType, EndpointState, k
<1>5. /\ call(ep, t, m).state = "ReplyOutstanding" /\ call(ep, t, m).token = k
      /\ call(ep, t, m).receiver = None /\ call(ep, t, m).caller = t
      /\ call(ep, t, m).callers = ep.callers
  BY <1>2 DEF EndpointType, k
<1> QED BY <1>1, <1>4, <1>5 DEF k

(* Endpoint::call without a waiting receiver queues the caller last. *)
LEMMA CallQueues ==
  ASSUME NEW ep \in EndpointType, NEW t \in Threads, NEW m \in Message,
         ep.state # "ReceiverWaiting"
  PROVE  /\ call(ep, t, m) \in EndpointType
         /\ call(ep, t, m).state = IF ep.state = "Idle" THEN "CallersPending" ELSE ep.state
         /\ call(ep, t, m).token = ep.token
         /\ call(ep, t, m).receiver = ep.receiver /\ call(ep, t, m).caller = ep.caller
         /\ call(ep, t, m).callers = Append(ep.callers, [caller |-> t, message |-> m])
<1>1. Append(ep.callers, [caller |-> t, message |-> m]) \in Seq([caller : Threads, message : Message])
  BY DEF EndpointType
<1>2. call(ep, t, m) = [ep EXCEPT !.state = IF @ = "Idle" THEN "CallersPending" ELSE @,
                          !.callers = Append(ep.callers, [caller |-> t, message |-> m])]
  BY DEF call, EndpointType
<1> QED BY ZenonT(30), <1>1, <1>2 DEF EndpointType, EndpointState

(* Endpoint::receive on an idle endpoint registers the receiver. *)
LEMMA ReceiveBlocks ==
  ASSUME NEW ep \in EndpointType, NEW t \in Threads, ep.state = "Idle"
  PROVE  /\ receive(ep, t) \in EndpointType
         /\ receive(ep, t).state = "ReceiverWaiting" /\ receive(ep, t).token = ep.token
         /\ receive(ep, t).receiver = t /\ receive(ep, t).caller = ep.caller
         /\ receive(ep, t).callers = ep.callers
  BY DEF receive, EndpointType, EndpointState

(* The queue of callers stays a sequence when its head is taken. *)
LEMMA HeadTail ==
  ASSUME NEW S, NEW q \in Seq(S), q # <<>>
  PROVE  Head(q) \in S /\ Tail(q) \in Seq(S)
  OBVIOUS

(* Endpoint::receive takes the first queued caller and issues its token. *)
LEMMA ReceiveTakes ==
  ASSUME NEW ep \in EndpointType, NEW t \in Threads, ep.state = "CallersPending", ep.callers # <<>>
  PROVE  /\ Head(ep.callers) \in [caller : Threads, message : Message]
         /\ make_reply_token(ep, Head(ep.callers).caller) \in Token
         /\ receive(ep, t) \in EndpointType
         /\ receive(ep, t).state = "ReplyOutstanding" /\ receive(ep, t).token \in Token
         /\ receive(ep, t).receiver = ep.receiver
         /\ receive(ep, t).caller = Head(ep.callers).caller
         /\ receive(ep, t).callers = Tail(ep.callers)
<1> DEFINE h == Head(ep.callers)
<1>1. h \in [caller : Threads, message : Message] /\ Tail(ep.callers) \in Seq([caller : Threads, message : Message])
  <2>1. ep.callers \in Seq([caller : Threads, message : Message])
    BY DEF EndpointType
  <2> QED BY <2>1, HeadTail
<1> HIDE DEF h
<1>2. h.caller \in Threads /\ ep.seq + 1 \in Nat
  BY <1>1 DEF EndpointType
<1> DEFINE k == make_reply_token(ep, h.caller)
<1>4. k \in Token
  BY <1>2 DEF Token, make_reply_token
<1>3. receive(ep, t) = [ep EXCEPT !.state = "ReplyOutstanding", !.callers = Tail(ep.callers),
                          !.caller = h.caller, !.token = k, !.seq = ep.seq + 1]
  BY DEF receive, EndpointType, h
<1> HIDE DEF k
<1>5. receive(ep, t) \in EndpointType
  BY ZenonT(30), <1>1, <1>2, <1>3, <1>4 DEF EndpointType, EndpointState
<1>6. /\ receive(ep, t).state = "ReplyOutstanding" /\ receive(ep, t).token = k
      /\ receive(ep, t).receiver = ep.receiver
      /\ receive(ep, t).caller = h.caller
      /\ receive(ep, t).callers = Tail(ep.callers)
  BY <1>3 DEF EndpointType
<1> QED BY <1>1, <1>4, <1>5, <1>6 DEF h, k

(* Endpoint::reply forgets the caller it answers and keeps the queue. *)
LEMMA ReplyFrees ==
  ASSUME NEW ep \in EndpointType
  PROVE  /\ reply(ep) \in EndpointType
         /\ reply(ep).state = IF ep.callers = <<>> THEN "Idle" ELSE "CallersPending"
         /\ reply(ep).receiver = ep.receiver /\ reply(ep).caller = None
         /\ reply(ep).callers = ep.callers
  BY DEF reply, EndpointType, EndpointState
-----------------------------------------------------------------------------
(* OperationCode::Receive: a queued call becomes the outstanding one, or   *)
(* the receiver blocks and is registered.                                  *)
LEMMA ReceiveStep ==
  ASSUME IInv, NEW t \in Threads, NEW e \in Endpoints, Receive(t, e)
  PROVE  IInv' /\ sched'.up = sched.up
<1> DEFINE ep == eps[e]
<1>1. /\ SchedType(sched) /\ Consistent(sched) /\ sched.cur = t /\ ep \in EndpointType
      /\ UNCHANGED <<notifs, inbox, ncalls>> /\ eps' = [eps EXCEPT ![e] = receive(ep, t)]
  BY DEF IInv, TypeOK, SchedConsistent, Receive, Syscall
<1>2. sched.thr[t] = "Running" /\ sched.cpu = t /\ sched.cur # None /\ \A u : ~Stranded(u)
  BY <1>1, CallerRuns
<1>3. \A f \in Endpoints : eps'[f] = IF f = e THEN receive(ep, t) ELSE eps[f]
  BY <1>1 DEF IInv, TypeOK
<1>4. CASE ep.state = "CallersPending"
  <2> DEFINE h == Head(ep.callers)
             q == ep.callers
             r == Tail(ep.callers)
  <2>1. q # <<>> /\ ep.receiver = None
    BY <1>4 DEF IInv, EndpointShape
  <2>2. /\ sched' = sched /\ pc' = pc
        /\ held' = [held EXCEPT ![t] = @ \cup {<<make_reply_token(ep, h.caller), h.message>>}]
    BY <1>4 DEF Receive
  <2>3. /\ h \in [caller : Threads, message : Message]
        /\ make_reply_token(ep, h.caller) \in Token
        /\ receive(ep, t) \in EndpointType
        /\ receive(ep, t).state = "ReplyOutstanding" /\ receive(ep, t).token \in Token
        /\ receive(ep, t).receiver = ep.receiver
        /\ receive(ep, t).caller = h.caller
        /\ receive(ep, t).callers = r
    BY <1>1, <1>4, <2>1, ReceiveTakes
  <2>4. /\ Len(q) \in Nat /\ h = q[1] /\ 1 \in 1..Len(q)
        /\ \A i \in 1..Len(r) : i \in Nat /\ i + 1 \in 1..Len(q) /\ i + 1 # 1 /\ r[i] = q[i + 1]
    BY <1>1, <2>1 DEF EndpointType
  <2>5. TypeOK' /\ SchedConsistent' /\ ThreadsAlive' /\ PcShape'
    <3>1. eps' \in [Endpoints -> EndpointType]
      BY <1>1, <2>3 DEF IInv, TypeOK
    <3>2. held' \in [Threads -> SUBSET (Token \X Message)]
      BY <2>2, <2>3 DEF IInv, TypeOK
    <3> QED BY <1>1, <2>2, <3>1, <3>2 DEF IInv, TypeOK, SchedConsistent, ThreadsAlive, PcShape
  <2> HIDE DEF ep, h, q, r
  <2>6. EndpointShape'
    BY ZenonT(30), <1>3, <2>1, <2>3, IdentitiesDistinct DEF IInv, EndpointShape
  <2>7. \A u, op, o : Registered(u, op, o) => Registered(u, op, o)'
    BY <2>2 DEF Registered, Stranded
  <2>8. \A i \in 1..Len(q) : Registered(q[i].caller, "Call", e)
    BY DEF IInv, Registrations, q, ep
  <2>9. Registrations'
    <3>1. (\A f \in Endpoints :
           /\ eps[f].receiver # None => Registered(eps[f].receiver, "Receive", f)
           /\ eps[f].caller # None => Registered(eps[f].caller, "Call", f)
           /\ \A i \in 1..Len(eps[f].callers) : Registered(eps[f].callers[i].caller, "Call", f))'
      <4> SUFFICES ASSUME NEW f \in Endpoints
                   PROVE  (/\ eps[f].receiver # None => Registered(eps[f].receiver, "Receive", f)
                           /\ eps[f].caller # None => Registered(eps[f].caller, "Call", f)
                           /\ \A i \in 1..Len(eps[f].callers) : Registered(eps[f].callers[i].caller, "Call", f))'
        OBVIOUS
      <4>1. CASE f = e
        BY <1>3, <2>1, <2>3, <2>4, <2>7, <2>8, <4>1
      <4>2. CASE f # e
        BY <1>3, <2>7, <4>2 DEF IInv, Registrations
      <4> QED BY <4>1, <4>2
    <3>2. (\A m \in Notifications : notifs[m].waiter # None =>
             Registered(notifs[m].waiter, "Wait", m) /\ ~Stranded(notifs[m].waiter))'
      BY <1>1, <2>2, <2>7 DEF IInv, Registrations, Stranded
    <3> QED BY <3>1, <3>2 DEF Registrations
  <2>10. CallersOnce'
    <3>1. \A i, j \in 1..Len(q) : q[i].caller = q[j].caller => i = j
      BY DEF IInv, CallersOnce, q, ep
    <3>2. \A i \in 1..Len(r) : r[i].caller # h.caller
      BY <2>4, <3>1
    <3>3. \A i, j \in 1..Len(r) : r[i].caller = r[j].caller => i = j
      <4> TAKE i, j \in 1..Len(r)
      <4> HAVE r[i].caller = r[j].caller
      <4>1. i + 1 = j + 1
        BY <2>4, <3>1
      <4> QED BY <4>1, <2>4
    <3> SUFFICES ASSUME NEW f \in Endpoints
                 PROVE  (\A i \in 1..Len(eps[f].callers) :
                           /\ eps[f].callers[i].caller # eps[f].caller
                           /\ \A j \in 1..Len(eps[f].callers) :
                                eps[f].callers[i].caller = eps[f].callers[j].caller => i = j)'
      BY DEF CallersOnce
    <3>4. CASE f = e
      <4>1. eps'[f].callers = r /\ eps'[f].caller = h.caller
        BY <1>3, <2>3, <3>4
      <4> QED BY <4>1, <3>2, <3>3
    <3>5. CASE f # e
      <4>1. eps'[f] = eps[f]
        BY <1>3, <3>5
      <4> QED BY <4>1 DEF IInv, CallersOnce
    <3> QED BY <3>4, <3>5
  <2> QED BY <2>2, <2>5, <2>6, <2>9, <2>10 DEF IInv
<1>5. CASE ep.state = "Idle"
  <2>1. /\ receive(ep, t) \in EndpointType
        /\ receive(ep, t).state = "ReceiverWaiting" /\ receive(ep, t).token = ep.token
        /\ receive(ep, t).receiver = t /\ receive(ep, t).caller = ep.caller
        /\ receive(ep, t).callers = ep.callers
    BY ZenonT(30), <1>1, <1>5, ReceiveBlocks
  <2>2. /\ SchedType(sched') /\ Consistent(sched') /\ sched'.up = sched.up
        /\ pc' \in [Threads -> [op : {"User", "Call", "Receive", "Wait"},
                                obj : Endpoints \cup Notifications \cup {None},
                                msg : Message \cup {<<>>}]]
        /\ sched'.thr[t] = "Blocked" /\ sched'.thr[Idle] = sched.thr[Idle]
        /\ \A u \in Threads : u = t \/ sched'.thr[u] = sched.thr[u]
                              \/ (sched'.thr[u] = "Running" /\ sched.thr[u] = "Runnable")
        /\ \A u \in Threads : u # t => pc'[u] = pc[u]
        /\ \/ sched'.cur \in Threads /\ pc'[t] = In("Receive", e, <<>>)
           \/ sched'.cur = None /\ sched'.cpu = t /\ pc'[t] = pc[t]
    <3>1. CASE sched.rq = <<>>
      <4>1. block_current(sched, t).rq = <<>>
        BY <1>1, <3>1, BlockCurrent
      <4>2. sched' = block_current(sched, t) /\ pc' = pc
        BY <1>5, <4>1 DEF Receive
      <4>3. /\ SchedType(sched') /\ Consistent(sched') /\ sched'.thr = [sched.thr EXCEPT ![t] = "Blocked"]
            /\ sched'.cur = None /\ sched'.cpu = t /\ sched'.up = sched.up
        BY <1>1, <4>2, BlockCurrent
      <4> QED BY ZenonT(30), <1>1, <4>2, <4>3, Fields, IdentitiesDistinct DEF AllThreads, IInv, TypeOK
    <3>2. CASE sched.rq # <<>>
      <4>1. sched' = dispatch(block_current(sched, t), t) /\ pc' = [pc EXCEPT ![t] = In("Receive", e, <<>>)]
        BY ZenonT(40), <1>1, <1>5, <3>2, BlockCurrent DEF Receive
      <4>2. /\ SchedType(sched') /\ Consistent(sched')
            /\ sched'.up = sched.up /\ sched'.cur \in Threads
            /\ sched'.thr[t] = "Blocked"
            /\ sched'.thr[Idle] = sched.thr[Idle]
            /\ \A u \in Threads : u = t \/ sched'.thr[u] = sched.thr[u]
                                  \/ (sched'.thr[u] = "Running" /\ sched.thr[u] = "Runnable")
        BY <1>1, <3>2, <4>1, BlockAndDispatch
      <4>3. In("Receive", e, <<>>) \in [op : {"User", "Call", "Receive", "Wait"},
                                        obj : Endpoints \cup Notifications \cup {None},
                                        msg : Message \cup {<<>>}]
        BY DEF In
      <4>4. pc \in [Threads -> [op : {"User", "Call", "Receive", "Wait"},
                               obj : Endpoints \cup Notifications \cup {None},
                               msg : Message \cup {<<>>}]]
        BY DEF IInv, TypeOK
      <4>5. /\ pc' \in [Threads -> [op : {"User", "Call", "Receive", "Wait"},
                                    obj : Endpoints \cup Notifications \cup {None},
                                    msg : Message \cup {<<>>}]]
            /\ pc'[t] = In("Receive", e, <<>>)
            /\ \A u \in Threads : u # t => pc'[u] = pc[u]
        BY <4>1, <4>3, <4>4
      <4> QED BY <4>2, <4>5
    <3> QED BY <3>1, <3>2
  <2> HIDE DEF ep
  <2>3. TypeOK' /\ SchedConsistent'
    <3>1. eps' \in [Endpoints -> EndpointType]
      BY <1>1, <2>1 DEF IInv, TypeOK
    <3>2. held' = held
      BY <1>5 DEF Receive, ep
    <3> QED BY <1>1, <2>2, <3>1, <3>2 DEF IInv, TypeOK, SchedConsistent
  <2>4. ThreadsAlive'
    BY <2>2 DEF IInv, ThreadsAlive
  <2>5. PcShape'
    <3>1. pc[t].op = "User"
      BY DEF Receive, Syscall
    <3> QED BY <2>2, <3>1, IdentitiesDistinct DEF IInv, PcShape, In
  <2>6. EndpointShape'
    <3>1. ep.caller = None
      BY <1>5 DEF IInv, EndpointShape, ep
    <3> QED BY ZenonT(30), <1>3, <2>1, <3>1 DEF IInv, EndpointShape
  <2>7. \A u, op, o : Registered(u, op, o) => u # t /\ Registered(u, op, o)' /\ ~Stranded(u)'
    <3>1. \A u \in Threads : u # t /\ sched.thr[u] = "Blocked" => sched'.thr[u] = "Blocked" /\ pc'[u] = pc[u]
      BY <2>2
    <3>2. sched'.cur # None \/ sched'.cpu = t
      BY <2>2, IdentitiesDistinct
    <3> QED BY <1>1, <3>1, <3>2, KeepOthers
  <2>8. Registered(t, "Receive", e)'
    BY <2>2 DEF Registered, Stranded, In
  <2>9. Registrations'
    <3>1. (\A f \in Endpoints :
           /\ eps[f].receiver # None => Registered(eps[f].receiver, "Receive", f)
           /\ eps[f].caller # None => Registered(eps[f].caller, "Call", f)
           /\ \A i \in 1..Len(eps[f].callers) : Registered(eps[f].callers[i].caller, "Call", f))'
      <4> SUFFICES ASSUME NEW f \in Endpoints
                   PROVE  (/\ eps[f].receiver # None => Registered(eps[f].receiver, "Receive", f)
                           /\ eps[f].caller # None => Registered(eps[f].caller, "Call", f)
                           /\ \A i \in 1..Len(eps[f].callers) : Registered(eps[f].callers[i].caller, "Call", f))'
        OBVIOUS
      <4>1. /\ eps[f].caller # None => Registered(eps[f].caller, "Call", f)
            /\ \A i \in 1..Len(eps[f].callers) : Registered(eps[f].callers[i].caller, "Call", f)
            /\ eps[f].receiver # None => Registered(eps[f].receiver, "Receive", f)
        BY DEF IInv, Registrations
      <4>2. eps'[f].caller = eps[f].caller /\ eps'[f].callers = eps[f].callers
            /\ eps'[f].receiver = IF f = e THEN t ELSE eps[f].receiver
        BY <1>3, <2>1 DEF ep
      <4> QED BY <2>7, <2>8, <4>1, <4>2
    <3>2. (\A m \in Notifications : notifs[m].waiter # None =>
             Registered(notifs[m].waiter, "Wait", m) /\ ~Stranded(notifs[m].waiter))'
      BY <1>1, <2>7 DEF IInv, Registrations
    <3> QED BY <3>1, <3>2 DEF Registrations
  <2>10. CallersOnce'
    <3>1. \A f \in Endpoints : eps'[f].callers = eps[f].callers /\ eps'[f].caller = eps[f].caller
      BY <1>3, <2>1 DEF ep
    <3> QED BY <3>1 DEF IInv, CallersOnce
  <2> QED BY <2>2, <2>3, <2>4, <2>5, <2>6, <2>9, <2>10 DEF IInv
<1>6. ep.state \in {"Idle", "CallersPending"}
  BY DEF Receive, receive_ok
<1> QED BY <1>4, <1>5, <1>6
-----------------------------------------------------------------------------
(* The scheduler's part of OperationCode::Call: the caller blocks, a       *)
(* waiting receiver r is woken, and the next thread runs if there is one.  *)
LEMMA CallSched ==
  ASSUME IInv, NEW t \in Threads, NEW e \in Endpoints, Call(t, e)
  PROVE  LET r == eps[e].receiver
         IN  /\ SchedType(sched') /\ Consistent(sched') /\ sched'.up = sched.up
             /\ pc' \in [Threads -> [op : {"User", "Call", "Receive", "Wait"},
                                     obj : Endpoints \cup Notifications \cup {None},
                                     msg : Message \cup {<<>>}]]
             /\ inbox' \in [Threads -> Message \cup {<<>>}]
             /\ sched'.thr[t] = "Blocked" /\ sched'.thr[Idle] = sched.thr[Idle]
             /\ \A u \in Threads : \/ u = t
                                   \/ sched'.thr[u] = sched.thr[u]
                                   \/ sched'.thr[u] = "Running" /\ sched.thr[u] = "Runnable"
                                   \/ u = r /\ sched'.thr[u] \in {"Runnable", "Running"}
             /\ \A u \in Threads : u # t => pc'[u] = pc[u]
             /\ \/ sched'.cur \in Threads /\ pc'[t].op = "Call" /\ pc'[t].obj = e
                \/ sched'.cur = None /\ sched'.cpu = t /\ pc'[t] = pc[t]
<1> DEFINE r == eps[e].receiver
           b == block_current(sched, t)
           wk == IF r = None THEN b ELSE apply_wake(b, r)
           m == <<t, ncalls[t] + 1, e>>
<1>1. SchedType(sched) /\ Consistent(sched) /\ sched.cur = t
  BY DEF IInv, TypeOK, SchedConsistent, Call, Syscall
<1>2. /\ SchedType(b) /\ Consistent(b) /\ b.thr = [sched.thr EXCEPT ![t] = "Blocked"]
      /\ b.rq = sched.rq /\ b.cur = None /\ b.cpu = t /\ b.up = sched.up
      /\ sched.thr[t] = "Running"
  BY <1>1, BlockCurrent
<1>3. r # None => r \in Threads /\ sched.thr[r] = "Blocked" /\ r # t
  BY <1>2 DEF IInv, Registrations, Registered
<1>4. ~(r # None /\ sched.thr[r] = "Absent")
  BY <1>3
<1>5. IF wk.rq = <<>>
      THEN sched' = wk /\ inbox' = [inbox EXCEPT ![t] = <<>>] /\ pc' = pc
      ELSE sched' = dispatch(wk, t) /\ pc' = [pc EXCEPT ![t] = In("Call", e, m)] /\ inbox' = inbox
  BY <1>4 DEF Call
<1>6. m \in Message
  BY DEF Message, IInv, TypeOK
<1> HIDE DEF b, m
<1>7. \A u \in AllThreads : b.thr[u] = IF u = t THEN "Blocked" ELSE sched.thr[u]
  BY <1>1, <1>2, Fields
<1>8. /\ SchedType(wk) /\ Consistent(wk) /\ wk.cur = None /\ wk.cpu = t /\ wk.up = sched.up
      /\ \A u \in AllThreads : \/ wk.thr[u] = b.thr[u]
                               \/ u = r /\ r # None /\ wk.thr[u] = "Runnable"
  <2>1. CASE r # None /\ Len(b.rq) < Capacity
    <3>0. r \in Threads /\ sched.thr[r] = "Blocked" /\ r # t
      BY <1>3, <2>1
    <3> HIDE DEF r
    <3>4. b.thr[r] = "Blocked"
      BY <1>7, <3>0 DEF AllThreads
    <3>1. b.thr[r] = "Blocked" /\ r # b.cpu /\ r \in Threads
      BY <1>2, <3>0, <3>4
    <3>2. /\ SchedType(apply_wake(b, r)) /\ Consistent(apply_wake(b, r))
          /\ apply_wake(b, r).thr = [b.thr EXCEPT ![r] = "Runnable"]
          /\ apply_wake(b, r).cur = b.cur /\ apply_wake(b, r).cpu = b.cpu /\ apply_wake(b, r).up = b.up
      <4>1. SchedType(b) /\ Consistent(b) /\ Len(b.rq) < Capacity
        BY <1>2, <2>1
      <4> HIDE DEF wk
      <4> QED BY <3>1, <4>1, ApplyWakeFields
    <3>3. wk = apply_wake(b, r)
      BY <2>1 DEF wk
    <3> HIDE DEF wk
    <3> QED BY ZenonT(30), <1>2, <2>1, <3>2, <3>3, Fields
  <2>2. CASE ~(r # None /\ Len(b.rq) < Capacity)
    <3>1. wk = b
      BY <2>2 DEF apply_wake
    <3> QED BY <1>2, <3>1
  <2> QED BY <2>1, <2>2
<1> HIDE DEF wk
<1>9. \A u \in Threads : \/ u = t /\ wk.thr[u] = "Blocked"
                         \/ u # t /\ wk.thr[u] = sched.thr[u]
                         \/ u = r /\ r # t /\ wk.thr[u] = "Runnable"
  BY <1>3, <1>7, <1>8 DEF AllThreads
<1>10. wk.thr[Idle] = sched.thr[Idle] /\ wk.thr[t] = "Blocked"
  BY ZenonT(30), <1>3, <1>7, <1>8, IdentitiesDistinct DEF AllThreads
<1>11. CASE wk.rq = <<>>
  <2>1. pc' = pc /\ sched' = wk /\ inbox' = [inbox EXCEPT ![t] = <<>>]
    BY <1>5, <1>11
  <2>2. inbox' \in [Threads -> Message \cup {<<>>}]
    BY <2>1 DEF IInv, TypeOK
  <2>3. pc \in [Threads -> [op : {"User", "Call", "Receive", "Wait"},
                            obj : Endpoints \cup Notifications \cup {None},
                            msg : Message \cup {<<>>}]]
    BY DEF IInv, TypeOK
  <2> HIDE DEF r
  <2> QED BY <1>8, <1>9, <1>10, <2>1, <2>2, <2>3 DEF r
<1>12. CASE wk.rq # <<>>
  <2> DEFINE h == Head(wk.rq)
             d == dispatch(wk, t)
  <2>1. /\ SchedType(d) /\ Consistent(d) /\ d.thr = [wk.thr EXCEPT ![h] = "Running"]
        /\ d.cur = h /\ d.cpu = h /\ d.up = wk.up
        /\ h \in Threads /\ h # wk.cpu /\ wk.thr[h] = "Runnable"
    BY <1>8, <1>12, Dispatch
  <2>2. pc' = [pc EXCEPT ![t] = In("Call", e, m)] /\ sched' = d /\ inbox' = inbox
    BY <1>5, <1>12
  <2> HIDE DEF d, h
  <2>3. \A u \in AllThreads : d.thr[u] = IF u = h THEN "Running" ELSE wk.thr[u]
    BY <1>8, <2>1, Fields DEF AllThreads
  <2>4. In("Call", e, m) \in [op : {"User", "Call", "Receive", "Wait"},
                              obj : Endpoints \cup Notifications \cup {None},
                              msg : Message \cup {<<>>}]
    BY <1>6 DEF In
  <2>5. pc' \in [Threads -> [op : {"User", "Call", "Receive", "Wait"},
                             obj : Endpoints \cup Notifications \cup {None},
                             msg : Message \cup {<<>>}]]
        /\ (\A u \in Threads : u # t => pc'[u] = pc[u]) /\ pc'[t] = In("Call", e, m)
        /\ inbox' \in [Threads -> Message \cup {<<>>}]
    BY <2>2, <2>4 DEF IInv, TypeOK
  <2>6. pc'[t].op = "Call" /\ pc'[t].obj = e
    BY <2>5 DEF In
  <2>7. d.thr[t] = "Blocked" /\ d.thr[Idle] = sched.thr[Idle]
    BY ZenonT(30), <1>8, <1>10, <2>1, <2>3, IdentitiesDistinct DEF AllThreads
  <2>8. \A u \in Threads : \/ u = t
                           \/ d.thr[u] = sched.thr[u]
                           \/ d.thr[u] = "Running" /\ sched.thr[u] = "Runnable"
                           \/ u = r /\ d.thr[u] \in {"Runnable", "Running"}
    BY ZenonT(40), <1>9, <2>1, <2>3 DEF AllThreads
  <2> HIDE DEF r
  <2> QED BY ZenonT(30), <1>8, <2>1, <2>2, <2>5, <2>6, <2>7, <2>8 DEF r
<1> QED BY <1>11, <1>12

(* OperationCode::Call *)
LEMMA CallStep ==
  ASSUME IInv, NEW t \in Threads, NEW e \in Endpoints, Call(t, e)
  PROVE  IInv' /\ sched'.up = sched.up
<1> DEFINE ep == eps[e]
           m == <<t, ncalls[t] + 1, e>>
           r == ep.receiver
           c == call(ep, t, m)
<1>1. /\ sched.cur = t /\ pc[t].op = "User" /\ UNCHANGED <<notifs, held>>
      /\ eps' = [eps EXCEPT ![e] = c] /\ ncalls' = [ncalls EXCEPT ![t] = @ + 1]
  BY DEF Call, Syscall
<1>2. /\ SchedType(sched') /\ Consistent(sched') /\ sched'.up = sched.up
      /\ pc' \in [Threads -> [op : {"User", "Call", "Receive", "Wait"},
                              obj : Endpoints \cup Notifications \cup {None},
                              msg : Message \cup {<<>>}]]
      /\ inbox' \in [Threads -> Message \cup {<<>>}]
      /\ sched'.thr[t] = "Blocked" /\ sched'.thr[Idle] = sched.thr[Idle]
      /\ \A u \in Threads : \/ u = t
                            \/ sched'.thr[u] = sched.thr[u]
                            \/ sched'.thr[u] = "Running" /\ sched.thr[u] = "Runnable"
                            \/ u = r /\ sched'.thr[u] \in {"Runnable", "Running"}
      /\ \A u \in Threads : u # t => pc'[u] = pc[u]
      /\ \/ sched'.cur \in Threads /\ pc'[t].op = "Call" /\ pc'[t].obj = e
         \/ sched'.cur = None /\ sched'.cpu = t /\ pc'[t] = pc[t]
  BY ZenonT(30), CallSched
<1>3. ep \in EndpointType /\ m \in Message
  BY DEF IInv, TypeOK, Message
<1>4. sched.thr[t] = "Running" /\ sched.cur # None /\ \A u : ~Stranded(u)
  BY <1>1, CallerRuns
<1> HIDE DEF m
<1>5. c \in EndpointType
  BY <1>3, CallDelivers, CallQueues
<1>6. ep.state = "ReceiverWaiting" =>
        /\ c.state = "ReplyOutstanding" /\ c.token \in Token
        /\ c.receiver = None /\ c.caller = t /\ c.callers = ep.callers
  BY <1>3, CallDelivers
<1>7. ep.state # "ReceiverWaiting" =>
        /\ c.state = IF ep.state = "Idle" THEN "CallersPending" ELSE ep.state
        /\ c.token = ep.token
        /\ c.receiver = ep.receiver /\ c.caller = ep.caller
        /\ c.callers = Append(ep.callers, [caller |-> t, message |-> m])
  BY ZenonT(30), <1>3, CallQueues
<1> HIDE DEF c
<1>8. \A f \in Endpoints : eps'[f] = IF f = e THEN c ELSE eps[f]
  BY <1>1 DEF IInv, TypeOK
<1>9. TypeOK' /\ SchedConsistent'
  <2>1. eps' \in [Endpoints -> EndpointType]
    BY <1>1, <1>5 DEF IInv, TypeOK
  <2>2. ncalls' \in [Threads -> Nat]
    BY <1>1 DEF IInv, TypeOK
  <2> QED BY <1>1, <1>2, <2>1, <2>2 DEF IInv, TypeOK, SchedConsistent
<1>10. ThreadsAlive'
  BY <1>2 DEF IInv, ThreadsAlive
<1>11. PcShape'
  BY <1>1, <1>2, IdentitiesDistinct DEF IInv, PcShape
<1>12. /\ ep.receiver # None => ep.state = "ReceiverWaiting"
       /\ ep.state = "ReplyOutstanding" => ep.caller # None /\ ep.token \in Token
       /\ ep.caller # None => ep.state = "ReplyOutstanding"
       /\ ep.state = "CallersPending" => ep.callers # <<>>
  BY DEF IInv, EndpointShape
<1>13. /\ Len(ep.callers) \in Nat
       /\ ep.state # "ReceiverWaiting" =>
            /\ c.callers # <<>>
            /\ Len(c.callers) = Len(ep.callers) + 1
            /\ c.callers[Len(ep.callers) + 1].caller = t
            /\ \A i \in 1..Len(ep.callers) : c.callers[i] = ep.callers[i]
  <2>1. ep.callers \in Seq([caller : Threads, message : Message])
    BY <1>3 DEF EndpointType
  <2> HIDE DEF ep
  <2> QED BY <1>7, <2>1
<1>14. EndpointShape'
  <2>1. /\ c.receiver # None => c.state = "ReceiverWaiting"
        /\ c.state = "ReplyOutstanding" => c.caller # None /\ c.token \in Token
        /\ c.caller # None => c.state = "ReplyOutstanding"
        /\ c.state = "CallersPending" => c.callers # <<>>
    BY <1>6, <1>7, <1>12, <1>13, IdentitiesDistinct
  <2> QED BY ZenonT(30), <1>8, <2>1 DEF IInv, EndpointShape
<1>15. ASSUME NEW u, NEW op, NEW o, Registered(u, op, o), op # "Receive" \/ o # e
       PROVE  u # t /\ Registered(u, op, o)' /\ ~Stranded(u)'
  <2>1. u \in Threads /\ sched.thr[u] = "Blocked" /\ pc[u].op = op /\ pc[u].obj = o
    BY <1>4, <1>15 DEF Registered
  <2>2. u # t
    BY <1>4, <2>1
  <2>3. r # None => pc[r].op = "Receive" /\ pc[r].obj = e
    BY <1>4 DEF IInv, Registrations, Registered
  <2>4. u # r
    BY <1>15, <2>1, <2>3, IdentitiesDistinct
  <2>5. sched'.thr[u] = "Blocked" /\ pc'[u] = pc[u]
    BY <1>2, <2>1, <2>2, <2>4
  <2> QED BY <1>2, <2>1, <2>2, <2>5, IdentitiesDistinct DEF Registered, Stranded
<1>16. Registered(t, "Call", e)'
  BY <1>2 DEF Registered, Stranded
<1>17. \A i \in 1..Len(ep.callers) : Registered(ep.callers[i].caller, "Call", e)
  BY DEF IInv, Registrations
<1>18. Registrations'
  <2>1. (\A f \in Endpoints :
         /\ eps[f].receiver # None => Registered(eps[f].receiver, "Receive", f)
         /\ eps[f].caller # None => Registered(eps[f].caller, "Call", f)
         /\ \A i \in 1..Len(eps[f].callers) : Registered(eps[f].callers[i].caller, "Call", f))'
    <3> SUFFICES ASSUME NEW f \in Endpoints
                 PROVE  (/\ eps[f].receiver # None => Registered(eps[f].receiver, "Receive", f)
                         /\ eps[f].caller # None => Registered(eps[f].caller, "Call", f)
                         /\ \A i \in 1..Len(eps[f].callers) : Registered(eps[f].callers[i].caller, "Call", f))'
      OBVIOUS
    <3>0. /\ eps[f].receiver # None => Registered(eps[f].receiver, "Receive", f)
          /\ eps[f].caller # None => Registered(eps[f].caller, "Call", f)
          /\ \A i \in 1..Len(eps[f].callers) : Registered(eps[f].callers[i].caller, "Call", f)
      BY DEF IInv, Registrations
    <3>1. CASE f = e /\ ep.state = "ReceiverWaiting"
      <4>1. eps'[f].receiver = None /\ eps'[f].caller = t /\ eps'[f].callers = ep.callers
        BY <1>6, <1>8, <3>1
      <4> QED BY <1>15, <1>16, <1>17, <3>1, <4>1
    <3>2. CASE f = e /\ ep.state # "ReceiverWaiting"
      <4>1. eps'[f].receiver = None /\ eps'[f].caller = ep.caller /\ eps'[f].callers = c.callers
        BY <1>7, <1>8, <1>12, <3>2
      <4>2. \A i \in 1..Len(c.callers) : i = Len(ep.callers) + 1 \/ i \in 1..Len(ep.callers)
        BY <1>13, <3>2
      <4>3. (\A i \in 1..Len(eps[f].callers) : Registered(eps[f].callers[i].caller, "Call", f))'
        BY ZenonT(30), <1>13, <1>15, <1>16, <1>17, <3>2, <4>1, <4>2
      <4> QED BY <1>15, <3>0, <3>2, <4>1, <4>3
    <3>3. CASE f # e
      <4>1. eps'[f] = eps[f]
        BY <1>8, <3>3
      <4> QED BY <1>15, <3>0, <3>3, <4>1
    <3> QED BY <3>1, <3>2, <3>3
  <2>2. (\A n \in Notifications : notifs[n].waiter # None =>
           Registered(notifs[n].waiter, "Wait", n) /\ ~Stranded(notifs[n].waiter))'
    <3> SUFFICES ASSUME NEW n \in Notifications, notifs'[n].waiter # None
                 PROVE  (Registered(notifs[n].waiter, "Wait", n) /\ ~Stranded(notifs[n].waiter))'
      OBVIOUS
    <3>1. notifs'[n].waiter = notifs[n].waiter
      BY <1>1
    <3>2. Registered(notifs[n].waiter, "Wait", n)
      BY <3>1 DEF IInv, Registrations
    <3> QED BY <1>15, <3>1, <3>2 DEF Registered, Stranded
  <2> QED BY <2>1, <2>2 DEF Registrations
<1>19. CallersOnce'
  <2>1. /\ \A i \in 1..Len(ep.callers) : ep.callers[i].caller # ep.caller /\ ep.callers[i].caller # t
        /\ \A i, j \in 1..Len(ep.callers) : ep.callers[i].caller = ep.callers[j].caller => i = j
    BY <1>15, <1>17 DEF IInv, CallersOnce
  <2>2. t # ep.caller
    BY <1>4, <1>15, IdentitiesDistinct DEF IInv, Registrations
  <2>3. \A i \in 1..Len(c.callers) :
          /\ c.callers[i].caller # c.caller
          /\ \A j \in 1..Len(c.callers) : c.callers[i].caller = c.callers[j].caller => i = j
    <3>1. CASE ep.state = "ReceiverWaiting"
      BY <1>6, <2>1, <3>1
    <3>2. CASE ep.state # "ReceiverWaiting"
      <4>1. \A i \in 1..Len(c.callers) : i = Len(ep.callers) + 1 \/ i \in 1..Len(ep.callers)
        BY <1>13, <3>2
      <4>2. c.caller = ep.caller
        BY <1>7, <3>2
      <4>3. \A i \in 1..Len(ep.callers) : c.callers[i] = ep.callers[i] /\ i # Len(ep.callers) + 1
        BY <1>13, <3>2
      <4>4. c.callers[Len(ep.callers) + 1].caller = t
        BY <1>13, <3>2
      <4> TAKE i \in 1..Len(c.callers)
      <4>5. CASE i = Len(ep.callers) + 1
        BY <2>1, <2>2, <4>1, <4>2, <4>3, <4>4, <4>5
      <4>6. CASE i \in 1..Len(ep.callers)
        BY ZenonT(30), <2>1, <2>2, <4>1, <4>2, <4>3, <4>4, <4>6
      <4> QED BY <4>1, <4>5, <4>6
    <3> QED BY <3>1, <3>2
  <2> SUFFICES ASSUME NEW f \in Endpoints
               PROVE  (\A i \in 1..Len(eps[f].callers) :
                         /\ eps[f].callers[i].caller # eps[f].caller
                         /\ \A j \in 1..Len(eps[f].callers) :
                              eps[f].callers[i].caller = eps[f].callers[j].caller => i = j)'
    BY ZenonT(30) DEF CallersOnce
  <2>4. CASE f = e
    <3>1. eps'[f] = c
      BY <1>8, <2>4
    <3> QED BY <2>3, <3>1
  <2>5. CASE f # e
    <3>1. eps'[f] = eps[f]
      BY <1>8, <2>5
    <3> QED BY <3>1 DEF IInv, CallersOnce
  <2> QED BY <2>4, <2>5
<1> QED BY <1>2, <1>9, <1>10, <1>11, <1>14, <1>18, <1>19 DEF IInv
-----------------------------------------------------------------------------
(* The scheduler's part of OperationCode::Reply: the caller c is woken and *)
(* switched to; when the queue is full the wake-up is lost and the kernel  *)
(* panics.                                                                 *)
LEMMA ReplySched ==
  ASSUME IInv, NEW t \in Threads, sched.cur = t,
         NEW c \in Threads, sched.thr[c] = "Blocked",
         LET wk == apply_wake(sched, c)
         IN  sched' = IF reschedule_ok(wk, t, c) THEN reschedule(wk, t, c)
                      ELSE [wk EXCEPT !.up = FALSE]
  PROVE  /\ SchedType(sched') /\ Consistent(sched')
         /\ RoomForAll => sched'.up = sched.up
         /\ sched'.cur \in Threads
         /\ \A u \in AllThreads : \/ sched'.thr[u] = sched.thr[u]
                                  \/ u = t /\ sched'.thr[u] = "Runnable"
                                  \/ u = c /\ sched'.thr[u] = "Running"
<1> DEFINE wk == apply_wake(sched, c)
<1>1. SchedType(sched) /\ Consistent(sched)
  BY DEF IInv, TypeOK, SchedConsistent
<1>2. sched.thr[t] = "Running" /\ sched.cpu = t /\ c # t
  BY CallerRuns
<1>3. CASE Len(sched.rq) < Capacity
  <2>1. /\ SchedType(wk) /\ Consistent(wk) /\ wk.thr = [sched.thr EXCEPT ![c] = "Runnable"]
        /\ wk.cur = sched.cur /\ wk.cpu = sched.cpu /\ wk.up = sched.up
    BY ZenonT(30), <1>1, <1>2, <1>3, ApplyWakeFields
  <2>2. wk.rq # <<>> /\ Head(wk.rq) = c
    BY ZenonT(30), <1>1, <1>2, <1>3, ApplyWake
  <2> HIDE DEF wk
  <2> DEFINE r == reschedule(wk, t, Head(wk.rq))
  <2>3. /\ reschedule_ok(wk, t, Head(wk.rq))
        /\ SchedType(r) /\ Consistent(r)
        /\ r.thr = [[wk.thr EXCEPT ![t] = "Runnable"] EXCEPT ![Head(wk.rq)] = "Running"]
        /\ r.cur = Head(wk.rq) /\ r.up = wk.up
    BY <2>1, <2>2, Reschedule
  <2>4. sched' = r
    BY <2>2, <2>3 DEF wk
  <2> HIDE DEF r
  <2>5. /\ SchedType(sched') /\ Consistent(sched')
        /\ sched'.thr = [[wk.thr EXCEPT ![t] = "Runnable"] EXCEPT ![c] = "Running"]
        /\ sched'.cur = c /\ sched'.up = wk.up
    BY <2>2, <2>3, <2>4
  <2>6. \A u \in AllThreads : sched'.thr[u] = IF u = c THEN "Running" ELSE IF u = t THEN "Runnable" ELSE sched.thr[u]
    BY <1>1, <2>1, <2>5, Fields DEF AllThreads
  <2> QED BY ZenonT(40), <2>1, <2>5, <2>6
<1>4. CASE ~(Len(sched.rq) < Capacity)
  <2>1. wk = sched
    BY <1>4 DEF apply_wake
  <2>2. ~reschedule_ok(sched, t, c)
    BY DEF reschedule_ok
  <2>3. sched' = [sched EXCEPT !.up = FALSE]
    BY <2>1, <2>2
  <2>4. SchedType(sched') /\ sched'.thr = sched.thr /\ sched'.rq = sched.rq
        /\ sched'.cur = sched.cur /\ sched'.cpu = sched.cpu
    BY <1>1, <2>3 DEF SchedType
  <2>5. Consistent(sched')
    BY <1>1, <2>4 DEF Consistent, Queued
  <2>6. ~RoomForAll
    <3>1. Distinct(sched.rq) /\ c \notin Elems(sched.rq) /\ sched.rq \in Seq(Threads)
      BY <1>1, Fields DEF Consistent, Queued
    <3> QED BY <1>4, <3>1, QueueRoom
  <2> QED BY <2>4, <2>5, <2>6
<1> QED BY <1>3, <1>4

(* OperationCode::Reply *)
LEMMA ReplyStep ==
  ASSUME IInv, NEW t \in Threads, NEW h \in held[t], Reply(t, h)
  PROVE  IInv' /\ (RoomForAll => sched'.up = sched.up)
<1>1. sched.cur = t /\ UNCHANGED <<notifs, pc, held, ncalls>>
  BY DEF Reply, Syscall
<1>2. PICK e \in Endpoints :
        /\ reply_ok(eps[e], h[1])
        /\ eps' = [eps EXCEPT ![e] = reply(@)]
        /\ inbox' = IF sched.thr[eps[e].caller] = "Absent" THEN inbox
                    ELSE [inbox EXCEPT ![eps[e].caller] = h[2]]
        /\ LET wk == apply_wake(sched, eps[e].caller)
           IN  sched' = IF reschedule_ok(wk, t, eps[e].caller) THEN reschedule(wk, t, eps[e].caller)
                        ELSE [wk EXCEPT !.up = FALSE]
  BY DEF Reply
<1> DEFINE ep == eps[e]
           c == ep.caller
<1>3. sched.thr[t] = "Running" /\ sched.cur # None /\ \A u : ~Stranded(u)
  BY <1>1, CallerRuns
<1>4. ep \in EndpointType /\ h \in Token \X Message
  BY DEF IInv, TypeOK
<1>5. /\ ep.state = "ReplyOutstanding" /\ c # None /\ ep.receiver = None
      /\ Registered(c, "Call", e)
  <2>1. ep.state = "ReplyOutstanding"
    BY <1>2 DEF reply_ok
  <2> QED BY <2>1 DEF IInv, EndpointShape, Registrations
<1>6. c \in Threads /\ sched.thr[c] = "Blocked" /\ pc[c].op = "Call" /\ pc[c].obj = e /\ c # t
  BY <1>3, <1>5 DEF Registered
<1>7. /\ SchedType(sched') /\ Consistent(sched')
      /\ RoomForAll => sched'.up = sched.up
      /\ sched'.cur \in Threads
      /\ \A u \in AllThreads : \/ sched'.thr[u] = sched.thr[u]
                               \/ u = t /\ sched'.thr[u] = "Runnable"
                               \/ u = c /\ sched'.thr[u] = "Running"
  BY ZenonT(40), <1>1, <1>2, <1>6, ReplySched
<1>8. /\ reply(ep) \in EndpointType
      /\ reply(ep).state = IF ep.callers = <<>> THEN "Idle" ELSE "CallersPending"
      /\ reply(ep).receiver = None /\ reply(ep).caller = None
      /\ reply(ep).callers = ep.callers
  BY <1>4, <1>5, ReplyFrees
<1>9. inbox' \in [Threads -> Message \cup {<<>>}]
  BY <1>2, <1>4, <1>6 DEF IInv, TypeOK
<1>10. eps' \in [Endpoints -> EndpointType] /\ \A f \in Endpoints : eps'[f] = IF f = e THEN reply(ep) ELSE eps[f]
  BY <1>2, <1>8 DEF IInv, TypeOK
<1>11. TypeOK' /\ SchedConsistent'
  BY <1>1, <1>7, <1>9, <1>10 DEF IInv, TypeOK, SchedConsistent
<1>12. ThreadsAlive'
  BY <1>6, <1>7, IdentitiesDistinct DEF IInv, ThreadsAlive, AllThreads
<1>13. PcShape'
  BY <1>1, <1>7, IdentitiesDistinct DEF IInv, PcShape
<1>14. EndpointShape'
  BY <1>8, <1>10 DEF IInv, EndpointShape
<1> HIDE DEF c
<1>15. ASSUME NEW u, NEW op, NEW o, Registered(u, op, o), u # c
       PROVE  Registered(u, op, o)' /\ ~Stranded(u)'
  <2>1. u \in Threads /\ sched.thr[u] = "Blocked" /\ pc[u].op = op /\ pc[u].obj = o /\ u # t
    BY <1>3, <1>15 DEF Registered
  <2>2. sched'.thr[u] = "Blocked"
    BY <1>7, <1>15, <2>1 DEF AllThreads
  <2> QED BY <1>1, <1>7, <2>1, <2>2, IdentitiesDistinct DEF Registered, Stranded
<1>16. ASSUME NEW u, NEW op, NEW o, Registered(u, op, o), op # "Call" \/ o # e
       PROVE  u # c
  BY <1>3, <1>6, <1>16 DEF Registered
<1>17. \A i \in 1..Len(ep.callers) : ep.callers[i].caller # c /\ Registered(ep.callers[i].caller, "Call", e)
  BY DEF IInv, CallersOnce, Registrations, c
<1>18. Registrations'
  <2>1. (\A f \in Endpoints :
         /\ eps[f].receiver # None => Registered(eps[f].receiver, "Receive", f)
         /\ eps[f].caller # None => Registered(eps[f].caller, "Call", f)
         /\ \A i \in 1..Len(eps[f].callers) : Registered(eps[f].callers[i].caller, "Call", f))'
    <3> SUFFICES ASSUME NEW f \in Endpoints
                 PROVE  (/\ eps[f].receiver # None => Registered(eps[f].receiver, "Receive", f)
                         /\ eps[f].caller # None => Registered(eps[f].caller, "Call", f)
                         /\ \A i \in 1..Len(eps[f].callers) : Registered(eps[f].callers[i].caller, "Call", f))'
      OBVIOUS
    <3>1. CASE f = e
      <4>1. eps'[f].receiver = None /\ eps'[f].caller = None /\ eps'[f].callers = ep.callers
        BY <1>8, <1>10, <3>1
      <4> QED BY <1>15, <1>17, <3>1, <4>1
    <3>2. CASE f # e
      <4>1. eps'[f] = eps[f]
        BY <1>10, <3>2
      <4>2. /\ eps[f].receiver # None => Registered(eps[f].receiver, "Receive", f)
            /\ eps[f].caller # None => Registered(eps[f].caller, "Call", f)
            /\ \A i \in 1..Len(eps[f].callers) : Registered(eps[f].callers[i].caller, "Call", f)
        BY DEF IInv, Registrations
      <4> QED BY <1>15, <1>16, <3>2, <4>1, <4>2
    <3> QED BY <3>1, <3>2
  <2>2. (\A n \in Notifications : notifs[n].waiter # None =>
           Registered(notifs[n].waiter, "Wait", n) /\ ~Stranded(notifs[n].waiter))'
    BY <1>1, <1>15, <1>16 DEF IInv, Registrations
  <2> QED BY <2>1, <2>2 DEF Registrations
<1>19. CallersOnce'
  <2> SUFFICES ASSUME NEW f \in Endpoints
               PROVE  (\A i \in 1..Len(eps[f].callers) :
                         /\ eps[f].callers[i].caller # eps[f].caller
                         /\ \A j \in 1..Len(eps[f].callers) :
                              eps[f].callers[i].caller = eps[f].callers[j].caller => i = j)'
    BY DEF CallersOnce
  <2>1. \A i \in 1..Len(eps[f].callers) :
          /\ eps[f].callers[i].caller # eps[f].caller
          /\ \A j \in 1..Len(eps[f].callers) : eps[f].callers[i].caller = eps[f].callers[j].caller => i = j
    BY DEF IInv, CallersOnce
  <2>2. CASE f = e
    <3>1. eps'[f].caller = None /\ eps'[f].callers = eps[f].callers
      BY <1>8, <1>10, <2>2
    <3>2. \A i \in 1..Len(eps[f].callers) : eps[f].callers[i].caller # None
      BY <1>17, <2>2, IdentitiesDistinct DEF Registered
    <3> QED BY <2>1, <3>1, <3>2
  <2>3. CASE f # e
    <3>1. eps'[f] = eps[f]
      BY <1>10, <2>3
    <3> QED BY <2>1, <3>1
  <2> QED BY <2>2, <2>3
<1> QED BY <1>7, <1>11, <1>12, <1>13, <1>14, <1>18, <1>19 DEF IInv
=============================================================================
