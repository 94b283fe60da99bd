------------------------------ MODULE Scheduler ------------------------------
(***************************************************************************)
(* The bootstrap processor's scheduler: the thread table's states          *)
(* (kernel-core thread.rs), the run queue (kernel-core scheduler.rs) and   *)
(* the context switches built on both (preemption.rs).                     *)
(*                                                                         *)
(* One record holds the state an operation of the code reads and writes:   *)
(*   thr   thread table, "Absent" once ThreadTable::remove took the entry  *)
(*   rq    run queue.  Every thread has base and effective priority 0      *)
(*         (set_base_priority has no caller outside test profiles, boosts  *)
(*         take the maximum of zeros), so level 0 is the only level used   *)
(*   cur   Scheduler.current_thread                                        *)
(*   cpu   the thread whose context and kernel stack the CPU is on; the    *)
(*         code has no variable for it, and it differs from cur exactly    *)
(*         when the code switches one without the other                    *)
(*   up    FALSE once an unwrap() failed (panic = abort) or halt() ran     *)
(***************************************************************************)
EXTENDS KernelTypes, Naturals, Sequences

CONSTANT Capacity      \* Scheduler.capacity (64 in init.rs)

Elems(q) == {q[i] : i \in 1..Len(q)}

Distinct(q) == \A i, j \in 1..Len(q) : q[i] = q[j] => i = j

Queued(s) == Elems(s.rq)

(* Thread::make_dying / make_dead: a failed transition leaves the state. *)
make_dying(st) == IF st \in {"Running", "Runnable", "Blocked"} THEN "Dying" ELSE st

make_dead(st) == IF st = "Dying" THEN "Dead" ELSE st

(* Scheduler::enqueue, its four refusals and its effect. *)
enqueue_ok(s, t) ==
  /\ t \notin Queued(s)
  /\ s.cur # t
  /\ Len(s.rq) < Capacity
  /\ s.thr[t] \in {"New", "Runnable", "Running", "Blocked"}

enqueue(s, t) ==
  IF enqueue_ok(s, t)
  THEN [s EXCEPT !.thr[t] = "Runnable", !.rq = Append(@, t)]
  ELSE s

(* Mutant of remove_thread: only the current thread is taken out. *)
remove_thread_current_only(s, t) == IF s.cur = t THEN [s EXCEPT !.cur = None] ELSE s

(* Scheduler::remove_thread: the current thread is only unset; otherwise   *)
(* the first queue entry with that id goes.                                *)
remove_thread(s, t) ==
  IF s.cur = t
  THEN [s EXCEPT !.cur = None]
  ELSE IF t \in Queued(s)
       THEN LET i == CHOOSE j \in 1..Len(s.rq) :
                       /\ s.rq[j] = t
                       /\ \A k \in 1..(j - 1) : s.rq[k] # t
            IN  [s EXCEPT !.rq = SubSeq(@, 1, i - 1) \o SubSeq(@, i + 1, Len(@))]
       ELSE s

(* Mutant of block_current: the thread keeps its Running state. *)
block_current_state_kept(s, t) == IF s.cur = t THEN [s EXCEPT !.cur = None] ELSE s

(* Scheduler::block_current; every caller discards its error. *)
block_current(s, t) ==
  IF s.cur = t /\ s.thr[t] = "Running"
  THEN [s EXCEPT !.thr[t] = "Blocked", !.cur = None]
  ELSE s

(* Mutants of apply_wake: push_back instead of push_front, and waking a    *)
(* Dying thread as well.                                                   *)
apply_wake_back(s, t) ==
  IF Len(s.rq) < Capacity /\ s.thr[t] = "Blocked"
  THEN [s EXCEPT !.thr[t] = "Runnable", !.rq = Append(@, t)]
  ELSE s

apply_wake_dying(s, t) ==
  IF Len(s.rq) < Capacity /\ s.thr[t] \in {"Blocked", "Dying"}
  THEN [s EXCEPT !.thr[t] = "Runnable", !.rq = <<t>> \o @]
  ELSE s

(* Scheduler::apply_wake: only a Blocked thread of the table is queued, in *)
(* front; a full queue, a Dying and a New thread are errors that every     *)
(* caller discards, a Dead, Running or Runnable thread is left alone.      *)
apply_wake(s, t) ==
  IF Len(s.rq) < Capacity /\ s.thr[t] = "Blocked"
  THEN [s EXCEPT !.thr[t] = "Runnable", !.rq = <<t>> \o @]
  ELSE s

(* switch_to_next: ThreadTable::with_two_mut wants two distinct entries;   *)
(* next.make_running() succeeds only on a Runnable thread and its error is *)
(* discarded; then the CPU is on next's stack.                             *)
switch_ok(s, from, to) ==
  from # to /\ s.thr[from] # "Absent" /\ s.thr[to] # "Absent"

switch_to_next(s, to) ==
  [s EXCEPT !.thr[to] = IF @ = "Runnable" THEN "Running" ELSE @, !.cpu = to]

(* dequeue_next, set_current_thread and switch_to_next(..).unwrap(), as    *)
(* the blocking system calls do when another thread is runnable.           *)
dispatch(s, from) ==
  LET next == Head(s.rq)
      s1   == [s EXCEPT !.rq = Tail(@), !.cur = next]
  IN  IF switch_ok(s1, from, next)
      THEN switch_to_next(s1, next)
      ELSE [s1 EXCEPT !.up = FALSE]

(* reschedule: the guards of preemption.rs and of commit_yield, then the   *)
(* queue rotation and both state changes.                                  *)
reschedule_ok(s, current, next) ==
  /\ current # next
  /\ s.thr[current] = "Running"
  /\ s.thr[next] = "Runnable"
  /\ s.cur = current
  /\ s.rq # <<>>
  /\ Head(s.rq) = next

(* Mutant of reschedule: the thread that gives up the CPU is not requeued. *)
reschedule_dropping(s, current, next) ==
  [s EXCEPT !.thr = [@ EXCEPT ![current] = "Runnable", ![next] = "Running"],
            !.rq  = Tail(@), !.cur = next, !.cpu = next]

reschedule(s, current, next) ==
  [s EXCEPT !.thr = [@ EXCEPT ![current] = "Runnable", ![next] = "Running"],
            !.rq  = Append(Tail(@), current),
            !.cur = next,
            !.cpu = next]

SchedType(s) ==
  s \in [thr : [AllThreads -> ThreadState \cup {"Absent"}], rq : Seq(Threads),
         cur : AllThreads \cup {None}, cpu : AllThreads, up : BOOLEAN]

(* The run queue holds exactly the Runnable user threads, each once; at    *)
(* most one user thread is Running, and it is the current one; the current *)
(* thread is the one the CPU executes, and is Running unless it is the     *)
(* idle thread; a CPU without a current thread executes a Blocked one.     *)
Consistent(s) ==
  /\ Distinct(s.rq)
  /\ \A t \in Threads : t \in Queued(s) <=> s.thr[t] = "Runnable"
  /\ \A t \in Threads : s.thr[t] = "Running" => t = s.cur
  /\ s.cur # None => s.cur = s.cpu /\ (s.cpu # Idle => s.thr[s.cpu] = "Running")
  /\ s.cur = None => s.cpu # Idle /\ s.thr[s.cpu] = "Blocked"
=============================================================================
