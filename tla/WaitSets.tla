------------------------------ MODULE WaitSets -----------------------------
(***************************************************************************)
(* A wait set (kernel-core waitset.rs), the system calls on it (syscall.rs)*)
(* and its closing by teardown.rs, over the scheduler of module Scheduler. *)
(* Threads share it.  post_event is what a signalled object would call; in *)
(* the kernel only its boot-time self tests do (main.rs).                  *)
(***************************************************************************)
EXTENDS Scheduler, FiniteSets

CONSTANTS Sources,             \* endpoints, notifications and timers
          Signals,             \* bits of a signal mask
          Cookie,              \* the cookie a program subscribes a source with
          MaxSubscriptions, MaxEvents  \* MAX_WAITSET_SUBSCRIPTIONS, MAX_WAITSET_EVENTS

ASSUME WaitSetAssumption ==
  MaxSubscriptions \in Nat /\ MaxEvents \in Nat /\ Sources \subseteq DOMAIN Cookie

VARIABLES wset,      \* the WaitSet
          wsched,    \* the scheduler
          owed,      \* per source: signals posted for it and not yet taken by a wait
          told       \* the last wait that took events: the number it returned,
                     \* and the sources it took signals of

wvars == <<wset, wsched, owed, told>>

NewWaitSet == [closed |-> FALSE, subs |-> <<>>, ready |-> <<>>, waiting |-> None]

subscribed(w) == {w.subs[i].source : i \in DOMAIN w.subs}

(* Thread t is in user mode and the dispatcher knows it as current. *)
Calling(t) == wsched.up /\ wsched.cpu = t /\ wsched.cur = t

(* WaitSetControl, Add *)
AddSubscription(t, o, mask) ==
  /\ Calling(t) /\ ~wset.closed /\ Len(wset.subs) < MaxSubscriptions /\ o \notin subscribed(wset)
  /\ wset' = [wset EXCEPT !.subs = Append(@, [source |-> o, cookie |-> Cookie[o], signals |-> mask])]
  /\ owed' = [owed EXCEPT ![o] = {}] /\ UNCHANGED <<wsched, told>>

(* Mutant of without_cookie: the events of a removed source stay ready. *)
without_cookie_kept(ready, c) == ready

without_cookie(ready, c) == SelectSeq(ready, LAMBDA e : e.cookie # c)

(* WaitSetControl, Remove: the ready events with the source's cookie go too. *)
RemoveSubscription(t, o) ==
  /\ Calling(t) /\ ~wset.closed /\ o \in subscribed(wset)
  /\ LET c == CHOOSE c \in {s.cookie : s \in {s \in Elems(wset.subs) : s.source = o}} : TRUE
     IN  wset' = [wset EXCEPT !.subs = SelectSeq(@, LAMBDA s : s.source # o),
                              !.ready = without_cookie(@, c)]
  /\ owed' = [owed EXCEPT ![o] = {}] /\ UNCHANGED <<wsched, told>>

(* The set's handle carries WRITE; the target is an endpoint, a            *)
(* notification or a timer, and nothing else is looked up.                 *)
WaitSetControl(t, o) == (\E mask \in SUBSET Signals : AddSubscription(t, o, mask)) \/ RemoveSubscription(t, o)

(* One event per cookie, its signals accumulate; a full table drops it. *)
merge_event(ready, c, signals) ==
  IF \E i \in DOMAIN ready : ready[i].cookie = c
  THEN [i \in DOMAIN ready |->
          IF ready[i].cookie = c /\ \A j \in 1..(i - 1) : ready[j].cookie # c
          THEN [ready[i] EXCEPT !.signals = @ \cup signals] ELSE ready[i]]
  ELSE IF Len(ready) < MaxEvents THEN Append(ready, [cookie |-> c, signals |-> signals]) ELSE ready

(* post_event hands the waiting thread to its caller, who wakes it. *)
PostEvent(o, active) ==
  /\ wsched.up /\ ~wset.closed /\ o \in subscribed(wset)
  /\ LET s == CHOOSE s \in Elems(wset.subs) : s.source = o
         matched == s.signals \cap active
     IN  /\ matched # {}
         /\ wset' = [wset EXCEPT !.ready = merge_event(@, s.cookie, matched), !.waiting = None]
         /\ owed' = [owed EXCEPT ![o] = @ \cup matched]
         /\ wsched' = IF wset.waiting = None THEN wsched ELSE apply_wake(wsched, wset.waiting)
         /\ UNCHANGED told

(* WaitSetWait with events ready takes all of them and returns their       *)
(* number: their cookies and signals reach nobody.                         *)
CollectEvents(t) ==
  /\ Calling(t) /\ ~wset.closed /\ wset.ready # <<>>
  /\ wset' = [wset EXCEPT !.ready = <<>>] /\ owed' = [o \in Sources |-> {}]
  /\ told' = [count |-> Len(wset.ready), sources |-> {o \in Sources : owed[o] # {}}]
  /\ UNCHANGED wsched

(* WaitSetWait with none: the thread takes the place of the waiter there   *)
(* was, blocks and, with no other thread to run, returns all the same.     *)
BlockOnWaitSet(t) ==
  /\ Calling(t) /\ ~wset.closed /\ wset.ready = <<>>
  /\ wset' = [wset EXCEPT !.waiting = t]
  /\ LET blk == block_current(wsched, t)
     IN  wsched' = IF blk.rq = <<>> THEN blk ELSE dispatch(blk, t)
  /\ UNCHANGED <<owed, told>>

(* Deleting any handle to the wait set closes it and wakes the waiter. *)
CloseWaitSet ==
  /\ wsched.up /\ ~wset.closed
  /\ wset' = [NewWaitSet EXCEPT !.closed = TRUE] /\ owed' = [o \in Sources |-> {}]
  /\ wsched' = IF wset.waiting = None THEN wsched ELSE apply_wake(wsched, wset.waiting)
  /\ UNCHANGED told

(* A timer tick or a yield *)
SwitchThread ==
  /\ wsched.up /\ wsched.cur # None /\ wsched.rq # <<>>
  /\ reschedule_ok(wsched, wsched.cur, Head(wsched.rq))
  /\ wsched' = reschedule(wsched, wsched.cur, Head(wsched.rq))
  /\ UNCHANGED <<wset, owed, told>>

WInit ==
  /\ wset = NewWaitSet /\ owed = [o \in Sources |-> {}] /\ told = [count |-> 0, sources |-> {}]
  /\ \E t \in Threads :
       wsched = [thr |-> [u \in AllThreads |-> IF u = t THEN "Running" ELSE "Runnable"],
                 rq |-> CHOOSE q \in [1..Cardinality(Threads \ {t}) -> Threads \ {t}] : Distinct(q),
                 cur |-> t, cpu |-> t, up |-> TRUE]

WNext ==
  \/ \E t \in Threads, o \in Sources : WaitSetControl(t, o)
  \/ \E o \in Sources, active \in SUBSET Signals : PostEvent(o, active)
  \/ \E t \in Threads : CollectEvents(t) \/ BlockOnWaitSet(t)
  \/ CloseWaitSet \/ SwitchThread

WSpec == WInit /\ [][WNext]_wvars
-----------------------------------------------------------------------------
ready_for(o) == UNION {e.signals : e \in {e \in Elems(wset.ready) : e.cookie = Cookie[o]}}

(* Until a wait takes them, no event is lost or invented, whatever is      *)
(* added, removed and taken in between: the ready events carry exactly the *)
(* signals posted for each source (sources having cookies of their own),   *)
(* so the table can never overflow.  The number a wait returns, which is   *)
(* all it returns, counts the sources it took signals of; and the thread   *)
(* registered as waiting is Blocked with no event ready.  (One that a      *)
(* later waiter displaced stays Blocked: the set knows only the last.)     *)
EventsKept ==
  /\ \A o \in Sources : ready_for(o) = owed[o]
  /\ Len(wset.ready) <= Len(wset.subs)
  /\ told.count = Cardinality(told.sources)
  /\ wset.waiting # None => wset.ready = <<>> /\ wsched.thr[wset.waiting] = "Blocked"
=============================================================================
