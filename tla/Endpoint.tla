------------------------------- MODULE Endpoint -------------------------------
(***************************************************************************)
(* Synchronous call/receive/reply endpoints (kernel-core ipc.rs) and       *)
(* notifications (kernel-core notification.rs) as operators on records.    *)
(*                                                                         *)
(* An endpoint's EndpointState is the field state; the fields a variant of *)
(* the enum does not carry hold None, <<>> or FALSE.  A reply token is     *)
(* caller.raw() ^ (reply_sequence << 32): it identifies the caller's table *)
(* index and, for the caller's fixed generation, the sequence number, and  *)
(* nothing of the endpoint.  It is the pair <<caller, sequence>> here.     *)
(***************************************************************************)
EXTENDS KernelTypes, Naturals, Sequences

CONSTANT MAX_ENDPOINT_CALLERS  \* 32 in ipc.rs

EndpointState == {"Idle", "CallersPending", "ReceiverWaiting", "ReplyOutstanding"}

endpoint_new ==
  [state |-> "Idle", callers |-> <<>>, receiver |-> None, caller |-> None,
   token |-> <<>>, message |-> <<>>, seq |-> 0, closed |-> FALSE]

(* Mutants of make_reply_token: without a sequence number, and without     *)
(* advancing it.                                                           *)
make_reply_token_bare(ep, caller) == <<caller>>

make_reply_token_fixed(ep, caller) == <<caller, 0>>

make_reply_token(ep, caller) == <<caller, ep.seq + 1>>

(* Endpoint::call: Closed and, at MAX_ENDPOINT_CALLERS queued callers,     *)
(* Busy; a waiting receiver makes the call outstanding, otherwise the      *)
(* caller is queued.                                                       *)
call_ok(ep) == ~ep.closed /\ Len(ep.callers) < MAX_ENDPOINT_CALLERS

call(ep, t, m) ==
  IF ep.state = "ReceiverWaiting"
  THEN [ep EXCEPT !.state = "ReplyOutstanding", !.receiver = None, !.caller = t,
                  !.token = make_reply_token(ep, t), !.message = m, !.seq = @ + 1]
  ELSE [ep EXCEPT !.state = IF @ = "Idle" THEN "CallersPending" ELSE @,
                  !.callers = Append(@, [caller |-> t, message |-> m])]

(* Endpoint::receive: Busy while a receiver waits or a reply is owed. *)
receive_ok(ep) == ~ep.closed /\ ep.state \in {"Idle", "CallersPending"}

receive(ep, t) ==
  IF ep.state = "Idle"
  THEN [ep EXCEPT !.state = "ReceiverWaiting", !.receiver = t]
  ELSE LET next == Head(ep.callers)
       IN  [ep EXCEPT !.state = "ReplyOutstanding", !.callers = Tail(@),
                      !.caller = next.caller,
                      !.token = make_reply_token(ep, next.caller), !.seq = @ + 1]

(* Endpoint::take_received_call: the message a caller left for a receiver  *)
(* that was already waiting.                                               *)
has_received_call(ep) == ep.state = "ReplyOutstanding" /\ ep.message # <<>>

take_received_call(ep) == [ep EXCEPT !.message = <<>>]

(* Mutant of reply: the queued callers are forgotten. *)
reply_dropping(ep) == [endpoint_new EXCEPT !.seq = ep.seq]

(* Endpoint::reply *)
reply_ok(ep, token) ==
  ~ep.closed /\ ep.state = "ReplyOutstanding" /\ ep.token = token

reply(ep) ==
  [ep EXCEPT !.state = IF ep.callers = <<>> THEN "Idle" ELSE "CallersPending",
             !.caller = None, !.token = <<>>, !.message = <<>>]

(* Mutant of woke_threads: only the receiver and the outstanding caller. *)
woke_threads_active(ep) ==
  (IF ep.receiver = None THEN <<>> ELSE <<ep.receiver>>)
    \o (IF ep.caller = None THEN <<>> ELSE <<ep.caller>>)

(* Endpoint::close and the threads it asks to wake, in its order. *)
close(ep) ==
  [endpoint_new EXCEPT !.seq = ep.seq, !.closed = TRUE]

woke_threads(ep) ==
  (IF ep.receiver = None THEN <<>> ELSE <<ep.receiver>>)
    \o (IF ep.caller = None THEN <<>> ELSE <<ep.caller>>)
    \o [i \in 1..Len(ep.callers) |-> ep.callers[i].caller]

(* Notification: one waiter, and the mask reduced to bit 0, the only bit   *)
(* the kernel posts (signal(1)).                                           *)
notification_new == [signals |-> 0, waiter |-> None, closed |-> FALSE]

signal(n) ==
  IF n.closed THEN n ELSE [n EXCEPT !.signals = 1, !.waiter = None]

(* Mutant of signal_wakes: the bits are set, the waiter is not returned. *)
signal_wakes_nobody(n) == None

signal_wakes(n) == IF n.closed THEN None ELSE n.waiter

wait_blocks(n) == n.signals = 0

wait(n, t) == IF wait_blocks(n) THEN [n EXCEPT !.waiter = t] ELSE [n EXCEPT !.signals = 0]

take_signals(n) == [n EXCEPT !.signals = 0]

=============================================================================
