-------------------------------- MODULE Tcp --------------------------------
(***************************************************************************)
(* The TCP engine of the network server (net_stack_server/src/tcp.rs): its *)
(* control blocks, the segments that reach them, and the retransmission    *)
(* poll of the server's main loop.  The network loses, repeats and         *)
(* reorders: at any moment any acknowledgement the peer may have sent      *)
(* arrives, again or for the first time, and none has to.  Sequence        *)
(* numbers are counted from the engine's initial one and stay below their  *)
(* wrap.                                                                   *)
(***************************************************************************)
EXTENDS Naturals, Sequences, SequencesExt, FiniteSets

CONSTANTS Mss,              \* 1460 bytes
          FirstSsthresh,    \* 65535
          Rto,              \* 200 ticks
          Sessions,         \* <<local port, remote [ip, port]>> of each session to be created
          MaxSent,          \* bound: bytes the sessions send together
          MaxReceived,      \* bound: bytes they receive together, a SYN or FIN being one
          MaxDupAcks,       \* bound: duplicate acknowledgements in a row, together
          MaxRetransmits    \* bound: expiries of one segment

ASSUME TcpAssumption == Mss \in Nat \ {0} /\ FirstSsthresh >= 2 * Mss /\ Rto \in Nat

VARIABLES tcbs,     \* the control blocks, in order of creation
          sent,     \* history: per session, the segments it sent
          wire      \* the frames of the last poll: [session, to, seq]

tcpvars == <<tcbs, sent, wire>>

total(blocks, field) == FoldLeft(LAMBDA n, t : n + t[field], 0, blocks)

NewTcb(e) == [local |-> e[1], remote |-> e[2], state |-> "Created", snd_nxt |-> 0, snd_una |-> 0, rcv_nxt |-> 0,
              cwnd |-> Mss, ssthresh |-> FirstSsthresh, congestion |-> "SlowStart", dup_ack_count |-> 0,
              last_ack_num |-> 0, retransmit_queue |-> <<>>]

create_session ==
  /\ Len(tcbs) < Len(Sessions)
  /\ tcbs' = Append(tcbs, NewTcb(Sessions[Len(tcbs) + 1])) /\ sent' = Append(sent, <<>>) /\ UNCHANGED wire

close_session(i) == tcbs' = [tcbs EXCEPT ![i].state = "HalfClosed"] /\ UNCHANGED <<sent, wire>>

(* The server has no send path yet: a sender queues what it sends. *)
SendSegment(i, length) ==
  /\ tcbs[i].state = "Established" /\ total(tcbs, "snd_nxt") + length <= MaxSent
  /\ tcbs' = [tcbs EXCEPT ![i].snd_nxt = @ + length,
                          ![i].retransmit_queue = Append(@, [seq |-> tcbs[i].snd_nxt, length |-> length,
                                                             rto_ticks |-> Rto, retransmit_count |-> 0])]
  /\ sent' = [sent EXCEPT ![i] = Append(@, [seq |-> tcbs[i].snd_nxt, length |-> length])]
  /\ UNCHANGED wire
-----------------------------------------------------------------------------
halved(t) == IF t.cwnd \div 2 > 2 * Mss THEN t.cwnd \div 2 ELSE 2 * Mss

(* The third duplicate in a row starts fast recovery, later ones inflate. *)
duplicate_ack(t) ==
  LET n == t.dup_ack_count + 1
  IN  IF n = 3
      THEN [t EXCEPT !.dup_ack_count = n, !.ssthresh = halved(t), !.cwnd = halved(t) + 3 * Mss,
                     !.congestion = "FastRecovery"]
      ELSE [t EXCEPT !.dup_ack_count = n, !.cwnd = IF t.congestion = "FastRecovery" THEN @ + Mss ELSE @]

(* Mutant of purged: a segment is dropped once its first byte is acknowledged. *)
purged_early(queue, ack) == SelectSeq(queue, LAMBDA seg : seg.seq >= ack)

purged(queue, ack) == SelectSeq(queue, LAMBDA seg : seg.seq + seg.length > ack)

window_grown(t, acked) ==
  CASE t.congestion = "FastRecovery" -> [t EXCEPT !.cwnd = t.ssthresh, !.congestion = "CongestionAvoidance"]
    [] t.congestion = "SlowStart" ->
         LET c == t.cwnd + (IF acked < Mss THEN acked ELSE Mss)
         IN  [t EXCEPT !.cwnd = c, !.congestion = IF c >= t.ssthresh THEN "CongestionAvoidance" ELSE @]
    [] OTHER -> [t EXCEPT !.cwnd = @ + (Mss * Mss) \div @]

new_ack(t, ack) ==
  [window_grown(t, ack - t.snd_una) EXCEPT !.snd_una = ack, !.last_ack_num = ack, !.dup_ack_count = 0,
                                    !.retransmit_queue = purged(@, ack)]

is_duplicate(t, seg) == "ACK" \in seg.flags /\ seg.ack = t.last_ack_num /\ seg.length = 0

acknowledged(t, seg) ==
  IF is_duplicate(t, seg) THEN duplicate_ack(t)
  ELSE IF "ACK" \in seg.flags /\ seg.ack > t.snd_una THEN new_ack(t, seg.ack) ELSE t

(* Payload counts as received wherever it lies, and a FIN half-closes; the *)
(* fast retransmission returns before either is looked at.                 *)
received(t, seg) ==
  IF is_duplicate(t, seg) /\ t.dup_ack_count = 3 THEN t
  ELSE LET got == [t EXCEPT !.rcv_nxt = @ + seg.length]
       IN  IF "FIN" \in seg.flags THEN [got EXCEPT !.rcv_nxt = @ + 1, !.state = "HalfClosed"] ELSE got

process_segment(t, seg) ==
  CASE t.state = "Created" ->
         IF "SYN" \in seg.flags THEN [t EXCEPT !.rcv_nxt = 1, !.state = "Established"] ELSE t
    [] t.state = "Established" -> received(acknowledged(t, seg), seg)
    [] t.state = "HalfClosed" -> IF "ACK" \in seg.flags THEN [t EXCEPT !.state = "Closed"] ELSE t
    [] OTHER -> t

(* What may arrive: a peer acknowledges no byte that was never sent, and   *)
(* acknowledges in every segment but its first.                            *)
Arriving(t) ==
  {[flags |-> {"SYN"}, ack |-> 0, length |-> 0]}
  \cup [flags : {{"ACK"}}, ack : 0..t.snd_nxt, length : {0, 1}]
  \cup [flags : {{"ACK", "FIN"}}, ack : 0..t.snd_nxt, length : {0}]

Deliver(i, seg) ==
  \E next \in {[tcbs EXCEPT ![i] = process_segment(@, seg)]} :
    /\ total(next, "dup_ack_count") <= MaxDupAcks /\ total(next, "rcv_nxt") <= MaxReceived
    /\ tcbs' = next /\ UNCHANGED <<sent, wire>>
-----------------------------------------------------------------------------
Backoff == 4
atMost(a, b) == IF a < b THEN a ELSE b

expired(t) == {k \in DOMAIN t.retransmit_queue : t.retransmit_queue[k].rto_ticks = 0}

(* Index of the first expired segment, or 0.  The segments behind it are   *)
(* not counted down in this tick.                                          *)
due(t) == IF expired(t) = {} THEN 0 ELSE CHOOSE k \in expired(t) : \A j \in expired(t) : k <= j

handle_timer_tick(t) ==
  LET q == t.retransmit_queue
      counted == [k \in DOMAIN q |->
        CASE due(t) = 0 \/ k < due(t) -> [q[k] EXCEPT !.rto_ticks = @ - 1]
          [] k = due(t) -> [q[k] EXCEPT !.retransmit_count = @ + 1,
                                        !.rto_ticks = Rto * 2^atMost(q[k].retransmit_count + 1, Backoff)]
          [] OTHER -> q[k]]
  IN  IF due(t) = 0 THEN [t EXCEPT !.retransmit_queue = counted]
      ELSE [t EXCEPT !.retransmit_queue = counted, !.ssthresh = halved(t), !.cwnd = Mss,
                     !.congestion = "SlowStart"]

SamePorts(a, b) == a.local = b.local /\ a.remote.port = b.remote.port

(* A frame's address comes from the first block with the header's ports. *)
frame_for(i) ==
  LET owners == {k \in DOMAIN tcbs : SamePorts(tcbs[k], tcbs[i])}
      owner == CHOOSE k \in owners : \A j \in owners : k <= j
  IN  [session |-> i, to |-> tcbs[owner].remote.ip, seq |-> tcbs[i].retransmit_queue[due(tcbs[i])].seq]

(* One turn of the main loop: poll_timer_ticks, build_retransmit_frames *)
Poll ==
  /\ \A i \in DOMAIN tcbs : due(tcbs[i]) # 0 =>
       tcbs[i].retransmit_queue[due(tcbs[i])].retransmit_count < MaxRetransmits
  /\ tcbs' = [i \in DOMAIN tcbs |-> handle_timer_tick(tcbs[i])]
  /\ wire' = {frame_for(i) : i \in {i \in DOMAIN tcbs : due(tcbs[i]) # 0}}
  /\ UNCHANGED sent

TcpInit == tcbs = <<>> /\ sent = <<>> /\ wire = {}

TcpNext ==
  \/ create_session
  \/ \E i \in DOMAIN tcbs : close_session(i) \/ \E n \in 1..Mss : SendSegment(i, n)
  \/ \E i \in DOMAIN tcbs : \E seg \in Arriving(tcbs[i]) : Deliver(i, seg)
  \/ Poll

TcpSpec == TcpInit /\ [][TcpNext]_tcpvars
-----------------------------------------------------------------------------
(* Whatever the network loses, repeats or reorders, a session waits for    *)
(* exactly what it sent and the peer has not fully acknowledged, never     *)
(* takes an old acknowledgement for a newer one, keeps a window of a       *)
(* segment at least, is in fast recovery only after three duplicates since *)
(* the last progress, and what it sends again goes to its own peer unless  *)
(* another session uses the same two ports.                                *)
NothingForgotten ==
  /\ \A i \in DOMAIN tcbs :
       LET t == tcbs[i]
           waiting == [k \in DOMAIN t.retransmit_queue |->
                         [seq |-> t.retransmit_queue[k].seq, length |-> t.retransmit_queue[k].length]]
       IN  /\ waiting = SelectSeq(sent[i], LAMBDA s : s.seq + s.length > t.snd_una)
           /\ t.last_ack_num = t.snd_una /\ t.snd_una <= t.snd_nxt
           /\ t.cwnd >= Mss /\ t.ssthresh >= 2 * Mss
           /\ t.congestion = "FastRecovery" => t.dup_ack_count >= 3
  /\ \A f \in wire :
       \/ f.to = tcbs[f.session].remote.ip
       \/ \E k \in DOMAIN tcbs \ {f.session} : SamePorts(tcbs[k], tcbs[f.session])
=============================================================================
