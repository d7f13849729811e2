---------------------------- MODULE TinyMacNode ----------------------------
(***************************************************************************)
(* The delivery engine of lib/tinymac.c: what the MAC keeps for one peer   *)
(* (tinymac_node_t) and how sending, acknowledging, retrying and expiring  *)
(* a packet change it.  A coordinator keeps one node per address slot, a   *)
(* client one node for its coordinator; both run the code below.           *)
(*                                                                         *)
(* Time is relative: a timer holds the ticks left until it is due, Off     *)
(* when its callback is NULL, and a node holds the ticks since it was last *)
(* heard.  The code keeps absolute 32-bit tick counts and compares their   *)
(* signed difference, which is the same thing for spans below 2^31 ticks.  *)
(*                                                                         *)
(* An operation maps a step record to a step record:                       *)
(*   n     the node                                                        *)
(*   tx    the packets handed to phy_send so far in the step               *)
(*   cb    the send callbacks invoked so far, <<message, result>>          *)
(*   gone  whether dereg_cb was invoked for the node                       *)
(***************************************************************************)
EXTENDS Integers

CONSTANTS
    Msgs,              \* payloads the application sends, each with its own callback
    NoMsg,             \* a NULL callback
    NoBody,            \* an empty payload
    Uuids,             \* unit identifiers of the devices
    NoUuid,            \* uuid 0: a slot never allocated, or "whoever you are"
    NoPacket,          \* the pending buffer before its first use
    MAX_NODES,         \* TINYMAC_MAX_NODES
    MAX_RETRIES,       \* TINYMAC_MAX_RETRIES
    ACK_TICKS,         \* TINYMAC_MILLIS(TINYMAC_ACK_TIMEOUT)
    TICKS_PER_SECOND,  \* 1000 / TINYMAC_TICK_MS
    HEARTBEAT_GRACE,   \* TINYMAC_HEARTBEAT_GRACE, in seconds
    Heartbeats,        \* heartbeat periods 1 << (flags & HEARTBEAT_MASK), in seconds
    NetIds,            \* network identifiers, NETWORK_ANY included
    SEQ_MOD            \* sequence numbers are modulo 2^8

Broadcast   == 255   \* TINYMAC_ADDR_BROADCAST
Unassigned  == 255   \* TINYMAC_ADDR_UNASSIGNED
NETWORK_ANY == 255   \* TINYMAC_NETWORK_ANY
COORD_ADDR  == 0     \* the coordinator's own short address

Slots == 1 .. MAX_NODES
Addrs == {COORD_ADDR, Unassigned} \cup Slots
Seqs  == 0 .. SEQ_MOD - 1

ASSUME NodeConstants ==
    /\ MAX_NODES \in 1 .. 254
    /\ MAX_RETRIES \in 0 .. 254
    /\ ACK_TICKS \in Nat \ {0}
    /\ TICKS_PER_SECOND \in Nat \ {0}
    /\ HEARTBEAT_GRACE \in Nat
    /\ Heartbeats \subseteq Nat \ {0}
    /\ 1 \in Heartbeats
    /\ NetIds \subseteq 0 .. 255
    /\ NETWORK_ANY \in NetIds
    /\ SEQ_MOD \in Nat \ {0}
    /\ NoMsg \notin Msgs
    /\ NoUuid \notin Uuids

----------------------------------------------------------------------------
(* Packets.  A registration request carries the device's uuid and flags, a *)
(* response the uuid, address and status, a beacon its flags and the       *)
(* addresses with data pending.                                            *)

Types == {"Beacon", "BeaconRequest", "Poll", "Ack", "RegistrationRequest",
          "DeregistrationRequest", "RegistrationResponse", "Data"}

Status == {"Success", "NetworkFull", "AddressInvalid"}

RegistrationRequests   == [uuid : Uuids, sleepy : BOOLEAN, heartbeat : Heartbeats]
DeregistrationRequests == [uuid : Uuids]
RegistrationResponses  == [uuid : Uuids \cup {NoUuid}, addr : Addrs, status : Status]
Beacons                == [sync : BOOLEAN, permit : BOOLEAN, pending : SUBSET Addrs]

Bodies == Msgs \cup {NoBody} \cup RegistrationRequests \cup DeregistrationRequests
          \cup RegistrationResponses \cup Beacons

Packets == [type : Types, net : NetIds, dest : Addrs, src : Addrs,
            seq : Seqs, ar : BOOLEAN, dp : BOOLEAN, body : Bodies]

\* The header every sender builds; dp is set only by tinymac_tx_ack.
Packet(type, net, dest, src, seq, ar, body) ==
    [type |-> type, net |-> net, dest |-> dest, src |-> src,
     seq |-> seq, ar |-> ar, dp |-> FALSE, body |-> body]

\* What tinymac_recv_cb lets past its loopback and destination filters.
PassesFilter(p, net, addr) ==
    /\ p.src # addr
    /\ \/ p.net = net /\ p.dest \in {addr, Broadcast}
       \/ p.net = NETWORK_ANY /\ p.dest = Broadcast
       \/ net = NETWORK_ANY /\ p.dest = Broadcast

\* A payload of the application is not mistaken for one of the protocol.
ASSUME MessagesAreData ==
    \A m \in Msgs : m \notin {NoBody} \cup RegistrationResponses \cup Beacons

----------------------------------------------------------------------------
(* The node and its timers. *)

Off == -1            \* timer->callback == NULL
Timers == Nat \cup {Off}

NodeStates == {"Unregistered", "Registered", "SendPending", "WaitAck"}

Nodes == [state : NodeStates, uuid : Uuids \cup {NoUuid}, sleepy : BOOLEAN,
          heartbeat : Heartbeats, age : Nat, ack : Timers, val : Timers,
          retries : 0 .. 255, pend : Packets \cup {NoPacket},
          cb : Msgs \cup {NoMsg}]

\* A zeroed node: flags 0 read as heartbeat 1 << 0, not sleepy.
InitNode ==
    [state |-> "Unregistered", uuid |-> NoUuid, sleepy |-> FALSE,
     heartbeat |-> 1, age |-> 0, ack |-> Off, val |-> Off,
     retries |-> 0, pend |-> NoPacket, cb |-> NoMsg]

Seconds(s) == s * TICKS_PER_SECOND

\* The silence after which the coordinator drops a node.
HeartbeatLimit(n) == Seconds(n.heartbeat + HEARTBEAT_GRACE)

Begin(n) == [n |-> n, tx |-> {}, cb |-> {}, gone |-> FALSE]

\* The step goes on with node n, having sent packets and invoked calls.
Then(r, n, packets, calls) ==
    [n |-> n, tx |-> r.tx \cup packets, cb |-> r.cb \cup calls, gone |-> r.gone]

\* if (node->send_cb) node->send_cb(rc)
Invoke(n, rc) == IF n.cb = NoMsg THEN {} ELSE {<<n.cb, rc>>}

Deregister(r) ==
    [n |-> [r.n EXCEPT !.state = "Unregistered"], tx |-> r.tx, cb |-> r.cb, gone |-> TRUE]

----------------------------------------------------------------------------
(* Sending. *)

\* tinymac_tx_packet to a peer.  The caller has advanced the sequence number
\* and built p; a busy or unregistered peer refuses.
TxPacketAccepts(n) == n.state = "Registered"

TxPacket(n, p, validity, cb) ==
    LET stored == [n EXCEPT !.pend = p, !.cb = cb, !.retries = MAX_RETRIES]
        r == Begin(n)
    IN  CASE ~TxPacketAccepts(n) -> r
          [] TxPacketAccepts(n) /\ n.sleepy ->
               Then(r, [stored EXCEPT !.state = "SendPending", !.val = Seconds(validity)], {}, {})
          [] TxPacketAccepts(n) /\ ~n.sleepy /\ p.ar ->
               Then(r, [stored EXCEPT !.state = "WaitAck", !.ack = ACK_TICKS], {p}, {})
          [] TxPacketAccepts(n) /\ ~n.sleepy /\ ~p.ar ->
               Then(r, n, {p}, {})

\* Faulty variants: the validity period is left running, the wait untimed.
TxPendingValidityRuns(r) ==
    LET n == r.n
    IN  CASE n.state # "SendPending" -> r
          [] n.state = "SendPending" /\ n.pend.ar ->
               Then(r, [n EXCEPT !.state = "WaitAck", !.ack = ACK_TICKS], {n.pend}, {})
          [] n.state = "SendPending" /\ ~n.pend.ar ->
               Then(r, [n EXCEPT !.state = "Registered"], {n.pend}, Invoke(n, 0))

TxPendingUntimed(r) ==
    LET n == r.n
    IN  CASE n.state # "SendPending" -> r
          [] n.state = "SendPending" /\ n.pend.ar ->
               Then(r, [n EXCEPT !.state = "WaitAck"], {n.pend}, {})
          [] n.state = "SendPending" /\ ~n.pend.ar ->
               Then(r, [n EXCEPT !.state = "Registered", !.val = Off], {n.pend}, Invoke(n, 0))

\* Release the packet held for a sleepy peer that has just been heard.
TxPending(r) ==
    LET n == r.n
    IN  CASE n.state # "SendPending" -> r
          [] n.state = "SendPending" /\ n.pend.ar ->
               Then(r, [n EXCEPT !.state = "WaitAck", !.ack = ACK_TICKS], {n.pend}, {})
          [] n.state = "SendPending" /\ ~n.pend.ar ->
               Then(r, [n EXCEPT !.state = "Registered", !.val = Off], {n.pend}, Invoke(n, 0))

\* Faulty variant: the pending packet goes out before the flag is worked out.
TxAckLate(r, net, src, addr, seq) ==
    LET q == TxPending(r)
        ack == [Packet("Ack", net, addr, src, seq, FALSE, NoBody)
                  EXCEPT !.dp = (q.n.state = "SendPending")]
    IN  Then(q, q.n, {ack}, {})

\* Acknowledge a packet from the peer at addr, announcing and then sending
\* what is pending for it.
TxAck(r, net, src, addr, seq) ==
    LET ack == [Packet("Ack", net, addr, src, seq, FALSE, NoBody)
                  EXCEPT !.dp = (r.n.state = "SendPending")]
    IN  TxPending(Then(r, r.n, {ack}, {}))

----------------------------------------------------------------------------
(* Receiving. *)

\* What tinymac_recv_cb does for a known source before looking at the type.
Heard(n, p, net, addr) ==
    LET r == Begin([n EXCEPT !.age = 0])
    IN  TxPending(IF p.ar THEN TxAck(r, net, addr, p.src, p.seq) ELSE r)

\* Faulty variant: the validity timer is not cancelled.
RxAckKeepsValidity(r, seq) ==
    IF r.n.state = "WaitAck" /\ seq = r.n.pend.seq
    THEN Then(r, [r.n EXCEPT !.state = "Registered", !.ack = Off], {}, Invoke(r.n, 0))
    ELSE r

\* tinymacType_Ack: only the awaited sequence number completes the send.
RxAck(r, seq) ==
    IF r.n.state = "WaitAck" /\ seq = r.n.pend.seq
    THEN Then(r, [r.n EXCEPT !.state = "Registered", !.ack = Off, !.val = Off],
              {}, Invoke(r.n, 0))
    ELSE r

----------------------------------------------------------------------------
(* Timeouts.  A due timer is cleared before its callback runs. *)

\* Faulty variants: a deferral that is not counted, a retry too few, a retry
\* without a timer.
AckTimeoutFreeDeferral(r) ==
    LET n == [r.n EXCEPT !.ack = Off]
    IN  CASE n.retries # 0 /\ n.sleepy -> Then(r, [n EXCEPT !.state = "SendPending"], {}, {})
          [] n.retries # 0 /\ ~n.sleepy ->
               Then(r, [n EXCEPT !.retries = @ - 1, !.ack = ACK_TICKS], {n.pend}, {})
          [] n.retries = 0 ->
               Deregister(Then(r, [n EXCEPT !.retries = 255, !.val = Off], {}, Invoke(n, -1)))

AckTimeoutEarly(r) ==
    LET n == [r.n EXCEPT !.ack = Off]
    IN  CASE n.retries > 1 /\ n.sleepy ->
               Then(r, [n EXCEPT !.retries = @ - 1, !.state = "SendPending"], {}, {})
          [] n.retries > 1 /\ ~n.sleepy ->
               Then(r, [n EXCEPT !.retries = @ - 1, !.ack = ACK_TICKS], {n.pend}, {})
          [] n.retries <= 1 ->
               Deregister(Then(r, [n EXCEPT !.retries = 0, !.val = Off], {}, Invoke(n, -1)))

AckTimeoutOnce(r) ==
    LET n == [r.n EXCEPT !.ack = Off]
    IN  CASE n.retries # 0 /\ n.sleepy ->
               Then(r, [n EXCEPT !.retries = @ - 1, !.state = "SendPending"], {}, {})
          [] n.retries # 0 /\ ~n.sleepy -> Then(r, [n EXCEPT !.retries = @ - 1], {n.pend}, {})
          [] n.retries = 0 ->
               Deregister(Then(r, [n EXCEPT !.retries = 255, !.val = Off], {}, Invoke(n, -1)))

\* tinymac_ack_timeout: defer again, re-send, or give the node up.
AckTimeout(r) ==
    LET n == [r.n EXCEPT !.ack = Off]
    IN  CASE n.retries # 0 /\ n.sleepy ->
               Then(r, [n EXCEPT !.retries = @ - 1, !.state = "SendPending"], {}, {})
          [] n.retries # 0 /\ ~n.sleepy ->
               Then(r, [n EXCEPT !.retries = @ - 1, !.ack = ACK_TICKS], {n.pend}, {})
          [] n.retries = 0 ->
               Deregister(Then(r, [n EXCEPT !.retries = 255, !.val = Off], {}, Invoke(n, -1)))

\* Faulty variant: the wrong result is reported.
ValidityTimeoutSucceeds(r) ==
    Then(r, [r.n EXCEPT !.val = Off, !.state = "Registered", !.ack = Off],
         {}, Invoke(r.n, 0))

\* tinymac_validity_timeout
ValidityTimeout(r) ==
    Then(r, [r.n EXCEPT !.val = Off, !.state = "Registered", !.ack = Off],
         {}, Invoke(r.n, -1))

DespatchAck(r) == IF r.n.ack = 0 THEN AckTimeout(r) ELSE r

DespatchValidity(r) == IF r.n.val = 0 THEN ValidityTimeout(r) ELSE r

\* Faulty variants: dereg_cb is not invoked; only sleepy nodes are checked.
CheckHeartbeatSilently(r) ==
    IF r.n.state = "Registered" /\ r.n.age >= HeartbeatLimit(r.n)
    THEN Then(r, [r.n EXCEPT !.state = "Unregistered"], {}, {}) ELSE r

CheckHeartbeatSleepyOnly(r) ==
    IF r.n.state = "Registered" /\ r.n.sleepy /\ r.n.age >= HeartbeatLimit(r.n)
    THEN Deregister(r) ELSE r

\* The heartbeat check of tinymac_tick_handler.
CheckHeartbeat(r) ==
    IF r.n.state = "Registered" /\ r.n.age >= HeartbeatLimit(r.n)
    THEN Deregister(r) ELSE r

\* Faulty variant: a timer that is off counts too.
ElapseAlways(t) == t - 1

\* tick_count++ as the relative clocks see it; the age stops at the limit,
\* beyond which no comparison tells values apart.
Elapse(t) == IF t = Off THEN Off ELSE t - 1

AdvanceClock(r) ==
    LET n == r.n
    IN  Then(r, [n EXCEPT !.ack = Elapse(n.ack), !.val = Elapse(n.val),
                          !.age = IF n.age < HeartbeatLimit(n) THEN n.age + 1 ELSE n.age],
             {}, {})

\* One node's share of the coordinator's tick.
NodeTick(n) ==
    AdvanceClock(DespatchValidity(DespatchAck(CheckHeartbeat(Begin(n)))))

----------------------------------------------------------------------------
(* What properties of a node are stated with. *)

Busy(n) == n.state \in {"SendPending", "WaitAck"}

TimersMatch(n) ==
    /\ ~Busy(n) => n.ack = Off /\ n.val = Off
    /\ n.state = "SendPending" => n.sleepy /\ n.val # Off /\ n.ack = Off
    /\ n.state = "WaitAck" => n.pend.ar /\ n.ack # Off /\ (n.sleepy <=> n.val # Off)
=============================================================================
