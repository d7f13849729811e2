---------------------------- MODULE TinyMacCoord ----------------------------
(***************************************************************************)
(* The coordinator half of lib/tinymac.c: the node registry, the receive   *)
(* callback, the 250 ms tick and the calls of the application.  The code   *)
(* is single threaded, so each of its entry points is one action; the      *)
(* order in which packets, ticks and calls arrive is arbitrary.            *)
(*                                                                         *)
(* Three variables belong to the application and not to the MAC: sends is  *)
(* what tinymac_send and the send callbacks have told it about each        *)
(* message, live the nodes that reg_cb and dereg_cb have told it about,    *)
(* copies in how many steps a message has been put on the air.             *)
(***************************************************************************)
EXTENDS TinyMacNode

CONSTANTS
    Validities,        \* validity periods the application passes, in seconds
    BEACON_PERIOD,     \* 2^beacon_interval slots
    BEACON_OFFSET      \* params.beacon_offset

ASSUME CoordConstants ==
    /\ Validities \subseteq Nat
    /\ BEACON_PERIOD \in Nat \ {0}
    /\ BEACON_OFFSET \in Nat

VARIABLES
    nodes,          \* tinymac_ctx->nodes; slot s has the address s
    net_id,
    permit_attach,
    dseq,
    slot,           \* beacon slot counter, modulo BEACON_PERIOD
    tx,             \* packets sent by the last step
    sends,
    copies,
    live

vars == <<nodes, net_id, permit_attach, dseq, slot, tx, sends, copies, live>>

SendStatus == {"idle", "unconfirmed", "pending", "delivered", "failed", "spurious"}

\* One more copy than the code can send is enough to see a bound broken.
MaxCopies == MAX_RETRIES + 2

TypeOK ==
    /\ nodes \in [Slots -> Nodes]
    /\ net_id \in NetIds
    /\ permit_attach \in BOOLEAN
    /\ dseq \in Seqs
    /\ slot \in 0 .. BEACON_PERIOD - 1
    /\ tx \in SUBSET Packets
    /\ sends \in [Msgs -> SendStatus]
    /\ copies \in [Msgs -> 0 .. MaxCopies]
    /\ live \in SUBSET Slots

\* tinymac_init: net_id and dseq come from rand().
Init ==
    /\ nodes = [s \in Slots |-> InitNode]
    /\ net_id \in NetIds
    /\ permit_attach = FALSE
    /\ dseq \in Seqs
    /\ slot = 0
    /\ tx = {}
    /\ sends = [m \in Msgs |-> "idle"]
    /\ copies = [m \in Msgs |-> 0]
    /\ live = {}

----------------------------------------------------------------------------
(* A step of the MAC is a step record per slot, the packets sent besides   *)
(* and the sequence numbers used.  Its callbacks reach the application.    *)

Idle == [s \in Slots |-> Begin(nodes[s])]

NextSeq == (dseq + 1) % SEQ_MOD

Callbacks(R, m) == {c \in Slots \X {0, -1} : <<m, c[2]>> \in R[c[1]].cb}

Outcome(status, calls) ==
    CASE calls = {} -> status
      [] calls # {} /\ status = "pending" /\ \E s \in Slots : calls = {<<s, 0>>}  -> "delivered"
      [] calls # {} /\ status = "pending" /\ \E s \in Slots : calls = {<<s, -1>>} -> "failed"
      [] OTHER -> "spurious"

Copies(k, m, packets) ==
    IF k < MaxCopies /\ \E p \in packets : p.body = m THEN k + 1 ELSE k

Perform(R, extra, status, counts) ==
    /\ nodes'  = [s \in Slots |-> R[s].n]
    /\ tx'     = extra \cup UNION {R[s].tx : s \in Slots}
    /\ sends'  = [m \in Msgs |-> Outcome(status[m], Callbacks(R, m))]
    /\ copies' = [m \in Msgs |-> Copies(counts[m], m, tx')]

Apply(R, extra) == Perform(R, extra, sends, copies)

Gone(R) == {s \in Slots : R[s].gone}

----------------------------------------------------------------------------
(* The application's calls. *)

\* tinymac_send(s, Data with or without AR, m, validity, callback of m).
\* phy is FALSE when phy_send fails; the application then sees an error.
Send(s, ar, m, validity, phy) ==
    LET n == nodes[s]
        p == Packet("Data", net_id, s, COORD_ADDR, NextSeq, ar, m)
        v == IF validity = 0 THEN n.heartbeat ELSE validity
        r == TxPacket(n, p, v, m)
        sent == [n |-> r.n, tx |-> IF phy THEN r.tx ELSE {}, cb |-> {}, gone |-> FALSE]
        told == IF ~TxPacketAccepts(n) \/ (r.tx # {} /\ ~phy) THEN sends[m]
                ELSE IF ar \/ n.sleepy THEN "pending" ELSE "unconfirmed"
    IN  /\ sends[m] # "pending"
        /\ n.state # "Unregistered"
        /\ dseq' = NextSeq
        /\ Perform([Idle EXCEPT ![s] = sent], {},
                   [sends EXCEPT ![m] = told],
                   [copies EXCEPT ![m] = IF TxPacketAccepts(n) THEN 0 ELSE @])
        /\ UNCHANGED <<net_id, permit_attach, slot, live>>

PermitAttach(permit) ==
    /\ permit_attach' = permit
    /\ permit_attach # permit
    /\ tx' = {}
    /\ UNCHANGED <<nodes, net_id, dseq, slot, sends, copies, live>>

----------------------------------------------------------------------------
(* The receive callback. *)

Accepts(p) ==
    /\ PassesFilter(p, net_id, COORD_ADDR)
    /\ p.net = NETWORK_ANY \/ p.src = Unassigned => permit_attach

\* tinymac_get_node_by_addr
Known(addr) == addr \in Slots /\ nodes[addr].state # "Unregistered"

Beacon(sync) ==
    Packet("Beacon", net_id, Broadcast, COORD_ADDR, 0, FALSE,
           [sync |-> sync, permit |-> permit_attach,
            pending |-> IF sync THEN {s \in Slots : nodes[s].state = "SendPending"}
                        ELSE {}])

Response(dest, uuid, addr, status) ==
    Packet("RegistrationResponse", net_id, dest, COORD_ADDR, NextSeq, FALSE,
           [uuid |-> uuid, addr |-> addr, status |-> status])

\* The searches go up the table and stop at the first slot that qualifies.
Before(t, S) == \A s \in S : t <= s

First(S) == IF S = {} THEN 0 ELSE CHOOSE s \in S : \A t \in S : Before(t, S) => s = t

\* Faulty variants: the device's own slot is not looked for; a lapsed slot is
\* taken though one was never used.
SlotForFresh(uuid) ==
    LET unused == First({s \in Slots : nodes[s].uuid = NoUuid})
        free   == First({s \in Slots : nodes[s].state = "Unregistered"})
    IN  IF unused # 0 THEN unused ELSE free

SlotForLapsed(uuid) ==
    LET held == First({s \in Slots : nodes[s].uuid = uuid})
        free == First({s \in Slots : nodes[s].state = "Unregistered"})
    IN  IF held # 0 THEN held ELSE free

\* tinymac_get_node_by_uuid, else tinymac_get_free_node; 0 when full.
SlotFor(uuid) ==
    LET held   == First({s \in Slots : nodes[s].uuid = uuid})
        unused == First({s \in Slots : nodes[s].uuid = NoUuid})
        free   == First({s \in Slots : nodes[s].state = "Unregistered"})
    IN  IF held # 0 THEN held ELSE IF unused # 0 THEN unused ELSE free

\* The slot's timers, pending packet and callback are left as they are.
Register(r, body) ==
    Then(r, [r.n EXCEPT !.state = "Registered", !.uuid = body.uuid, !.sleepy = body.sleepy,
                        !.heartbeat = body.heartbeat, !.age = 0], {}, {})

\* reg_cb is invoked last, with NULL when the table is full: there is then no
\* node the application gets to know.
RxRegistrationRequest(R, p) ==
    LET s == SlotFor(p.body.uuid)
    IN  /\ p.type = "RegistrationRequest"
        /\ IF s # 0
           THEN /\ Apply([R EXCEPT ![s] = Register(@, p.body)],
                         {Response(Broadcast, p.body.uuid, s, "Success")})
                /\ live' = live \cup {s}
           ELSE /\ Apply(R, {Response(Broadcast, p.body.uuid, Unassigned, "NetworkFull")})
                /\ UNCHANGED live
        /\ dseq' = NextSeq

\* The response goes through tinymac_tx_packet, so it is deferred for a
\* sleepy node and dropped for a busy one; then the slot is freed.
RxDeregistrationRequest(R, p) ==
    LET s == p.src
        r == R[s]
        a == TxPacket(r.n, Response(s, p.body.uuid, Unassigned, "Success"), 0, NoMsg)
    IN  /\ p.type = "DeregistrationRequest"
        /\ IF Known(s) /\ nodes[s].uuid = p.body.uuid
           THEN /\ Apply([R EXCEPT ![s] = Deregister(Then(r, a.n, a.tx, {}))], {})
                /\ live' = live \ {s}
                /\ dseq' = NextSeq
           ELSE /\ Apply(R, {})
                /\ UNCHANGED <<live, dseq>>

RxAcknowledgement(R, p) ==
    /\ p.type = "Ack"
    /\ Apply(IF Known(p.src) THEN [R EXCEPT ![p.src] = RxAck(@, p.seq)] ELSE R, {})
    /\ UNCHANGED <<live, dseq>>

RxBeaconRequest(R, p) ==
    /\ p.type = "BeaconRequest"
    /\ Apply(R, {Beacon(FALSE)})
    /\ UNCHANGED <<live, dseq>>

\* Data goes up to rx_cb, a poll has been answered already, beacons and
\* responses are for clients.
RxOther(R, p) ==
    /\ p.type \in {"Data", "Poll", "Beacon", "RegistrationResponse"}
    /\ Apply(R, {})
    /\ UNCHANGED <<live, dseq>>

Handle(R, p) ==
    \/ RxAcknowledgement(R, p)
    \/ RxBeaconRequest(R, p)
    \/ RxRegistrationRequest(R, p)
    \/ RxDeregistrationRequest(R, p)
    \/ RxOther(R, p)

RecvUnassigned(p) ==
    /\ p.src = Unassigned
    /\ Handle(Idle, p)

RecvKnown(p) ==
    /\ Known(p.src)
    /\ Handle([Idle EXCEPT ![p.src] = Heard(nodes[p.src], p, net_id, COORD_ADDR)], p)

\* An assigned but unknown address is told to go away; nothing else is done.
RecvUnknown(p) ==
    /\ p.src # Unassigned
    /\ ~Known(p.src)
    /\ Apply(Idle, {Response(p.src, NoUuid, Unassigned, "AddressInvalid")})
    /\ dseq' = NextSeq
    /\ UNCHANGED live

RecvCb(p) ==
    /\ Accepts(p)
    /\ RecvUnassigned(p) \/ RecvKnown(p) \/ RecvUnknown(p)
    /\ UNCHANGED <<net_id, permit_attach, slot>>

----------------------------------------------------------------------------
(* The tick. *)

TickHandler ==
    LET R == [s \in Slots |-> NodeTick(nodes[s])]
        due == (slot + 1) % BEACON_PERIOD = BEACON_OFFSET
    IN  /\ slot' = (slot + 1) % BEACON_PERIOD
        /\ Apply(R, IF due THEN {Beacon(TRUE)} ELSE {})
        /\ live' = live \ Gone(R)
        /\ UNCHANGED <<net_id, permit_attach, dseq>>

----------------------------------------------------------------------------
(* What devices put on the air for a coordinator: the packets built by the *)
(* client half of lib/tinymac.c, and the deregistration request of the     *)
(* protocol, which the coordinator answers though no client sends it yet.  *)

FromClient(type, src, seq, ar, body) == Packet(type, net_id, COORD_ADDR, src, seq, ar, body)

ClientPackets ==
    {FromClient("Poll", s, 0, FALSE, NoBody) : s \in Slots}
    \cup {FromClient("Ack", c[1], c[2], FALSE, NoBody) : c \in Slots \X Seqs}
    \cup {FromClient("Data", c[1], 0, c[2], NoBody) : c \in (Slots \cup {Unassigned}) \X BOOLEAN}
    \cup {Packet("BeaconRequest", NETWORK_ANY, Broadcast, Unassigned, 0, FALSE, NoBody)}
    \cup {FromClient("RegistrationRequest", Unassigned, 0, FALSE, b) : b \in RegistrationRequests}
    \cup {FromClient("DeregistrationRequest", c[1], 0, FALSE, c[2])
             : c \in Slots \X DeregistrationRequests}

AppSend(phy) ==
    \E s \in Slots, ar \in BOOLEAN, m \in Msgs, v \in Validities : Send(s, ar, m, v, phy)

Next ==
    \/ AppSend(TRUE)
    \/ AppSend(FALSE)
    \/ \E permit \in BOOLEAN : PermitAttach(permit)
    \/ \E p \in ClientPackets : RecvCb(p)
    \/ TickHandler

Spec == Init /\ [][Next]_vars

\* The timer of the host calls the tick for ever; nothing else is promised.
FairSpec == Spec /\ WF_vars(TickHandler)

----------------------------------------------------------------------------
(* The orderly environment: the radio takes every packet, a device         *)
(* registers, or asks to be deregistered, only while nothing is            *)
(* outstanding for its slot, and no sleepy device asks the latter.         *)

Quiet(n) == n.ack = Off /\ n.val = Off /\ n.state \in {"Unregistered", "Registered"}

Orderly(p) ==
    /\ p.type = "RegistrationRequest" =>
          LET s == SlotFor(p.body.uuid) IN s # 0 => Quiet(nodes[s])
    /\ p.type = "DeregistrationRequest" /\ Known(p.src) =>
          Quiet(nodes[p.src]) /\ ~nodes[p.src].sleepy

OrderlyNext ==
    \/ AppSend(TRUE)
    \/ \E permit \in BOOLEAN : PermitAttach(permit)
    \/ \E p \in ClientPackets : Orderly(p) /\ RecvCb(p)
    \/ TickHandler

OrderlySpec == Init /\ [][OrderlyNext]_vars

FairOrderlySpec == OrderlySpec /\ WF_vars(TickHandler)

----------------------------------------------------------------------------
(* Properties of every behaviour. *)

\* No device holds two addresses: a registration request finds the slot the
\* device already has, live or lapsed, before it takes another
\* (tinymac_rx_registration_request).
RegistryUnique ==
    \A s, t \in Slots :
        nodes[s].uuid = nodes[t].uuid /\ nodes[s].uuid # NoUuid => s = t

\* Whatever happened to the slot, a node waiting for an acknowledgement has
\* the timer running that will end the wait (tinymac_ack_timeout).
WaitAckTimed ==
    \A s \in Slots : nodes[s].state = "WaitAck" => nodes[s].ack # Off

\* An acknowledgement announces pending data exactly when the held packet
\* follows it in the same call: the peer's receiver is kept on for a packet
\* that comes and switched off when none does (tinymac_tx_ack).
DataPendingHonest ==
    \A p \in tx : p.type = "Ack" =>
        (p.dp <=> \E q \in tx : q.dest = p.dest /\ q.type # "Ack")

----------------------------------------------------------------------------
(* Properties of the orderly behaviours. *)

\* State and timers of a slot agree: nothing is armed for an idle or free
\* slot, a deferred packet has a validity period running, an unanswered one
\* an acknowledgement timeout, and a validity period too if the node sleeps.
\* The code cancels timers one by one at each way out of an exchange.
TimersMatchState == \A s \in Slots : TimersMatch(nodes[s])

\* The nodes the application has been told about through reg_cb and dereg_cb
\* are the nodes that are registered.
AppKnowsRegistry == live = {s \in Slots : nodes[s].state # "Unregistered"}

\* Copies sent and tries left of a packet in flight always add up to the
\* first transmission and TINYMAC_MAX_RETRIES more, over any mixture of
\* deferrals, timeouts and re-sends.
RetryBudget ==
    \A s \in Slots : LET n == nodes[s] IN
        Busy(n) /\ n.cb # NoMsg =>
            copies[n.cb] + n.retries + (IF n.state = "SendPending" THEN 1 ELSE 0)
                = MAX_RETRIES + 1

\* A send is reported delivered only if it went on the air at least once.
DeliveredWasSent ==
    \A m \in Msgs : sends[m] = "delivered" => copies[m] \in 1 .. MAX_RETRIES + 1

\* A send is reported failed only after all its retries, or when the
\* validity period given for a sleepy node has run out.
FailureJustified ==
    [][\A m \in Msgs : sends[m] = "pending" /\ sends'[m] = "failed" =>
          \/ copies[m] = MAX_RETRIES + 1
          \/ \E s \in Slots : nodes[s].cb = m /\ nodes[s].sleepy /\ nodes[s].val = 0]_vars

Silent(n) == n.state # "Unregistered" /\ n.age = HeartbeatLimit(n)

\* A node that does not sleep and has been silent for its heartbeat and the
\* grace period does not stay registered for ever, whatever is sent to it.
SilentNodeDropped ==
    \A s \in Slots : []<>(~Silent(nodes[s]) \/ nodes[s].sleepy)
=============================================================================
