---------------------------- MODULE TinyMacClient ----------------------------
(***************************************************************************)
(* The client half of lib/tinymac.c: looking for a network, registering    *)
(* with its coordinator, and exchanging packets with it.  What a client    *)
(* keeps is one record, and each entry point of the code maps it to a step *)
(*   c     the client                                                      *)
(*   tx    the packets handed to phy_send so far in the step               *)
(*   cb    the send callbacks invoked so far                               *)
(* Every coordinator has the short address 0 (tinymac_init), so coord.addr *)
(* is not kept.  A client never looks at last_heard: its coord has age 0.  *)
(***************************************************************************)
EXTENDS TinyMacNode

CONSTANTS
    Self,                \* params.uuid of this client
    HEARTBEAT,           \* heartbeat period in params.flags, in seconds
    BEACON_TICKS,        \* TINYMAC_SECONDS(TINYMAC_BEACON_REQUEST_TIMEOUT)
    REGISTRATION_TICKS   \* TINYMAC_MILLIS(TINYMAC_REGISTRATION_TIMEOUT)

ASSUME ClientConstants ==
    /\ Self \in Uuids
    /\ HEARTBEAT \in Heartbeats
    /\ BEACON_TICKS \in Nat \ {0}
    /\ REGISTRATION_TICKS \in Nat \ {0}

VARIABLES
    ctx,      \* tinymac_ctx
    tx,       \* packets sent by the last step
    sends     \* what the application knows of each message

vars == <<ctx, tx, sends>>

ClientStates == {"Unregistered", "BeaconRequest", "Registering", "Registered"}

\* The receiver: on, on until the listen period ends, or in standby.
Radio == {"on", "window", "off"}

Clients == [state : ClientStates, net : NetIds, addr : Addrs, dseq : Seqs,
            timer : Timers, coord : Nodes, sleepy : BOOLEAN, radio : Radio]

SendStatus == {"idle", "unconfirmed", "pending", "delivered", "failed", "spurious"}

ClientTypeOK ==
    /\ ctx \in Clients
    /\ tx \in SUBSET Packets
    /\ sends \in [Msgs -> SendStatus]

\* tinymac_init: a client that does not sleep switches its receiver on.
InitClient(sleepy, seq) ==
    [state |-> "Unregistered", net |-> NETWORK_ANY, addr |-> Unassigned,
     dseq |-> seq, timer |-> Off, coord |-> InitNode, sleepy |-> sleepy,
     radio |-> IF sleepy THEN "off" ELSE "on"]

Init ==
    /\ \E sleepy \in BOOLEAN, seq \in Seqs : ctx = InitClient(sleepy, seq)
    /\ tx = {}
    /\ sends = [m \in Msgs |-> "idle"]

----------------------------------------------------------------------------
(* Parts of a step. *)

Start(c) == [c |-> c, tx |-> {}, cb |-> {}]

\* Faulty variants: the client stays bound to the network, keeps its address.
UnboundKeepsNet(c) == [c EXCEPT !.state = "Unregistered", !.addr = Unassigned]

UnboundKeepsAddr(c) == [c EXCEPT !.state = "Unregistered", !.net = NETWORK_ANY]

\* Back to looking for a network.
Unbound(c) ==
    [c EXCEPT !.state = "Unregistered", !.addr = Unassigned, !.net = NETWORK_ANY]

\* The coordinator's node has gone through step r; deregistering it (which
\* is the only way to lose it) unbinds the client.
Coord(k, r) ==
    LET c == [k.c EXCEPT !.coord = r.n]
    IN  [c |-> IF r.gone THEN Unbound(c) ELSE c, tx |-> k.tx \cup r.tx, cb |-> k.cb \cup r.cb]

\* Faulty variant: the sequence number does not wrap.
NextSeqUnbounded(c) == c.dseq + 1

NextSeq(c) == (c.dseq + 1) % SEQ_MOD

\* tinymac_tx_packet(&coord, ...), and with no destination node (Cast).
Tx(k, type, ar, body, validity, cb) ==
    LET c == [k.c EXCEPT !.dseq = NextSeq(k.c)]
        p == Packet(type, c.net, COORD_ADDR, c.addr, c.dseq, ar, body)
    IN  Coord([k EXCEPT !.c = c], TxPacket(c.coord, p, validity, cb))

Cast(k, type) ==
    LET c == [k.c EXCEPT !.dseq = NextSeq(k.c)]
    IN  [k EXCEPT !.c = c,
                  !.tx = @ \cup {Packet(type, c.net, Broadcast, c.addr, c.dseq, FALSE, NoBody)}]

----------------------------------------------------------------------------
(* The tick. *)

AskForBeacon(k) ==
    IF k.c.state = "Unregistered"
    THEN Cast([k EXCEPT !.c.state = "BeaconRequest", !.c.timer = BEACON_TICKS], "BeaconRequest")
    ELSE k

\* Faulty variant: an unanswered registration request is not given up.
RequestTimeoutBeaconOnly(k) ==
    LET c == [k.c EXCEPT !.timer = Off]
    IN  IF c.state = "BeaconRequest"
        THEN Coord([k EXCEPT !.c = c], Deregister(Begin(c.coord)))
        ELSE [k EXCEPT !.c = c]

\* tinymac_request_timeout, in the two states that wait for an answer.
RequestTimeout(k) ==
    LET c == [k.c EXCEPT !.timer = Off]
    IN  IF c.state \in {"BeaconRequest", "Registering"}
        THEN Coord([k EXCEPT !.c = c], Deregister(Begin(c.coord)))
        ELSE [k EXCEPT !.c = c]

DespatchRequest(k) == IF k.c.timer = 0 THEN RequestTimeout(k) ELSE k

Advance(k) ==
    LET n == k.c.coord
    IN  [k EXCEPT !.c.timer = Elapse(@),
                  !.c.coord = [n EXCEPT !.ack = Elapse(@), !.val = Elapse(@)]]

DespatchCoord(k) == Coord(k, DespatchValidity(DespatchAck(Begin(k.c.coord))))

ClientTick(c) == Advance(DespatchRequest(DespatchCoord(AskForBeacon(Start(c)))))

----------------------------------------------------------------------------
(* Receiving. *)

Listening(c) == c.radio # "off"

\* Only coordinators take packets for all networks or without an address.
ClientAccepts(c, p) ==
    /\ Listening(c)
    /\ PassesFilter(p, c.net, c.addr)
    /\ p.net # NETWORK_ANY
    /\ p.src # Unassigned

\* A sleepy client switches off unless more is announced.
Overheard(c, p) ==
    IF c.sleepy THEN [c EXCEPT !.radio = IF p.dp THEN "window" ELSE "off"] ELSE c

CoordKnown(c) == c.coord.state # "Unregistered"

\* Faulty variant: no registration timer.
BindUntimed(c, net) ==
    [c EXCEPT !.state = "Registering", !.net = net,
              !.coord = [@ EXCEPT !.state = "Registered", !.sleepy = FALSE, !.heartbeat = 1]]

\* tinymac_rx_beacon; the new coordinator inherits timers, buffer and callback.
Bind(c, net) ==
    [c EXCEPT !.state = "Registering", !.net = net, !.timer = REGISTRATION_TICKS,
              !.coord = [@ EXCEPT !.state = "Registered", !.sleepy = FALSE, !.heartbeat = 1]]

RxBeacon(k, p) ==
    LET c == IF k.c.state = "BeaconRequest" THEN [k.c EXCEPT !.timer = Off] ELSE k.c
        request == [uuid |-> Self, sleepy |-> c.sleepy, heartbeat |-> HEARTBEAT]
    IN  CASE c.state \in {"Unregistered", "BeaconRequest"} /\ p.body.permit ->
               Tx([k EXCEPT !.c = Bind(c, p.net)], "RegistrationRequest", FALSE, request, 0, NoMsg)
          [] c.state = "Registered" /\ c.addr \in p.body.pending ->
               Tx(k, "Poll", FALSE, NoBody, 0, NoMsg)
          [] OTHER -> [k EXCEPT !.c = c]

\* Faulty variant: an address is taken whether or not one was asked for.
RxResponseAnyState(k, p) ==
    LET c == IF k.c.state = "Registering" THEN [k.c EXCEPT !.timer = Off] ELSE k.c
        b == p.body
    IN  CASE b.uuid # Self /\ p.dest = Broadcast -> k
          [] b.uuid # Self /\ p.dest # Broadcast -> [k EXCEPT !.c = Unbound(k.c)]
          [] b.uuid = Self /\ (b.addr = Unassigned \/ b.status # "Success") ->
               [k EXCEPT !.c = Unbound(c)]
          [] b.uuid = Self /\ b.addr # Unassigned /\ b.status = "Success" ->
               [k EXCEPT !.c = [c EXCEPT !.state = "Registered", !.addr = b.addr, !.net = p.net]]

\* tinymac_rx_registration_response
RxResponse(k, p) ==
    LET c == IF k.c.state = "Registering" THEN [k.c EXCEPT !.timer = Off] ELSE k.c
        b == p.body
    IN  CASE b.uuid # Self /\ p.dest = Broadcast -> k
          [] b.uuid # Self /\ p.dest # Broadcast -> [k EXCEPT !.c = Unbound(k.c)]
          [] b.uuid = Self /\ (b.addr = Unassigned \/ b.status # "Success") ->
               [k EXCEPT !.c = Unbound(c)]
          [] b.uuid = Self /\ b.addr # Unassigned /\ b.status = "Success" ->
               IF c.state = "Registering"
               THEN [k EXCEPT !.c = [c EXCEPT !.state = "Registered", !.addr = b.addr, !.net = p.net]]
               ELSE k

\* Once the client has an address the sender must be its coordinator, which
\* is given its acknowledgement before the packet is looked at.
ClientRecv(c, p) ==
    LET o == Start(Overheard(c, p))
        k == IF c.addr # Unassigned
             THEN Coord(o, Heard(c.coord, p, c.net, c.addr)) ELSE o
    IN  CASE c.addr # Unassigned /\ ~CoordKnown(c) -> o
          [] p.type = "Beacon" -> RxBeacon(k, p)
          [] p.type = "RegistrationResponse" -> RxResponse(k, p)
          [] p.type = "Ack" /\ c.addr # Unassigned -> Coord(k, RxAck(Begin(k.c.coord), p.seq))
          [] OTHER -> k

----------------------------------------------------------------------------
(* The specification. *)

\* What the application learns: at most one callback comes for a message.
Learn(status, results) ==
    CASE results = {} -> status
      [] status = "pending" /\ results = {0}  -> "delivered"
      [] status = "pending" /\ results = {-1} -> "failed"
      [] OTHER -> "spurious"

\* Two packets go out in one step only when a tick asks for a beacon and then
\* repeats an unacknowledged packet.
Last(packets) ==
    CHOOSE p \in packets : p.type # "BeaconRequest" \/ packets = {p}

\* tinymac_phy_send: a sleepy client listens for a while after a packet has
\* gone out, and switches off at once when phy_send fails; the last packet of
\* the step decides.  phy_send fails for the packets in lost.
PhySend(k, lost) ==
    IF k.tx # {} /\ k.c.sleepy
    THEN [k.c EXCEPT !.radio = IF Last(k.tx) \in lost THEN "off" ELSE "window"]
    ELSE k.c

Finish(k, lost, status) ==
    /\ ctx' = PhySend(k, lost)
    /\ tx' = k.tx \ lost
    /\ sends' = [m \in Msgs |-> Learn(status[m], {rc \in {0, -1} : <<m, rc>> \in k.cb})]

TickHandler ==
    LET k == ClientTick(ctx) IN \E lost \in SUBSET k.tx : Finish(k, lost, sends)

RecvCb(p) ==
    /\ ClientAccepts(ctx, p)
    /\ LET k == ClientRecv(ctx, p) IN \E lost \in SUBSET k.tx : Finish(k, lost, sends)

\* A packet the MAC takes no notice of, or with a bad checksum: the driver has
\* gone back to listening, without the timer that would have ended it.
Overhear ==
    /\ ctx.radio = "window"
    /\ ctx' = [ctx EXCEPT !.radio = "on"]
    /\ tx' = {}
    /\ UNCHANGED sends

\* tinymac_send(0, Data with or without AR, m, ...): possible whenever the
\* coordinator's node is live, registered or not.
Send(ar, m) ==
    LET k == Tx(Start(ctx), "Data", ar, m, ctx.coord.heartbeat, m)
        told(lost) == IF k.tx = {} \/ lost # {} THEN sends[m]
                      ELSE IF ar THEN "pending" ELSE "unconfirmed"
    IN  /\ CoordKnown(ctx)
        /\ sends[m] # "pending"
        /\ \E lost \in SUBSET k.tx : Finish(k, lost, [sends EXCEPT ![m] = told(lost)])

\* The radio's wake-up timer ends the listen period.
ListenPeriodEnds ==
    /\ ctx.radio = "window"
    /\ ctx' = [ctx EXCEPT !.radio = "off"]
    /\ tx' = {}
    /\ UNCHANGED sends

\* What coordinators put on the air (TinyMacCoord): any network, any client.
FromCoord(type, net, dest, seq, ar, dp, body) ==
    [Packet(type, net, dest, COORD_ADDR, seq, ar, body) EXCEPT !.dp = dp]

Responses ==
    {<<Broadcast, [uuid |-> c[1], addr |-> c[2], status |-> "Success"]>> : c \in Uuids \X Slots}
    \cup {<<Broadcast, [uuid |-> u, addr |-> Unassigned, status |-> "NetworkFull"]>> : u \in Uuids}
    \cup {<<c[2], [uuid |-> c[1], addr |-> Unassigned, status |-> "Success"]>> : c \in Uuids \X Slots}
    \cup {<<s, [uuid |-> NoUuid, addr |-> Unassigned, status |-> "AddressInvalid"]>> : s \in Slots}

AirPackets ==
    {FromCoord("Beacon", c[1], Broadcast, 0, FALSE, FALSE, c[2]) :
        c \in NetIds \X [sync : BOOLEAN, permit : BOOLEAN, pending : SUBSET Slots]}
    \cup {FromCoord("Ack", c[1], c[2], c[3], FALSE, c[4], NoBody) :
            c \in NetIds \X Slots \X Seqs \X BOOLEAN}
    \cup {FromCoord("Data", c[1], c[2], c[3], c[4], FALSE, NoBody) :
            c \in NetIds \X Slots \X Seqs \X BOOLEAN}
    \cup {FromCoord("RegistrationResponse", c[1], c[2][1], c[3], FALSE, FALSE, c[2][2]) :
            c \in NetIds \X Responses \X Seqs}

AppSend == \E ar \in BOOLEAN, m \in Msgs : Send(ar, m)

Next ==
    \/ TickHandler
    \/ \E p \in AirPackets : RecvCb(p)
    \/ AppSend
    \/ Overhear
    \/ ListenPeriodEnds

Spec == Init /\ [][Next]_vars

----------------------------------------------------------------------------
(* Properties of every behaviour. *)

\* The pieces of an association agree: the client has an address exactly when
\* it is registered, is bound to a network exactly while it registers or is
\* registered, and then has a live coordinator.  They are set and reset one by
\* one in tinymac_rx_beacon, tinymac_rx_registration_response and
\* tinymac_deregister_node.
AssociationConsistent ==
    /\ ctx.addr # Unassigned <=> ctx.state = "Registered"
    /\ ctx.net # NETWORK_ANY <=> ctx.state \in {"Registering", "Registered"}
    /\ ctx.state \in {"Registering", "Registered"} => CoordKnown(ctx)

\* A client waiting for the answer to its registration request has the timer
\* running that will end the wait, and a wait for an acknowledgement too.
WaitsTimed ==
    /\ ctx.state = "Registering" => ctx.timer # Off
    /\ ctx.coord.state = "WaitAck" => ctx.coord.ack # Off

\* A registered client changes network or address only by losing its
\* registration first: a stray response or beacon never moves it.
NeverMoved ==
    [][ctx.state = "Registered" /\ ctx'.state = "Registered" =>
          ctx'.net = ctx.net /\ ctx'.addr = ctx.addr]_vars

\* A registration attempt ends, whether or not it is answered: every tick brings
\* its timeout nearer, and nothing that is received, sent or overheard puts it
\* off or takes it away.
RegisteringEnds ==
    [][ctx.state = "Registering" /\ ctx'.state = "Registering" =>
          /\ ctx'.timer \in 0 .. ctx.timer
          /\ TickHandler => ctx'.timer < ctx.timer]_vars
=============================================================================
