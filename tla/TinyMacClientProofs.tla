------------------------ MODULE TinyMacClientProofs ------------------------
(***************************************************************************)
(* Proofs about the client, for any networks, devices, messages and timing *)
(* constants, and for whatever coordinators put on the air.                *)
(***************************************************************************)
EXTENDS TinyMacClient, TinyMacNodeProofs

CSteps == [c : Clients, tx : SUBSET Packets, cb : SUBSET Calls]

\* The pieces of an association agree, and an unanswered request is timed.
Associated(c) ==
    /\ c.addr # Unassigned <=> c.state = "Registered"
    /\ c.net # NETWORK_ANY <=> c.state \in {"Registering", "Registered"}
    /\ c.state \in {"Registering", "Registered"} => c.coord.state # "Unregistered"
    /\ c.state = "Registering" => c.timer # Off

ClientInv(c) == c \in Clients /\ NodeInv(c.coord) /\ Associated(c)

CStepInv(k) == k \in CSteps /\ ClientInv(k.c)

\* The association of c is that of d.
Same(c, d) ==
    d.state = c.state /\ d.net = c.net /\ d.addr = c.addr /\ d.timer = c.timer

\* It is that of d, or lost.
SameOrLost(c, d) == d.state = "Unregistered" \/ Same(c, d)

\* The fields of a client.
LEMMA ClientFields ==
    ASSUME NEW c \in Clients
    PROVE  /\ c.state \in ClientStates /\ c.net \in NetIds /\ c.addr \in Addrs
           /\ c.dseq \in Seqs /\ c.timer \in Timers /\ c.coord \in Nodes
           /\ c.sleepy \in BOOLEAN /\ c.radio \in Radio
  BY Zenon DEF Clients

\* A step goes on with a client, packets and callbacks of the right types.
LEMMA CStepType ==
    ASSUME NEW c, ClientInv(c), NEW P \in SUBSET Packets, NEW C \in SUBSET Calls
    PROVE  CStepInv([c |-> c, tx |-> P, cb |-> C])
  BY Zenon DEF CStepInv, CSteps, ClientInv

\* An unbound client has no association left, whatever it had.
LEMMA UnboundInv ==
    ASSUME NEW c \in Clients, NodeInv(c.coord)
    PROVE  /\ ClientInv(Unbound(c)) /\ Unbound(c).state = "Unregistered"
           /\ Unbound(c).coord = c.coord /\ Unbound(c).timer = c.timer
<1> DEFINE u == [c EXCEPT !.state = "Unregistered", !.addr = Unassigned, !.net = NETWORK_ANY]
<1>1. "Unregistered" \in ClientStates /\ Unassigned \in Addrs /\ NETWORK_ANY \in NetIds
  BY AddrTypes, NodeConstants, Zenon DEF ClientStates
<1>2. /\ u \in Clients /\ u.coord = c.coord /\ u.timer = c.timer /\ u.state = "Unregistered"
      /\ u.addr = Unassigned /\ u.net = NETWORK_ANY
  BY <1>1, Zenon DEF Clients
<1>3. Unbound(c) = u
  BY Zenon DEF Unbound
<1> HIDE DEF u
<1>. QED
  BY <1>2, <1>3, Zenon DEF ClientInv, Associated

\* The coordinator's node goes through a step: if it is lost, with dereg_cb, the
\* client is unbound (tinymac_deregister_node).
LEMMA CoordStep ==
    ASSUME NEW k, CStepInv(k), NEW r, StepInv(r),
           r.n.state = "Unregistered" => k.c.coord.state = "Unregistered" \/ r.gone
    PROVE  /\ CStepInv(Coord(k, r))
           /\ Coord(k, r).c.coord = r.n
           /\ Coord(k, r).c.timer = k.c.timer
           /\ r.gone => Coord(k, r).c.state = "Unregistered"
           /\ ~r.gone => Same(k.c, Coord(k, r).c)
<1> DEFINE c == [k.c EXCEPT !.coord = r.n]
           d == IF r.gone THEN Unbound(c) ELSE c
<1>1. /\ k.c \in Clients /\ r \in Steps /\ r.n \in Nodes /\ NodeInv(r.n) /\ Associated(k.c)
      /\ k.tx \in SUBSET Packets /\ k.cb \in SUBSET Calls
      /\ r.tx \in SUBSET Packets /\ r.cb \in SUBSET Calls
  BY Zenon DEF CStepInv, CSteps, StepInv, NodeInv, ClientInv, Steps
<1>2. c \in Clients /\ c.coord = r.n /\ c.timer = k.c.timer /\ Same(k.c, c)
  BY <1>1, Zenon DEF Clients, Same
<1>3. Coord(k, r) = [c |-> d, tx |-> k.tx \cup r.tx, cb |-> k.cb \cup r.cb]
  BY Zenon DEF Coord
<1> HIDE DEF c
<1>4. /\ ClientInv(Unbound(c)) /\ Unbound(c).state = "Unregistered"
      /\ Unbound(c).coord = r.n /\ Unbound(c).timer = k.c.timer
  BY <1>1, <1>2, UnboundInv, Zenon
<1>5. ~r.gone => ClientInv(c)
  BY <1>1, <1>2, Zenon DEF ClientInv, Associated, Same
<1>6. ClientInv(d)
  BY <1>4, <1>5, Zenon
<1>7. k.tx \cup r.tx \in SUBSET Packets /\ k.cb \cup r.cb \in SUBSET Calls
  BY <1>1, Zenon
<1> HIDE DEF d
<1>8. CStepInv(Coord(k, r)) /\ Coord(k, r).c = d
  BY <1>3, <1>6, <1>7, CStepType
<1>. QED
  BY <1>2, <1>4, <1>8, Zenon DEF d

\* The next sequence number is one.
LEMMA ClientSeq ==
    ASSUME NEW c \in Clients
    PROVE  NextSeq(c) \in Seqs
  BY NodeConstants DEF Clients, NextSeq, Seqs

\* Counting a packet changes nothing else of the client.
LEMMA CountStep ==
    ASSUME NEW k, CStepInv(k)
    PROVE  LET c == [k.c EXCEPT !.dseq = NextSeq(k.c)] IN
           /\ ClientInv(c) /\ Same(k.c, c) /\ c.coord = k.c.coord /\ c.dseq \in Seqs
           /\ CStepInv([k EXCEPT !.c = c]) /\ [k EXCEPT !.c = c].c = c
<1> DEFINE c == [k.c EXCEPT !.dseq = NextSeq(k.c)]
<1>1. k.c \in Clients /\ k \in CSteps /\ NextSeq(k.c) \in Seqs
  BY ClientSeq, Zenon DEF CStepInv, CSteps
<1>2. c \in Clients /\ Same(k.c, c) /\ c.coord = k.c.coord /\ c.dseq = NextSeq(k.c)
  BY <1>1, Zenon DEF Clients, Same
<1>3. ClientInv(c)
  BY <1>2, Zenon DEF CStepInv, ClientInv, Associated, Same
<1> HIDE DEF c
<1>4. [k EXCEPT !.c = c] \in CSteps /\ [k EXCEPT !.c = c].c = c
  BY <1>1, <1>2, Zenon DEF CSteps
<1>. QED
  BY <1>1, <1>2, <1>3, <1>4, Zenon DEF CStepInv, c

\* tinymac_tx_packet to the coordinator leaves the association alone.
LEMMA TxStep ==
    ASSUME NEW k, CStepInv(k), NEW type \in Types, NEW ar \in BOOLEAN, NEW body \in Bodies,
           NEW v \in Nat, NEW cb \in Msgs \cup {NoMsg}
    PROVE  /\ CStepInv(Tx(k, type, ar, body, v, cb))
           /\ Same(k.c, Tx(k, type, ar, body, v, cb).c)
<1> DEFINE c == [k.c EXCEPT !.dseq = NextSeq(k.c)]
           j == [k EXCEPT !.c = c]
           p == Packet(type, c.net, COORD_ADDR, c.addr, c.dseq, ar, body)
           r == TxPacket(c.coord, p, v, cb)
<1>1. /\ ClientInv(c) /\ Same(k.c, c) /\ c.dseq \in Seqs
      /\ CStepInv(j) /\ j.c = c
  BY CountStep, Zenon
<1>2. Tx(k, type, ar, body, v, cb) = Coord(j, r)
  BY Zenon DEF Tx
<1> HIDE DEF c, j
<1>3. p \in Packets /\ NodeInv(c.coord)
  BY <1>1, ClientFields, AddrTypes, PacketType, Zenon DEF ClientInv
<1> HIDE DEF p
<1>4. Keeps(Begin(c.coord), r) /\ r.gone = FALSE
  BY <1>3, TxPacketKeeps, Zenon
<1>5. Begin(c.coord).n = c.coord
  BY <1>3, BeginInv, Zenon
<1> HIDE DEF r
<1>6. StepInv(r) /\ (r.n.state = "Unregistered" => j.c.coord.state = "Unregistered" \/ r.gone)
  BY <1>1, <1>4, <1>5, Zenon DEF Keeps
<1>7. CStepInv(Coord(j, r)) /\ Same(j.c, Coord(j, r).c)
  BY <1>1, <1>4, <1>6, CoordStep, Zenon
<1>. QED
  BY <1>1, <1>2, <1>7, Zenon DEF Same

\* So does a packet to nobody in particular.
LEMMA CastStep ==
    ASSUME NEW k, CStepInv(k), NEW type \in Types
    PROVE  CStepInv(Cast(k, type)) /\ Same(k.c, Cast(k, type).c)
<1> DEFINE c == [k.c EXCEPT !.dseq = NextSeq(k.c)]
           p == Packet(type, c.net, Broadcast, c.addr, c.dseq, FALSE, NoBody)
<1>1. ClientInv(c) /\ Same(k.c, c) /\ c.dseq \in Seqs
  BY CountStep, Zenon
<1>2. Cast(k, type) = [k EXCEPT !.c = c, !.tx = @ \cup {p}]
  BY Zenon DEF Cast
<1> HIDE DEF c
<1>3. p \in Packets
  BY <1>1, ClientFields, AddrTypes, PacketType, Zenon DEF ClientInv, Bodies
<1> HIDE DEF p
<1>4. k \in CSteps /\ c \in Clients
  BY <1>1, Zenon DEF CStepInv, ClientInv
<1>5. Cast(k, type) \in CSteps /\ Cast(k, type).c = c
  BY <1>2, <1>3, <1>4, Zenon DEF CSteps
<1>. QED
  BY <1>1, <1>5, Zenon DEF CStepInv

----------------------------------------------------------------------------
(* The tick. *)

\* A request for a beacon is made by a client without association only.
LEMMA AskForBeaconStep ==
    ASSUME NEW k, CStepInv(k)
    PROVE  /\ CStepInv(AskForBeacon(k))
           /\ k.c.state # "Unregistered" => AskForBeacon(k) = k
           /\ k.c.state = "Unregistered" => AskForBeacon(k).c.state = "BeaconRequest"
<1>1. CASE k.c.state # "Unregistered"
  BY <1>1, Zenon DEF AskForBeacon
<1>2. CASE k.c.state = "Unregistered"
  <2> DEFINE j == [k EXCEPT !.c.state = "BeaconRequest", !.c.timer = BEACON_TICKS]
             c == [k.c EXCEPT !.state = "BeaconRequest", !.timer = BEACON_TICKS]
  <2>1. k \in CSteps /\ k.c \in Clients /\ NodeInv(k.c.coord) /\ Associated(k.c)
    BY Zenon DEF CStepInv, CSteps, ClientInv
  <2>2. BEACON_TICKS \in Timers /\ "BeaconRequest" \in ClientStates
    BY ClientConstants, Zenon DEF Timers, ClientStates
  <2>3. /\ c \in Clients /\ c.state = "BeaconRequest" /\ c.addr = k.c.addr /\ c.net = k.c.net
        /\ c.coord = k.c.coord
    BY <2>1, <2>2, Zenon DEF Clients
  <2>4. ClientInv(c)
    BY <1>2, <2>1, <2>3, Zenon DEF ClientInv, Associated
  <2>5. j = [k EXCEPT !.c = c]
    BY <2>1, Zenon DEF CSteps, Clients
  <2> HIDE DEF c
  <2>6. j \in CSteps /\ j.c = c
    BY <2>1, <2>3, <2>5, Zenon DEF CSteps
  <2> HIDE DEF j
  <2>7. CStepInv(j)
    BY <2>4, <2>6, Zenon DEF CStepInv
  <2>8. CStepInv(Cast(j, "BeaconRequest")) /\ Same(j.c, Cast(j, "BeaconRequest").c)
    BY <2>7, CastStep, Zenon DEF Types
  <2>9. AskForBeacon(k) = Cast(j, "BeaconRequest")
    BY <1>2, Zenon DEF AskForBeacon, j
  <2>. QED
    BY <1>2, <2>3, <2>6, <2>8, <2>9, Zenon DEF Same
<1>. QED
  BY <1>1, <1>2, Zenon

\* The coordinator's timers are despatched: its loss unbinds the client.
LEMMA DespatchCoordStep ==
    ASSUME NEW k, CStepInv(k)
    PROVE  /\ CStepInv(DespatchCoord(k))
           /\ SameOrLost(k.c, DespatchCoord(k).c)
           /\ DespatchCoord(k).c.timer = k.c.timer
           /\ DespatchCoord(k).c.coord.ack # 0
           /\ DespatchCoord(k).c.coord.val # 0
<1> DEFINE r0 == Begin(k.c.coord)
           r1 == DespatchAck(r0)
           r2 == DespatchValidity(r1)
<1>1. StepInv(r0) /\ r0.n = k.c.coord
  BY BeginInv, Zenon DEF CStepInv, ClientInv
<1>2. DespatchCoord(k) = Coord(k, r2)
  BY Zenon DEF DespatchCoord
<1> HIDE DEF r0
<1>3. Keeps(r0, r1) /\ StepInv(r1) /\ r1.n.ack # 0
  BY <1>1, DespatchAckKeeps, Zenon DEF Keeps
<1> HIDE DEF r1
<1>4. Keeps(r1, r2) /\ StepInv(r2) /\ r2.n.ack # 0 /\ r2.n.val # 0
  BY <1>3, DespatchValidityKeeps, Zenon DEF Keeps
<1> HIDE DEF r2
<1>5. Keeps(r0, r2)
  BY <1>3, <1>4, KeepsTrans, Zenon
<1>6. r2.n.state = "Unregistered" => k.c.coord.state = "Unregistered" \/ r2.gone
  BY <1>1, <1>5, Zenon DEF Keeps
<1>7. /\ CStepInv(Coord(k, r2))
      /\ Coord(k, r2).c.coord = r2.n
      /\ Coord(k, r2).c.timer = k.c.timer
      /\ r2.gone => Coord(k, r2).c.state = "Unregistered"
      /\ ~r2.gone => Same(k.c, Coord(k, r2).c)
  BY <1>4, <1>6, CoordStep, Zenon
<1>. QED
  BY <1>2, <1>4, <1>7, Zenon DEF SameOrLost

\* A due request timer is cleared, and the request it timed given up.
LEMMA DespatchRequestStep ==
    ASSUME NEW k, CStepInv(k)
    PROVE  /\ CStepInv(DespatchRequest(k))
           /\ DespatchRequest(k).c.timer # 0
           /\ DespatchRequest(k).c.coord.ack = k.c.coord.ack
           /\ DespatchRequest(k).c.coord.val = k.c.coord.val
           /\ \/ DespatchRequest(k).c.state = "Unregistered"
              \/ /\ DespatchRequest(k).c.state = k.c.state
                 /\ DespatchRequest(k).c.net = k.c.net
                 /\ DespatchRequest(k).c.addr = k.c.addr
                 /\ k.c.state = "Registering" => DespatchRequest(k).c.timer = k.c.timer
<1>1. CASE k.c.timer # 0
  BY <1>1, Zenon DEF DespatchRequest
<1>2. CASE k.c.timer = 0
  <2> DEFINE c == [k.c EXCEPT !.timer = Off]
             j == [k EXCEPT !.c = c]
             r == Deregister(Begin(c.coord))
             q == DespatchRequest(k)
  <2>1. k \in CSteps /\ k.c \in Clients /\ NodeInv(k.c.coord) /\ Associated(k.c)
    BY Zenon DEF CStepInv, CSteps, ClientInv
  <2>2. /\ c \in Clients /\ c.state = k.c.state /\ c.addr = k.c.addr /\ c.net = k.c.net
        /\ c.coord = k.c.coord /\ c.timer = Off
    BY <2>1, Zenon DEF Clients, Timers
  <2>3. q = IF c.state \in {"BeaconRequest", "Registering"} THEN Coord(j, r) ELSE j
    BY <1>2, Zenon DEF DespatchRequest, RequestTimeout
  <2> HIDE DEF c
  <2>4. j \in CSteps /\ j.c = c
    BY <2>1, <2>2, Zenon DEF CSteps
  <2>5. StepInv(r) /\ r.gone /\ r.n.ack = k.c.coord.ack /\ r.n.val = k.c.coord.val
    <3> DEFINE b == Begin(c.coord)
    <3>1. StepInv(b) /\ b.n = k.c.coord
      BY <2>1, <2>2, BeginInv, Zenon
    <3> HIDE DEF b
    <3>2. b \in Steps /\ b.n \in Nodes /\ (b.n.ack # Off => b.n.pend \in Packets)
      BY <3>1, Zenon DEF StepInv, NodeInv
    <3>3. StepInv(Deregister(b)) /\ Deregister(b).n.ack = b.n.ack
          /\ Deregister(b).n.val = b.n.val /\ Deregister(b).gone
      BY <3>2, DeregisterStep, Zenon
    <3>. QED
      BY <3>1, <3>3, Zenon DEF b
  <2> HIDE DEF r, j, q
  <2>6. CASE k.c.state \in {"BeaconRequest", "Registering"}
    <3> DEFINE d == [c EXCEPT !.coord = r.n]
    <3>1. r.n \in Nodes /\ NodeInv(r.n) /\ r.tx \in SUBSET Packets /\ r.cb \in SUBSET Calls
      BY <2>5, Zenon DEF StepInv, Steps, NodeInv
    <3>2. d \in Clients /\ d.coord = r.n /\ d.timer = Off
      BY <2>2, <3>1, Zenon DEF Clients
    <3>3. q = [c |-> Unbound(d), tx |-> j.tx \cup r.tx, cb |-> j.cb \cup r.cb]
      BY <2>2, <2>3, <2>4, <2>5, <2>6, Zenon DEF Coord
    <3> HIDE DEF d
    <3>4. /\ ClientInv(Unbound(d)) /\ Unbound(d).state = "Unregistered"
          /\ Unbound(d).coord = r.n /\ Unbound(d).timer = Off
      BY <3>1, <3>2, UnboundInv, Zenon
    <3>5. j.tx \cup r.tx \in SUBSET Packets /\ j.cb \cup r.cb \in SUBSET Calls
      BY <2>4, <3>1, Zenon DEF CSteps
    <3>6. CStepInv(q) /\ q.c = Unbound(d)
      BY <3>3, <3>4, <3>5, CStepType, Zenon
    <3>. QED
      BY <2>5, <3>4, <3>6 DEF q, Off
  <2>7. CASE k.c.state \notin {"BeaconRequest", "Registering"}
    <3>1. q = j /\ q.c = c
      BY <2>2, <2>3, <2>4, <2>7, Zenon
    <3>2. ClientInv(c)
      BY <2>1, <2>2, <2>7, Zenon DEF ClientInv, Associated
    <3>. QED
      BY <2>2, <2>4, <2>7, <3>1, <3>2 DEF q, CStepInv, Off
  <2>. QED
    BY <2>6, <2>7, Zenon
<1>. QED
  BY <1>1, <1>2, Zenon

\* After despatch no running timer is due, so none is counted below zero.
LEMMA AdvanceStep ==
    ASSUME NEW k, CStepInv(k), k.c.timer # 0, k.c.coord.ack # 0, k.c.coord.val # 0
    PROVE  /\ CStepInv(Advance(k))
           /\ Advance(k).c.state = k.c.state
           /\ Advance(k).c.net = k.c.net /\ Advance(k).c.addr = k.c.addr
           /\ Advance(k).c.timer = Elapse(k.c.timer)
<1> DEFINE n == k.c.coord
           a == [n EXCEPT !.ack = Elapse(@), !.val = Elapse(@)]
           c == [k.c EXCEPT !.timer = Elapse(@), !.coord = a]
<1>1. k \in CSteps /\ k.c \in Clients /\ n \in Nodes /\ NodeInv(n) /\ Associated(k.c)
  BY Zenon DEF CStepInv, CSteps, ClientInv, NodeInv
<1>2. /\ Elapse(n.ack) \in Timers /\ (Elapse(n.ack) = Off <=> n.ack = Off)
      /\ Elapse(n.val) \in Timers /\ (Elapse(n.val) = Off <=> n.val = Off)
  BY <1>1 DEF Nodes, Timers, Elapse, Off
<1>3. Elapse(k.c.timer) \in Timers /\ (Elapse(k.c.timer) = Off <=> k.c.timer = Off)
  BY <1>1 DEF Clients, Timers, Elapse, Off
<1>4. a \in Nodes /\ a.ack = Elapse(n.ack) /\ a.state = n.state /\ a.pend = n.pend
  BY <1>1, <1>2, ZenonT(30) DEF Nodes
<1>5. NodeInv(a)
  BY <1>1, <1>2, <1>4, Zenon DEF NodeInv, Busy
<1> HIDE DEF a
<1>6. /\ c \in Clients /\ c.coord = a /\ c.state = k.c.state /\ c.net = k.c.net
      /\ c.addr = k.c.addr /\ c.timer = Elapse(k.c.timer)
  BY <1>1, <1>3, <1>4, Zenon DEF Clients
<1>7. ClientInv(c)
  BY <1>1, <1>3, <1>4, <1>5, <1>6, Zenon DEF ClientInv, Associated
<1>8. Advance(k) = [k EXCEPT !.c = c]
  BY <1>1, Zenon DEF Advance, a, CSteps, Clients
<1> HIDE DEF c
<1>9. Advance(k) \in CSteps /\ Advance(k).c = c
  BY <1>1, <1>6, <1>8, Zenon DEF CSteps
<1>. QED
  BY <1>6, <1>7, <1>9, Zenon DEF CStepInv

\* What a step may do to the association of c.
Follows(c, d) ==
    /\ c.state = "Registered" /\ d.state = "Registered" => d.net = c.net /\ d.addr = c.addr
    /\ c.state = "Registering" /\ d.state = "Registering" => d.timer \in 0 .. c.timer

\* tinymac_tick_handler: a client that goes on registering has less time left.
LEMMA TickStep ==
    ASSUME NEW c, ClientInv(c)
    PROVE  /\ CStepInv(ClientTick(c))
           /\ Follows(c, ClientTick(c).c)
           /\ c.state = "Registering" /\ ClientTick(c).c.state = "Registering"
                => ClientTick(c).c.timer < c.timer
<1> DEFINE k0 == Start(c)
           k1 == AskForBeacon(k0)
           k2 == DespatchCoord(k1)
           k3 == DespatchRequest(k2)
           k4 == Advance(k3)
<1>1. CStepInv(k0) /\ k0.c = c
  BY CStepType, Zenon DEF Start
<1>2. ClientTick(c) = k4
  BY Zenon DEF ClientTick
<1> HIDE DEF k0
<1>3. /\ CStepInv(k1)
      /\ c.state = "Unregistered" => k1.c.state = "BeaconRequest"
      /\ c.state # "Unregistered" => k1.c = c
  BY <1>1, AskForBeaconStep, Zenon
<1> HIDE DEF k1
<1>4. /\ CStepInv(k2) /\ SameOrLost(k1.c, k2.c) /\ k2.c.timer = k1.c.timer
      /\ k2.c.coord.ack # 0 /\ k2.c.coord.val # 0
  BY <1>3, DespatchCoordStep, Zenon
<1> HIDE DEF k2
<1>5. /\ CStepInv(k3) /\ k3.c.timer # 0 /\ k3.c.coord.ack # 0 /\ k3.c.coord.val # 0
      /\ \/ k3.c.state = "Unregistered"
         \/ /\ k3.c.state = k2.c.state /\ k3.c.net = k2.c.net /\ k3.c.addr = k2.c.addr
            /\ k2.c.state = "Registering" => k3.c.timer = k2.c.timer
  BY <1>4, DespatchRequestStep, Zenon
<1> HIDE DEF k3
<1>6. /\ CStepInv(k4) /\ k4.c.state = k3.c.state /\ k4.c.net = k3.c.net /\ k4.c.addr = k3.c.addr
      /\ k4.c.timer = Elapse(k3.c.timer)
  BY <1>5, AdvanceStep, Zenon
<1> HIDE DEF k4
<1>7. c.timer \in Timers /\ k4.c.timer \in Timers
  BY <1>6, Zenon DEF CStepInv, ClientInv, Clients
<1>8. ASSUME c.state = "Registered", k4.c.state = "Registered"
      PROVE  k4.c.net = c.net /\ k4.c.addr = c.addr
  BY <1>3, <1>4, <1>5, <1>6, <1>8, Zenon DEF SameOrLost, Same
<1>9. ASSUME c.state = "Registering", k4.c.state = "Registering"
      PROVE  k4.c.timer \in 0 .. c.timer /\ k4.c.timer < c.timer
  <2>1. k3.c.timer = c.timer /\ c.timer # 0
    BY <1>3, <1>4, <1>5, <1>6, <1>9, Zenon DEF SameOrLost, Same
  <2>2. c.timer # Off
    BY <1>9, Zenon DEF ClientInv, Associated
  <2>. QED
    BY <1>6, <1>7, <2>1, <2>2 DEF Elapse, Timers, Off
<1>. QED
  BY <1>2, <1>6, <1>8, <1>9, Zenon DEF Follows

----------------------------------------------------------------------------
(* Receiving. *)

\* What coordinators answer a registration request with is well formed.
LEMMA ResponseTypes ==
    ASSUME NEW r \in Responses
    PROVE  r[1] \in Addrs /\ r[2] \in RegistrationResponses
<1>1. ASSUME NEW dest \in Addrs, NEW u \in Uuids \cup {NoUuid}, NEW addr \in Addrs,
             NEW st \in Status, r = <<dest, [uuid |-> u, addr |-> addr, status |-> st]>>
      PROVE  r[1] \in Addrs /\ r[2] \in RegistrationResponses
  BY <1>1, Zenon DEF RegistrationResponses
<1>2. /\ "Success" \in Status /\ "NetworkFull" \in Status /\ "AddressInvalid" \in Status
      /\ Slots \subseteq Addrs /\ Unassigned \in Addrs /\ Broadcast \in Addrs
  BY AddrTypes, Zenon DEF Status
<1>3. CASE r \in {<<Broadcast, [uuid |-> c[1], addr |-> c[2], status |-> "Success"]>>
                     : c \in Uuids \X Slots}
  <2>1. PICK c \in Uuids \X Slots :
            r = <<Broadcast, [uuid |-> c[1], addr |-> c[2], status |-> "Success"]>>
    BY <1>3, Zenon
  <2>2. c[1] \in Uuids \cup {NoUuid} /\ c[2] \in Addrs
    BY <1>2, Zenon
  <2>. QED
    BY <1>1, <1>2, <2>1, <2>2, Zenon
<1>4. CASE r \in {<<Broadcast, [uuid |-> u, addr |-> Unassigned, status |-> "NetworkFull"]>>
                     : u \in Uuids}
  BY <1>1, <1>2, <1>4, Zenon
<1>5. CASE r \in {<<c[2], [uuid |-> c[1], addr |-> Unassigned, status |-> "Success"]>>
                     : c \in Uuids \X Slots}
  <2>1. PICK c \in Uuids \X Slots :
            r = <<c[2], [uuid |-> c[1], addr |-> Unassigned, status |-> "Success"]>>
    BY <1>5, Zenon
  <2>2. c[1] \in Uuids \cup {NoUuid} /\ c[2] \in Addrs
    BY <1>2, Zenon
  <2>. QED
    BY <1>1, <1>2, <2>1, <2>2, Zenon
<1>6. CASE r \in {<<s, [uuid |-> NoUuid, addr |-> Unassigned, status |-> "AddressInvalid"]>>
                     : s \in Slots}
  BY <1>1, <1>2, <1>6, Zenon
<1>. QED
  BY <1>3, <1>4, <1>5, <1>6, Zenon DEF Responses

\* What coordinators send is well formed.
LEMMA AirPacketTypes ==
    ASSUME NEW p \in AirPackets
    PROVE  /\ p \in Packets
           /\ p.type = "Beacon" => p.body.permit \in BOOLEAN
           /\ p.type = "RegistrationResponse" => p.body \in RegistrationResponses
<1>1. ASSUME NEW type \in Types, NEW net \in NetIds, NEW dest \in Addrs, NEW seq \in Seqs,
             NEW ar \in BOOLEAN, NEW dp \in BOOLEAN, NEW body \in Bodies,
             p = FromCoord(type, net, dest, seq, ar, dp, body)
      PROVE  p \in Packets /\ p.type = type /\ p.body = body
  <2> DEFINE q == Packet(type, net, dest, COORD_ADDR, seq, ar, body)
  <2>1. q \in Packets /\ q.type = type /\ q.body = body
    BY PacketType, AddrTypes, Zenon DEF Packet
  <2>2. p = [q EXCEPT !.dp = dp]
    BY <1>1, Zenon DEF FromCoord
  <2> HIDE DEF q
  <2>. QED
    BY <2>1, <2>2, Zenon DEF Packets
<1>2. NoBody \in Bodies /\ 0 \in Seqs /\ Slots \subseteq Addrs /\ Broadcast \in Addrs
  BY AddrTypes, NodeConstants DEF Bodies, Seqs
<1>3. CASE p \in {FromCoord("Beacon", c[1], Broadcast, 0, FALSE, FALSE, c[2]) :
                     c \in NetIds \X [sync : BOOLEAN, permit : BOOLEAN, pending : SUBSET Slots]}
  <2>1. ASSUME NEW b \in [sync : BOOLEAN, permit : BOOLEAN, pending : SUBSET Slots]
        PROVE  b \in Bodies /\ b.permit \in BOOLEAN
    BY <1>2, Zenon DEF Beacons, Bodies
  <2>2. ASSUME NEW net \in NetIds, NEW b \in Bodies,
               p = FromCoord("Beacon", net, Broadcast, 0, FALSE, FALSE, b)
        PROVE  p \in Packets /\ p.type = "Beacon" /\ p.body = b
    <3>1. "Beacon" \in Types
      BY Zenon DEF Types
    <3>. QED
      BY <1>1, <1>2, <2>2, <3>1, Zenon
  <2>. QED
    BY <1>3, <2>1, <2>2, Zenon
<1>4. CASE p \in {FromCoord("Ack", c[1], c[2], c[3], FALSE, c[4], NoBody) :
                     c \in NetIds \X Slots \X Seqs \X BOOLEAN}
  <2>1. ASSUME NEW net \in NetIds, NEW s \in Slots, NEW q \in Seqs, NEW f \in BOOLEAN,
               p = FromCoord("Ack", net, s, q, FALSE, f, NoBody)
        PROVE  p \in Packets /\ p.type = "Ack"
    <3>1. "Ack" \in Types /\ s \in Addrs /\ FALSE \in BOOLEAN
      BY <1>2, Zenon DEF Types
    <3>. QED
      BY <1>1, <1>2, <2>1, <3>1, Zenon
  <2>. QED
    BY <1>4, <2>1, Zenon
<1>5. CASE p \in {FromCoord("Data", c[1], c[2], c[3], c[4], FALSE, NoBody) :
                     c \in NetIds \X Slots \X Seqs \X BOOLEAN}
  <2>1. ASSUME NEW net \in NetIds, NEW s \in Slots, NEW q \in Seqs, NEW f \in BOOLEAN,
               p = FromCoord("Data", net, s, q, f, FALSE, NoBody)
        PROVE  p \in Packets /\ p.type = "Data"
    <3>1. "Data" \in Types /\ s \in Addrs /\ FALSE \in BOOLEAN
      BY <1>2, Zenon DEF Types
    <3>. QED
      BY <1>1, <1>2, <2>1, <3>1, Zenon
  <2>. QED
    BY <1>5, <2>1, Zenon
<1>6. CASE p \in {FromCoord("RegistrationResponse", c[1], c[2][1], c[3], FALSE, FALSE, c[2][2]) :
                     c \in NetIds \X Responses \X Seqs}
  <2>1. PICK c \in NetIds \X Responses \X Seqs :
            p = FromCoord("RegistrationResponse", c[1], c[2][1], c[3], FALSE, FALSE, c[2][2])
    BY <1>6, Zenon
  <2> DEFINE r == c[2]
  <2>2. c[1] \in NetIds /\ r \in Responses /\ c[3] \in Seqs
    BY Zenon
  <2> HIDE DEF r
  <2>3. r[1] \in Addrs /\ r[2] \in RegistrationResponses
    BY <2>2, ResponseTypes, Zenon
  <2>4. "RegistrationResponse" \in Types /\ r[2] \in Bodies
    BY <2>3, Zenon DEF Types, Bodies
  <2>5. p = FromCoord("RegistrationResponse", c[1], r[1], c[3], FALSE, FALSE, r[2])
    BY <2>1, Zenon DEF r
  <2>6. p \in Packets /\ p.type = "RegistrationResponse" /\ p.body = r[2]
    BY <1>1, <2>2, <2>3, <2>4, <2>5, ZenonT(30)
  <2>. QED
    BY <2>3, <2>6, Zenon
<1>. QED
  BY <1>3, <1>4, <1>5, <1>6, Zenon DEF AirPackets

\* A client changed by c, of a step otherwise the same.
LEMMA WithClient ==
    ASSUME NEW k, CStepInv(k), NEW c, ClientInv(c)
    PROVE  CStepInv([k EXCEPT !.c = c]) /\ [k EXCEPT !.c = c].c = c
  BY Zenon DEF CStepInv, CSteps, ClientInv

\* The coordinator's node as tinymac_rx_beacon sets it up.
LEMMA BoundNode ==
    ASSUME NEW o \in Nodes, NEW f \in BOOLEAN, NEW h \in Heartbeats
    PROVE  LET a == [o EXCEPT !.state = "Registered", !.sleepy = f, !.heartbeat = h]
           IN  a \in Nodes /\ a.state = "Registered" /\ a.ack = o.ack /\ a.pend = o.pend
<1> DEFINE a == [o EXCEPT !.state = "Registered", !.sleepy = f, !.heartbeat = h]
<1>1. a \in Nodes
  BY FieldTypes, Zenon DEF Nodes
<1>2. a.state = "Registered" /\ a.ack = o.ack /\ a.pend = o.pend
  BY Zenon DEF Nodes
<1>. QED
  BY <1>1, <1>2, Zenon

\* tinymac_rx_beacon binds a client that has no association, polls for one that
\* has, and otherwise stops the request timer at most.
LEMMA RxBeaconStep ==
    ASSUME NEW k, CStepInv(k), NEW p \in Packets, p.net # NETWORK_ANY, p.body.permit \in BOOLEAN
    PROVE  /\ CStepInv(RxBeacon(k, p))
           /\ k.c.state \in {"Registering", "Registered"} => Same(k.c, RxBeacon(k, p).c)
           /\ RxBeacon(k, p).c.state = "Registered" => k.c.state = "Registered"
<1> DEFINE c == IF k.c.state = "BeaconRequest" THEN [k.c EXCEPT !.timer = Off] ELSE k.c
           b == Bind(c, p.net)
           request == [uuid |-> Self, sleepy |-> c.sleepy, heartbeat |-> HEARTBEAT]
           q == RxBeacon(k, p)
<1>1. k.c \in Clients /\ NodeInv(k.c.coord) /\ Associated(k.c) /\ p.net \in NetIds
  BY Zenon DEF CStepInv, ClientInv, Packets
<1>2. /\ c \in Clients /\ c.state = k.c.state /\ c.net = k.c.net /\ c.addr = k.c.addr
      /\ c.coord = k.c.coord /\ (k.c.state # "BeaconRequest" => c = k.c)
  BY <1>1, Zenon DEF Clients, Timers
<1>3. ClientInv(c)
  BY <1>1, <1>2, Zenon DEF ClientInv, Associated
<1>4. NoBody \in Bodies /\ NoMsg \in Msgs \cup {NoMsg} /\ 0 \in Nat
  BY Zenon DEF Bodies
<1>5. request \in Bodies
  <2>1. c.sleepy \in BOOLEAN
    BY <1>2, ClientFields, Zenon
  <2> HIDE DEF c
  <2>. QED
    BY <2>1, ClientConstants, Zenon DEF Bodies, RegistrationRequests
<1>6. CASE c.state \in {"Unregistered", "BeaconRequest"} /\ p.body.permit
  <2> DEFINE j == [k EXCEPT !.c = b]
  <2>1. q = Tx(j, "RegistrationRequest", FALSE, request, 0, NoMsg)
    BY <1>6, Zenon DEF RxBeacon
  <2> HIDE DEF c, request, q
  <2>2. ClientInv(b) /\ b.state = "Registering"
    <3> DEFINE o == c.coord
               n == [o EXCEPT !.state = "Registered", !.sleepy = FALSE, !.heartbeat = 1]
               d == [c EXCEPT !.state = "Registering", !.net = p.net, !.timer = REGISTRATION_TICKS,
                              !.coord = n]
    <3>1. o \in Nodes /\ NodeInv(o) /\ 1 \in Heartbeats
      BY <1>3, NodeConstants, Zenon DEF ClientInv, NodeInv
    <3>4. b = d
      BY Zenon DEF Bind
    <3> HIDE DEF o
    <3>2. n \in Nodes /\ n.state = "Registered" /\ n.ack = o.ack /\ n.pend = o.pend
      BY <3>1, BoundNode, Zenon
    <3>3. NodeInv(n)
      BY <3>1, <3>2, Zenon DEF NodeInv, Busy
    <3> HIDE DEF n
    <3>5. "Registering" \in ClientStates /\ REGISTRATION_TICKS \in Timers /\ REGISTRATION_TICKS # Off
      BY ClientConstants DEF ClientStates, Timers, Off
    <3>6. /\ d \in Clients /\ d.state = "Registering" /\ d.net = p.net /\ d.addr = c.addr
          /\ d.timer = REGISTRATION_TICKS /\ d.coord = n
      BY <1>1, <1>2, <3>2, <3>5, Zenon DEF Clients
    <3> HIDE DEF b, d
    <3>7. c.addr = Unassigned
      BY <1>3, <1>6, Zenon DEF ClientInv, Associated
    <3>. QED
      BY <3>2, <3>3, <3>4, <3>5, <3>6, <3>7, Zenon DEF ClientInv, Associated
  <2> HIDE DEF b
  <2>3. CStepInv(j) /\ j.c = b
    BY <2>2, WithClient, Zenon
  <2> HIDE DEF j
  <2>4. "RegistrationRequest" \in Types
    BY Zenon DEF Types
  <2>5. CStepInv(q) /\ Same(j.c, q.c)
    BY <1>4, <1>5, <2>1, <2>3, <2>4, TxStep, Zenon
  <2>. QED
    BY <1>2, <1>6, <2>2, <2>3, <2>5, Zenon DEF Same, q
<1>7. CASE c.state = "Registered" /\ c.addr \in p.body.pending
  <2>1. q = Tx(k, "Poll", FALSE, NoBody, 0, NoMsg)
    BY <1>7, Zenon DEF RxBeacon
  <2> HIDE DEF q, c
  <2>2. "Poll" \in Types
    BY Zenon DEF Types
  <2>3. CStepInv(q) /\ Same(k.c, q.c)
    BY <1>4, <2>1, <2>2, TxStep, Zenon
  <2>. QED
    BY <2>3, Zenon DEF Same, q
<1>8. CASE /\ ~(c.state \in {"Unregistered", "BeaconRequest"} /\ p.body.permit)
           /\ ~(c.state = "Registered" /\ c.addr \in p.body.pending)
  <2>1. q = [k EXCEPT !.c = c]
    BY <1>8, Zenon DEF RxBeacon
  <2> HIDE DEF q, c
  <2>2. CStepInv(q) /\ q.c = c
    BY <1>3, <2>1, WithClient, Zenon
  <2>. QED
    BY <1>2, <2>2, Zenon DEF Same, q
<1>. QED
  BY <1>6, <1>7, <1>8, Zenon

\* tinymac_rx_registration_response gives an address to a client that has asked
\* for one, and no other.
LEMMA RxResponseStep ==
    ASSUME NEW k, CStepInv(k), NEW p \in Packets, p.net # NETWORK_ANY,
           p.body \in RegistrationResponses
    PROVE  /\ CStepInv(RxResponse(k, p))
           /\ k.c.state = "Registered" => SameOrLost(k.c, RxResponse(k, p).c)
           /\ RxResponse(k, p).c.state = "Registering" => RxResponse(k, p).c = k.c
<1> DEFINE c == IF k.c.state = "Registering" THEN [k.c EXCEPT !.timer = Off] ELSE k.c
           d == [c EXCEPT !.state = "Registered", !.addr = p.body.addr, !.net = p.net]
           q == RxResponse(k, p)
           refused == p.body.addr = Unassigned \/ p.body.status # "Success"
<1>1. /\ k.c \in Clients /\ NodeInv(k.c.coord) /\ Associated(k.c)
      /\ p.net \in NetIds /\ p.body.addr \in Addrs
  BY Zenon DEF CStepInv, ClientInv, Packets, RegistrationResponses
<1>2. /\ c \in Clients /\ c.state = k.c.state /\ c.net = k.c.net /\ c.addr = k.c.addr
      /\ c.coord = k.c.coord
  BY <1>1, Zenon DEF Clients, Timers
<1>3. \/ q = k
      \/ q = [k EXCEPT !.c = Unbound(k.c)]
      \/ q = [k EXCEPT !.c = Unbound(c)]
      \/ q = [k EXCEPT !.c = d] /\ c.state = "Registering" /\ p.body.addr # Unassigned
  <2>1. CASE p.body.uuid # Self /\ p.dest = Broadcast
    BY <2>1, Zenon DEF RxResponse
  <2>2. CASE p.body.uuid # Self /\ p.dest # Broadcast
    BY <2>2, Zenon DEF RxResponse
  <2>3. CASE p.body.uuid = Self /\ refused
    BY <2>3, Zenon DEF RxResponse
  <2>4. CASE p.body.uuid = Self /\ ~refused
    BY <2>4, Zenon DEF RxResponse
  <2>. QED
    BY <2>1, <2>2, <2>3, <2>4, Zenon
<1>4. d \in Clients /\ d.state = "Registered" /\ d.net = p.net /\ d.addr = p.body.addr
      /\ d.coord = c.coord
  <2>1. "Registered" \in ClientStates
    BY Zenon DEF ClientStates
  <2> HIDE DEF c
  <2>. QED
    BY <1>1, <1>2, <2>1, Zenon DEF Clients
<1> HIDE DEF c, d, q
<1>5. c.state = "Registering" /\ p.body.addr # Unassigned => ClientInv(d)
  BY <1>1, <1>2, <1>4, Zenon DEF ClientInv, Associated
<1>6. /\ ClientInv(Unbound(k.c)) /\ Unbound(k.c).state = "Unregistered"
      /\ ClientInv(Unbound(c)) /\ Unbound(c).state = "Unregistered"
  BY <1>1, <1>2, UnboundInv, Zenon
<1>7. CASE q = k
  BY <1>7, Zenon DEF SameOrLost, Same, q
<1>8. CASE q = [k EXCEPT !.c = Unbound(k.c)]
  <2>1. CStepInv(q) /\ q.c = Unbound(k.c)
    BY <1>6, <1>8, WithClient, Zenon
  <2>. QED
    BY <1>6, <2>1, Zenon DEF SameOrLost, q
<1>9. CASE q = [k EXCEPT !.c = Unbound(c)]
  <2>1. CStepInv(q) /\ q.c = Unbound(c)
    BY <1>6, <1>9, WithClient, Zenon
  <2>. QED
    BY <1>6, <2>1, Zenon DEF SameOrLost, q
<1>10. CASE q = [k EXCEPT !.c = d] /\ c.state = "Registering" /\ p.body.addr # Unassigned
  <2>1. CStepInv(q) /\ q.c = d
    BY <1>5, <1>10, WithClient, Zenon
  <2>. QED
    BY <1>2, <1>4, <1>10, <2>1, Zenon DEF q
<1>. QED
  BY <1>3, <1>7, <1>8, <1>9, <1>10, Zenon

\* A received packet switches the receiver of a sleepy client at most.
LEMMA OverheardInv ==
    ASSUME NEW c, ClientInv(c), NEW p
    PROVE  /\ ClientInv(Overheard(c, p)) /\ Same(c, Overheard(c, p))
           /\ Overheard(c, p).coord = c.coord
<1>1. ASSUME NEW radio \in Radio
      PROVE  /\ ClientInv([c EXCEPT !.radio = radio]) /\ Same(c, [c EXCEPT !.radio = radio])
             /\ [c EXCEPT !.radio = radio].coord = c.coord
  <2> DEFINE d == [c EXCEPT !.radio = radio]
  <2>1. d \in Clients /\ Same(c, d) /\ d.coord = c.coord
    BY Zenon DEF ClientInv, Clients, Same
  <2> HIDE DEF d
  <2>2. ClientInv(d)
    BY <2>1, Zenon DEF ClientInv, Associated, Same
  <2>. QED
    BY <2>1, <2>2, Zenon DEF d
<1>2. CASE c.sleepy
  BY <1>1, <1>2, Zenon DEF Overheard, Radio
<1>3. CASE ~c.sleepy
  BY <1>3, Zenon DEF Overheard, Same
<1>. QED
  BY <1>2, <1>3, Zenon

\* tinymac_recv_cb keeps the association consistent: it never moves a registered
\* client, nor puts off the end of a registration attempt.
LEMMA RecvStep ==
    ASSUME NEW c, ClientInv(c), NEW p \in AirPackets, ClientAccepts(c, p)
    PROVE  CStepInv(ClientRecv(c, p)) /\ Follows(c, ClientRecv(c, p).c)
<1> DEFINE o == Start(Overheard(c, p))
           h == Heard(c.coord, p, c.net, c.addr)
           k == IF c.addr # Unassigned THEN Coord(o, h) ELSE o
           q == ClientRecv(c, p)
<1>1. /\ p \in Packets /\ p.net # NETWORK_ANY
      /\ p.type = "Beacon" => p.body.permit \in BOOLEAN
      /\ p.type = "RegistrationResponse" => p.body \in RegistrationResponses
  BY AirPacketTypes, Zenon DEF ClientAccepts
<1>2. CStepInv(o) /\ Same(c, o.c) /\ o.c.coord = c.coord
  BY OverheardInv, CStepType, Zenon DEF Start
<1>3. c.net \in NetIds /\ c.addr \in Addrs /\ NodeInv(c.coord)
  BY ClientFields, Zenon DEF ClientInv
<1>4. Keeps(Begin(c.coord), h) /\ h.gone = FALSE /\ Begin(c.coord).n = c.coord
  BY <1>1, <1>3, HeardKeeps, BeginInv, Zenon
<1>a. q = CASE c.addr # Unassigned /\ ~CoordKnown(c) -> o
            [] p.type = "Beacon" -> RxBeacon(k, p)
            [] p.type = "RegistrationResponse" -> RxResponse(k, p)
            [] p.type = "Ack" /\ c.addr # Unassigned -> Coord(k, RxAck(Begin(k.c.coord), p.seq))
            [] OTHER -> k
  BY Zenon DEF ClientRecv
<1> HIDE DEF o, h
<1>5. CStepInv(Coord(o, h)) /\ Same(o.c, Coord(o, h).c)
  BY <1>2, <1>4, CoordStep, Zenon DEF Keeps
<1>6. CStepInv(k) /\ Same(c, k.c)
  BY <1>2, <1>5, Zenon DEF Same
<1> HIDE DEF k
<1>7. c.timer \in Timers /\ (c.state = "Registering" => c.timer # Off)
  BY Zenon DEF ClientInv, Clients, Associated
<1>8. ASSUME NEW d, Same(c, d)
      PROVE  Follows(c, d)
  BY <1>7, <1>8 DEF Same, Follows, Timers, Off
<1>9. CASE q = o
  BY <1>2, <1>8, <1>9, Zenon DEF q
<1>10. CASE q = k
  BY <1>6, <1>8, <1>10, Zenon DEF q
<1>11. CASE p.type = "Beacon" /\ q = RxBeacon(k, p)
  <2>1. /\ CStepInv(q)
        /\ k.c.state \in {"Registering", "Registered"} => Same(k.c, q.c)
    BY <1>1, <1>6, <1>11, RxBeaconStep, Zenon
  <2> HIDE DEF q
  <2>2. c.state \in {"Registering", "Registered"} => Same(c, q.c)
    BY <1>6, <2>1, Zenon DEF Same
  <2>3. c.state \notin {"Registering", "Registered"} => Follows(c, q.c)
    BY Zenon DEF Follows
  <2>. QED
    BY <1>8, <2>1, <2>2, <2>3, Zenon DEF q
<1>12. CASE p.type = "RegistrationResponse" /\ q = RxResponse(k, p)
  <2>1. /\ CStepInv(q)
        /\ k.c.state = "Registered" => SameOrLost(k.c, q.c)
        /\ q.c.state = "Registering" => q.c = k.c
    BY <1>1, <1>6, <1>12, RxResponseStep, Zenon
  <2> HIDE DEF q
  <2>2. Follows(c, q.c)
    BY <1>6, <1>7, <2>1 DEF Follows, Same, SameOrLost, Timers, Off
  <2>. QED
    BY <2>1, <2>2, Zenon DEF q
<1>13. CASE q = Coord(k, RxAck(Begin(k.c.coord), p.seq))
  <2> DEFINE b == Begin(k.c.coord)
             r == RxAck(b, p.seq)
  <2>1. StepInv(b) /\ b.n = k.c.coord /\ b.gone = FALSE
    BY <1>6, BeginInv, Zenon DEF CStepInv, ClientInv
  <2>2. q = Coord(k, r)
    BY <1>13, Zenon
  <2> HIDE DEF b, q
  <2>3. Keeps(b, r) /\ r.gone = FALSE
    BY <2>1, RxAckKeeps, Zenon
  <2> HIDE DEF r
  <2>4. CStepInv(Coord(k, r)) /\ Same(k.c, Coord(k, r).c)
    BY <1>6, <2>1, <2>3, CoordStep, Zenon DEF Keeps
  <2>5. Same(c, q.c)
    BY <1>6, <2>2, <2>4, Zenon DEF Same
  <2>. QED
    BY <1>8, <2>2, <2>4, <2>5, Zenon DEF q
<1> HIDE DEF q
<1>14. \/ q = o \/ q = k
       \/ p.type = "Beacon" /\ q = RxBeacon(k, p)
       \/ p.type = "RegistrationResponse" /\ q = RxResponse(k, p)
       \/ q = Coord(k, RxAck(Begin(k.c.coord), p.seq))
  BY <1>a
<1>. QED
  BY <1>9, <1>10, <1>11, <1>12, <1>13, <1>14, Zenon DEF q

----------------------------------------------------------------------------
(* The specification. *)

\* What holds in every state.
Inv == ClientInv(ctx) /\ tx \in SUBSET Packets /\ sends \in [Msgs -> SendStatus]

\* tinymac_phy_send switches the receiver at most, and the application learns a
\* status.
LEMMA FinishInv ==
    ASSUME NEW k, CStepInv(k), NEW lost \in SUBSET k.tx, NEW status \in [Msgs -> SendStatus],
           Finish(k, lost, status)
    PROVE  Inv' /\ Same(k.c, ctx')
<1>1. ASSUME NEW radio \in Radio
      PROVE  ClientInv([k.c EXCEPT !.radio = radio]) /\ Same(k.c, [k.c EXCEPT !.radio = radio])
  <2> DEFINE d == [k.c EXCEPT !.radio = radio]
  <2>1. ClientInv(k.c)
    BY Zenon DEF CStepInv
  <2>2. d \in Clients /\ Same(k.c, d) /\ d.coord = k.c.coord
    BY <2>1, Zenon DEF ClientInv, Clients, Same
  <2> HIDE DEF d
  <2>3. ClientInv(d)
    BY <2>1, <2>2, Zenon DEF ClientInv, Associated, Same
  <2>. QED
    BY <2>2, <2>3, Zenon DEF d
<1>2. ctx' = PhySend(k, lost) /\ tx' = k.tx \ lost
      /\ sends' = [m \in Msgs |-> Learn(status[m], {rc \in {0, -1} : <<m, rc>> \in k.cb})]
  BY Zenon DEF Finish
<1>3. ClientInv(ctx') /\ Same(k.c, ctx')
  <2>1. CASE k.tx # {} /\ k.c.sleepy
    BY <1>1, <1>2, <2>1, Zenon DEF PhySend, Radio
  <2>2. CASE ~(k.tx # {} /\ k.c.sleepy)
    BY <1>2, <2>2, Zenon DEF PhySend, Same, CStepInv
  <2>. QED
    BY <2>1, <2>2, Zenon
<1>4. tx' \in SUBSET Packets
  BY <1>2, Zenon DEF CStepInv, CSteps
<1>5. ASSUME NEW st \in SendStatus, NEW R
      PROVE  Learn(st, R) \in SendStatus
  BY Zenon DEF Learn, SendStatus
<1>6. sends' \in [Msgs -> SendStatus]
  BY <1>2, <1>5, Zenon
<1>. QED
  BY <1>3, <1>4, <1>6, Zenon DEF Inv, ClientInv

\* tinymac_init leaves a client without association.
LEMMA InitInv == Init => Inv
<1> SUFFICES ASSUME Init PROVE Inv
  BY Zenon
<1>1. PICK sleepy \in BOOLEAN, seq \in Seqs : ctx = InitClient(sleepy, seq)
  BY Zenon DEF Init
<1>2. NodeInv(InitNode) /\ InitNode.state = "Unregistered"
  <2>1. "Unregistered" \in NodeStates /\ NoUuid \in Uuids \cup {NoUuid} /\ Off \in Timers
        /\ NoPacket \in Packets \cup {NoPacket} /\ NoMsg \in Msgs \cup {NoMsg}
        /\ 1 \in Heartbeats
    BY FieldTypes, NodeConstants, Zenon
  <2>2. InitNode \in Nodes /\ InitNode.state = "Unregistered" /\ InitNode.ack = Off
    BY <2>1 DEF InitNode, Nodes
  <2>. QED
    BY <2>2, Zenon DEF NodeInv, Busy
<1>3. /\ ctx \in Clients /\ ctx.state = "Unregistered" /\ ctx.net = NETWORK_ANY
      /\ ctx.addr = Unassigned /\ ctx.coord = InitNode
  <2>1. /\ "Unregistered" \in ClientStates /\ NETWORK_ANY \in NetIds /\ Unassigned \in Addrs
        /\ Off \in Timers /\ InitNode \in Nodes
    BY <1>2, FieldTypes, AddrTypes, NodeConstants, Zenon DEF ClientStates, NodeInv
  <2>. QED
    BY <1>1, <2>1, Zenon DEF InitClient, Clients, Radio
<1>4. ClientInv(ctx)
  BY <1>2, <1>3, Zenon DEF ClientInv, Associated
<1>5. tx \in SUBSET Packets /\ sends \in [Msgs -> SendStatus]
  BY Zenon DEF Init, SendStatus
<1>. QED
  BY <1>4, <1>5, Zenon DEF Inv

\* The tick handler.
LEMMA TickHandlerInv ==
    ASSUME Inv, TickHandler
    PROVE  /\ Inv' /\ Follows(ctx, ctx')
           /\ ctx.state = "Registering" /\ ctx'.state = "Registering" => ctx'.timer < ctx.timer
<1> DEFINE k == ClientTick(ctx)
<1>1. PICK lost \in SUBSET k.tx : Finish(k, lost, sends)
  BY Zenon DEF TickHandler
<1>2. /\ CStepInv(k) /\ Follows(ctx, k.c)
      /\ ctx.state = "Registering" /\ k.c.state = "Registering" => k.c.timer < ctx.timer
  BY TickStep, Zenon DEF Inv
<1> HIDE DEF k
<1>3. Inv' /\ Same(k.c, ctx')
  BY <1>1, <1>2, FinishInv, Zenon DEF Inv
<1>. QED
  BY <1>2, <1>3, Zenon DEF Same, Follows

\* The receive callback.
LEMMA RecvCbInv ==
    ASSUME Inv, NEW p \in AirPackets, RecvCb(p)
    PROVE  Inv' /\ Follows(ctx, ctx')
<1> DEFINE k == ClientRecv(ctx, p)
<1>1. PICK lost \in SUBSET k.tx : Finish(k, lost, sends)
  BY Zenon DEF RecvCb
<1>2. CStepInv(k) /\ Follows(ctx, k.c)
  BY RecvStep, Zenon DEF Inv, RecvCb
<1> HIDE DEF k
<1>3. Inv' /\ Same(k.c, ctx')
  BY <1>1, <1>2, FinishInv, Zenon DEF Inv
<1>. QED
  BY <1>2, <1>3, Zenon DEF Same, Follows

\* A client whose association is the same follows it.
LEMMA SameFollows ==
    ASSUME NEW c, ClientInv(c), NEW d, Same(c, d)
    PROVE  Follows(c, d)
  BY DEF ClientInv, Clients, Associated, Same, Follows, Timers, Off

\* tinymac_send.
LEMMA AppSendInv ==
    ASSUME Inv, AppSend
    PROVE  Inv' /\ Follows(ctx, ctx')
<1>1. PICK ar \in BOOLEAN, m \in Msgs : Send(ar, m)
  BY Zenon DEF AppSend
<1> DEFINE k == Tx(Start(ctx), "Data", ar, m, ctx.coord.heartbeat, m)
           told(lost) == IF k.tx = {} \/ lost # {} THEN sends[m]
                         ELSE IF ar THEN "pending" ELSE "unconfirmed"
<1>2. PICK lost \in SUBSET k.tx : Finish(k, lost, [sends EXCEPT ![m] = told(lost)])
  BY <1>1, Zenon DEF Send
<1>3. CStepInv(Start(ctx)) /\ Start(ctx).c = ctx
  BY CStepType, Zenon DEF Start, Inv
<1>4. ctx.coord.heartbeat \in Nat /\ m \in Bodies /\ "Data" \in Types
  BY NodeConstants, Zenon DEF Inv, ClientInv, NodeInv, Nodes, Bodies, Types
<1>5. CStepInv(k) /\ Same(ctx, k.c)
  BY <1>3, <1>4, TxStep, Zenon
<1>6. told(lost) \in SendStatus
  BY Zenon DEF Inv, SendStatus
<1> DEFINE t == told(lost)
<1>7. t \in SendStatus /\ Finish(k, lost, [sends EXCEPT ![m] = t])
  BY <1>2, <1>6, Zenon
<1> HIDE DEF k, told, t
<1>8. [sends EXCEPT ![m] = t] \in [Msgs -> SendStatus]
  BY <1>7, Zenon DEF Inv
<1>9. Inv' /\ Same(k.c, ctx')
  BY <1>5, <1>7, <1>8, FinishInv, Zenon
<1>10. Same(ctx, ctx')
  BY <1>5, <1>9, Zenon DEF Same
<1>. QED
  BY <1>9, <1>10, SameFollows, Zenon DEF Inv

\* The receiver is switched by the radio's own timer, or left on by a packet
\* for somebody else.
LEMMA RadioInv ==
    ASSUME Inv, NEW radio \in Radio, ctx' = [ctx EXCEPT !.radio = radio], tx' = {},
           UNCHANGED sends
    PROVE  Inv' /\ Follows(ctx, ctx')
<1>1. ctx' \in Clients /\ Same(ctx, ctx') /\ ctx'.coord = ctx.coord
  BY Zenon DEF Inv, ClientInv, Clients, Same
<1>2. ClientInv(ctx')
  BY <1>1, Zenon DEF Inv, ClientInv, Associated, Same
<1>. QED
  BY <1>1, <1>2, SameFollows, Zenon DEF Inv

\* Every step keeps the invariant, and does to the association what it may.
LEMMA NextInv ==
    ASSUME Inv, [Next]_vars
    PROVE  Inv' /\ Follows(ctx, ctx')
<1>1. CASE TickHandler
  BY <1>1, TickHandlerInv, Zenon
<1>2. CASE \E p \in AirPackets : RecvCb(p)
  BY <1>2, RecvCbInv, Zenon
<1>3. CASE AppSend
  BY <1>3, AppSendInv, Zenon
<1>4. CASE Overhear
  BY <1>4, RadioInv, Zenon DEF Overhear, Radio
<1>5. CASE ListenPeriodEnds
  BY <1>5, RadioInv, Zenon DEF ListenPeriodEnds, Radio
<1>6. CASE UNCHANGED vars
  <2>1. Inv' /\ ctx' = ctx
    BY <1>6, Zenon DEF vars, Inv
  <2>. QED
    BY <2>1, SameFollows, Zenon DEF Same, Inv
<1>. QED
  BY <1>1, <1>2, <1>3, <1>4, <1>5, <1>6, Zenon DEF Next

\* Every reachable state satisfies it.
LEMMA AlwaysInv == Spec => []Inv
  BY InitInv, NextInv, PTL DEF Spec

\* Every field of the client, its timers and its buffer, keeps its type: no timer
\* is counted below zero and no packet is sent from an empty buffer.
THEOREM ClientTypeCorrect == Spec => []ClientTypeOK
<1>1. Inv => ClientTypeOK
  BY Zenon DEF Inv, ClientInv, ClientTypeOK
<1>. QED
  BY <1>1, AlwaysInv, PTL

\* Network, address, state and coordinator of a client agree, although
\* tinymac_rx_beacon, tinymac_rx_registration_response and
\* tinymac_deregister_node set and reset them one by one.
THEOREM AssociationAgrees == Spec => []AssociationConsistent
<1>1. Inv => AssociationConsistent
  BY Zenon DEF Inv, ClientInv, Associated, AssociationConsistent, CoordKnown
<1>. QED
  BY <1>1, AlwaysInv, PTL

\* A client waits for an answer or an acknowledgement only with a timer running.
THEOREM WaitsAreTimed == Spec => []WaitsTimed
<1>1. Inv => WaitsTimed
  BY Zenon DEF Inv, ClientInv, NodeInv, Associated, WaitsTimed
<1>. QED
  BY <1>1, AlwaysInv, PTL

\* A registered client changes network or address only by losing its
\* registration first, whatever coordinators send it.
THEOREM NeverMovedHolds == Spec => NeverMoved
<1>1. Inv /\ [Next]_vars =>
        [ctx.state = "Registered" /\ ctx'.state = "Registered" =>
            ctx'.net = ctx.net /\ ctx'.addr = ctx.addr]_vars
  BY NextInv, Zenon DEF Follows
<1>. QED
  BY <1>1, AlwaysInv, PTL DEF Spec, NeverMoved

\* Every tick brings the end of a registration attempt nearer, and nothing that
\* is received, sent or overheard puts it off.
THEOREM RegisteringEndsHolds == Spec => RegisteringEnds
<1>1. Inv /\ [Next]_vars =>
        [ctx.state = "Registering" /\ ctx'.state = "Registering" =>
            /\ ctx'.timer \in 0 .. ctx.timer
            /\ TickHandler => ctx'.timer < ctx.timer]_vars
  BY NextInv, TickHandlerInv, Zenon DEF Follows
<1>. QED
  BY <1>1, AlwaysInv, PTL DEF Spec, RegisteringEnds
=============================================================================
