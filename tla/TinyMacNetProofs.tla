-------------------------- MODULE TinyMacNetProofs --------------------------
(***************************************************************************)
(* Proofs that the two ends of an association agree: an address a device   *)
(* uses belongs to the slot of that device, and data is attributed to the  *)
(* device it came from.  The devices are instances of TinyMacClient, so    *)
(* the engine's functions come twice; the first part shows that they are   *)
(* the same, and the lemmas of TinyMacNodeProofs then serve both ends.     *)
(***************************************************************************)
EXTENDS TinyMacNet, TinyMacCoordProofs

----------------------------------------------------------------------------
(* The engine of a device is the engine of the coordinator. *)

\* Constants and the parts steps are made of.
LEMMA SameParts ==
    ASSUME NEW u
    PROVE  /\ Client(u)!Off = Off /\ Client(u)!Unassigned = Unassigned
           /\ Client(u)!Broadcast = Broadcast /\ Client(u)!NETWORK_ANY = NETWORK_ANY
           /\ Client(u)!COORD_ADDR = COORD_ADDR /\ Client(u)!InitNode = InitNode
           /\ \A n : Client(u)!Begin(n) = Begin(n)
           /\ \A r, n, P, C : Client(u)!Then(r, n, P, C) = Then(r, n, P, C)
           /\ \A n, rc : Client(u)!Invoke(n, rc) = Invoke(n, rc)
           /\ \A r : Client(u)!Deregister(r) = Deregister(r)
           /\ \A t : Client(u)!Elapse(t) = Elapse(t)
           /\ \A s : Client(u)!Seconds(s) = Seconds(s)
           /\ \A n : Client(u)!TxPacketAccepts(n) <=> TxPacketAccepts(n)
<1>1. /\ Client(u)!Off = Off /\ Client(u)!Unassigned = Unassigned
      /\ Client(u)!Broadcast = Broadcast /\ Client(u)!NETWORK_ANY = NETWORK_ANY
      /\ Client(u)!COORD_ADDR = COORD_ADDR
  BY Zenon DEF Client!Off, Off, Client!Unassigned, Unassigned, Client!Broadcast, Broadcast,
         Client!NETWORK_ANY, NETWORK_ANY, Client!COORD_ADDR, COORD_ADDR
<1>2. Client(u)!InitNode = InitNode
  BY <1>1, Zenon DEF Client!InitNode, InitNode
<1>3. \A n : Client(u)!Begin(n) = Begin(n)
  BY Zenon DEF Client!Begin, Begin
<1>4. \A r, n, P, C : Client(u)!Then(r, n, P, C) = Then(r, n, P, C)
  BY Zenon DEF Client!Then, Then
<1>5. \A n, rc : Client(u)!Invoke(n, rc) = Invoke(n, rc)
  BY Zenon DEF Client!Invoke, Invoke
<1>6. \A r : Client(u)!Deregister(r) = Deregister(r)
  BY Zenon DEF Client!Deregister, Deregister
<1>7. \A t : Client(u)!Elapse(t) = Elapse(t)
  BY <1>1, Zenon DEF Client!Elapse, Elapse
<1>8. \A s : Client(u)!Seconds(s) = Seconds(s)
  BY Zenon DEF Client!Seconds, Seconds
<1>9. \A n : Client(u)!TxPacketAccepts(n) <=> TxPacketAccepts(n)
  BY Zenon DEF Client!TxPacketAccepts, TxPacketAccepts
<1>. QED
  BY <1>1, <1>2, <1>3, <1>4, <1>5, <1>6, <1>7, <1>8, <1>9, Zenon

\* Packet headers.
LEMMA SamePacket ==
    ASSUME NEW u, NEW type, NEW nt, NEW dest, NEW src, NEW seq, NEW ar, NEW body
    PROVE  Client(u)!Packet(type, nt, dest, src, seq, ar, body)
             = Packet(type, nt, dest, src, seq, ar, body)
  BY Zenon DEF Client!Packet, Packet

\* tinymac_tx_packet, tinymac_tx_pending and tinymac_tx_ack.
LEMMA SameSending ==
    ASSUME NEW u
    PROVE  /\ \A n, p, v, cb : Client(u)!TxPacket(n, p, v, cb) = TxPacket(n, p, v, cb)
           /\ \A r : Client(u)!TxPending(r) = TxPending(r)
           /\ \A r, nt, src, addr, seq :
                Client(u)!TxAck(r, nt, src, addr, seq) = TxAck(r, nt, src, addr, seq)
<1>1. ASSUME NEW n, NEW p, NEW v, NEW cb
      PROVE  Client(u)!TxPacket(n, p, v, cb) = TxPacket(n, p, v, cb)
  BY Zenon DEF Client!TxPacket, TxPacket, Client!Then, Then, Client!Begin, Begin,
         Client!TxPacketAccepts, TxPacketAccepts, Client!Seconds, Seconds
<1>2. ASSUME NEW r PROVE Client(u)!TxPending(r) = TxPending(r)
  BY Zenon DEF Client!TxPending, TxPending, Client!Then, Then, Client!Invoke, Invoke, Client!Off, Off
<1>3. ASSUME NEW r, NEW nt, NEW src, NEW addr, NEW seq
      PROVE  Client(u)!TxAck(r, nt, src, addr, seq) = TxAck(r, nt, src, addr, seq)
  BY <1>2, Zenon DEF Client!TxAck, TxAck, Client!Then, Then, Client!Packet, Packet
<1>. QED
  BY <1>1, <1>2, <1>3, Zenon

\* The receive callback's share, and the timeouts.
LEMMA SameReceiving ==
    ASSUME NEW u
    PROVE  /\ \A n, p, nt, addr : Client(u)!Heard(n, p, nt, addr) = Heard(n, p, nt, addr)
           /\ \A r, seq : Client(u)!RxAck(r, seq) = RxAck(r, seq)
           /\ \A r : Client(u)!DespatchAck(r) = DespatchAck(r)
           /\ \A r : Client(u)!DespatchValidity(r) = DespatchValidity(r)
<1>1. ASSUME NEW n, NEW p, NEW nt, NEW addr
      PROVE  Client(u)!Heard(n, p, nt, addr) = Heard(n, p, nt, addr)
  BY SameSending DEF Client!Heard, Heard, Client!Begin, Begin
<1>2. ASSUME NEW r, NEW seq PROVE Client(u)!RxAck(r, seq) = RxAck(r, seq)
  BY Zenon DEF Client!RxAck, RxAck, Client!Then, Then, Client!Invoke, Invoke, Client!Off, Off
<1>3. ASSUME NEW r PROVE Client(u)!DespatchAck(r) = DespatchAck(r)
  <2>1. Client(u)!AckTimeout(r) = AckTimeout(r)
    BY Zenon DEF Client!AckTimeout, AckTimeout, Client!Then, Then, Client!Invoke, Invoke,
           Client!Deregister, Deregister, Client!Off, Off
  <2>. QED
    BY <2>1, Zenon DEF Client!DespatchAck, DespatchAck
<1>4. ASSUME NEW r PROVE Client(u)!DespatchValidity(r) = DespatchValidity(r)
  <2>1. Client(u)!ValidityTimeout(r) = ValidityTimeout(r)
    BY Zenon DEF Client!ValidityTimeout, ValidityTimeout, Client!Then, Then, Client!Invoke, Invoke,
           Client!Off, Off
  <2>. QED
    BY <2>1, Zenon DEF Client!DespatchValidity, DespatchValidity
<1>. QED
  BY <1>1, <1>2, <1>3, <1>4, Zenon

----------------------------------------------------------------------------
(* What a node keeps and sends, at either end, stays within a set G.       *)

Stores(n, G) == Outstanding(n) => n.pend \in G

Within(r, G) == Stores(r.n, G) /\ r.tx \subseteq G

\* Functions of the engine that send nothing but the stored packet.
LEMMA CarriesWithin ==
    ASSUME NEW r, NEW q, NEW G, Within(r, G), Carries(r, q)
    PROVE  Within(q, G)
  BY Zenon DEF Within, Stores, Carries

\* A step that has not begun.
LEMMA BeginWithin ==
    ASSUME NEW n, NEW G, Stores(n, G)
    PROVE  Within(Begin(n), G)
  BY Zenon DEF Within, Begin

\* tinymac_tx_packet.
LEMMA TxPacketWithin ==
    ASSUME NEW n \in Nodes, NEW G, Stores(n, G), NEW p \in G, NEW v, NEW m
    PROVE  Within(TxPacket(n, p, v, m), G)
<1> DEFINE r == TxPacket(n, p, v, m)
<1>1. CASE n.state # "Registered"
  <2>1. r = Begin(n)
    BY <1>1, Zenon DEF TxPacket, TxPacketAccepts
  <2>. QED
    BY <2>1, BeginWithin, Zenon
<1>2. CASE n.state = "Registered"
  <2>1. Takes(n, r, p, m)
    BY <1>2, TxPacketTakes, Zenon
  <2> HIDE DEF r
  <2>2. Within(r, G)
    BY <2>1, Zenon DEF Takes, Within, Stores
  <2>. QED
    BY <2>2, Zenon DEF r
<1>. QED
  BY <1>1, <1>2, Zenon

\* tinymac_recv_cb for a known sender: besides the stored packet there is only
\* the acknowledgement.
LEMMA HeardWithin ==
    ASSUME NEW n, NodeInv(n), NEW G, Stores(n, G), NEW p \in Packets, NEW nt \in NetIds,
           NEW addr \in Addrs, \A a \in Packets : a.type = "Ack" /\ a.net = nt => a \in G
    PROVE  Within(Heard(n, p, nt, addr), G)
<1> DEFINE a == [n EXCEPT !.age = 0]
           r == Begin(a)
           k == Packet("Ack", nt, p.src, addr, p.seq, FALSE, NoBody)
           ack == [k EXCEPT !.dp = (r.n.state = "SendPending")]
           u == Then(r, r.n, {ack}, {})
<1>1. a \in Nodes /\ a.state = n.state /\ a.pend = n.pend /\ a.ack = n.ack
  BY Zenon DEF NodeInv, Nodes
<1>2. NodeInv(a) /\ Stores(a, G)
  BY <1>1, Zenon DEF NodeInv, Stores, Outstanding, Busy
<1> HIDE DEF a
<1>3. StepInv(r) /\ r.n = a /\ Within(r, G)
  BY <1>2, BeginInv, BeginWithin, Zenon
<1>4. k \in Packets
  <2>1. p.src \in Addrs /\ p.seq \in Seqs
    BY Zenon DEF Packets
  <2>. QED
    BY <2>1, PacketType, Zenon DEF Types, Bodies
<1>5. k.type = "Ack" /\ k.net = nt
  BY Zenon DEF Packet
<1>6. Heard(n, p, nt, addr) = TxPending(IF p.ar THEN TxPending(u) ELSE r)
  BY Zenon DEF Heard, TxAck, a
<1> HIDE DEF r, k
<1>7. ack \in G /\ ack \in Packets
  <2>1. ack \in Packets /\ ack.type = "Ack" /\ ack.net = nt
    BY <1>4, <1>5, Zenon DEF Packets
  <2>. QED
    BY <2>1, Zenon
<1> HIDE DEF ack
<1>8. StepInv(u) /\ Within(u, G)
  <2>1. r \in Steps /\ NodeInv(r.n)
    BY <1>3, Zenon DEF StepInv
  <2>2. StepInv(u) /\ u.n = r.n
    BY <1>7, <2>1, ThenStep
  <2>3. u.tx = r.tx \cup {ack}
    BY Zenon DEF Then
  <2>. QED
    BY <1>3, <1>7, <2>2, <2>3, Zenon DEF Within
<1> HIDE DEF u
<1>9. StepInv(TxPending(u)) /\ Within(TxPending(u), G)
  BY <1>8, TxPendingCarries, TxPendingKeeps, CarriesWithin, Zenon DEF Keeps
<1> DEFINE v == IF p.ar THEN TxPending(u) ELSE r
<1>10. StepInv(v) /\ Within(v, G)
  BY <1>3, <1>9, Zenon
<1> HIDE DEF v
<1>11. Within(TxPending(v), G)
  BY <1>10, TxPendingCarries, CarriesWithin, Zenon
<1>. QED
  BY <1>6, <1>11, Zenon DEF v

----------------------------------------------------------------------------
(* What the two ends hold of each other.  It is about the network whose    *)
(* identifier nobody had when the coordinator started: what belongs to an  *)
(* earlier network is then not mistaken for something of this one.         *)

\* Device u may use addr in network nt: if that is the present network, the
\* slot is the device's.
Agreed(nt, addr, u) ==
    fresh /\ nt = net_id /\ addr # Unassigned => addr \in Slots /\ nodes[addr].uuid = u

Granting(p) ==
    p.type = "RegistrationResponse" /\ p.body.status = "Success" /\ p.body.addr # Unassigned

\* What a device may find in its receiver.
FromHub(p) ==
    /\ p \in Packets
    /\ p.type = "RegistrationResponse" => p.body \in RegistrationResponses
    /\ Granting(p) => p.body.uuid \in Uuids /\ Agreed(p.net, p.body.addr, p.body.uuid)

\* What the coordinator may keep for a slot: no grant of an address.
HubMail ==
    {p \in Packets : /\ p.net = net_id
                     /\ p.type = "RegistrationResponse" =>
                          p.body \in RegistrationResponses /\ p.body.addr = Unassigned}

HubInv ==
    /\ CoordInv
    /\ \A s \in Slots : Stores(nodes[s], HubMail)

\* An address that is granted in this step.
Grant(e) ==
    \E u \in Uuids, s \in Slots : e = Response(Broadcast, u, s, "Success") /\ nodes'[s].uuid = u

\* What becomes of the registry in a step: a slot once given stays with its
\* device.
Lasting ==
    /\ net_id' = net_id /\ fresh' = fresh
    /\ \A s \in Slots : nodes[s].uuid = NoUuid \/ nodes'[s].uuid = nodes[s].uuid

\* Agreements last.
LEMMA AgreedLasts ==
    ASSUME Lasting, NEW u \in Uuids, NEW nt, NEW addr, Agreed(nt, addr, u)
    PROVE  Agreed(nt, addr, u)'
<1>1. u # NoUuid
  BY NodeConstants, Zenon
<1>2. ASSUME fresh', nt = net_id', addr # Unassigned PROVE addr \in Slots /\ nodes'[addr].uuid = u
  BY <1>1, <1>2, Zenon DEF Agreed, Lasting
<1>. QED
  BY <1>2, Zenon DEF Agreed

\* So does what is in a receiver.
LEMMA FromHubLasts ==
    ASSUME Lasting, NEW p, FromHub(p)
    PROVE  FromHub(p)'
<1>1. Granting(p) => p.body.uuid \in Uuids /\ Agreed(p.net, p.body.addr, p.body.uuid)'
  BY AgreedLasts, Zenon DEF FromHub
<1>. QED
  BY <1>1, Zenon DEF FromHub, Granting

\* The fields of the coordinator's own packets.
LEMMA OwnFields ==
    /\ \A sync : Beacon(sync).net = net_id /\ Beacon(sync).type = "Beacon"
    /\ \A dest, u, addr, st :
          LET p == Response(dest, u, addr, st)
          IN  /\ p.net = net_id /\ p.type = "RegistrationResponse"
              /\ p.body = [uuid |-> u, addr |-> addr, status |-> st]
<1>1. ASSUME NEW sync PROVE Beacon(sync).net = net_id /\ Beacon(sync).type = "Beacon"
  <2> DEFINE body == [sync |-> sync, permit |-> permit_attach,
                      pending |-> IF sync THEN {s \in Slots : nodes[s].state = "SendPending"} ELSE {}]
  <2>1. Beacon(sync) = Packet("Beacon", net_id, Broadcast, COORD_ADDR, 0, FALSE, body)
    BY Zenon DEF Beacon
  <2> HIDE DEF body
  <2>. QED
    BY <2>1 DEF Packet
<1>2. ASSUME NEW dest, NEW u, NEW addr, NEW st
      PROVE  /\ Response(dest, u, addr, st).net = net_id
             /\ Response(dest, u, addr, st).type = "RegistrationResponse"
             /\ Response(dest, u, addr, st).body = [uuid |-> u, addr |-> addr, status |-> st]
  <2> DEFINE body == [uuid |-> u, addr |-> addr, status |-> st]
  <2>1. Response(dest, u, addr, st)
          = Packet("RegistrationResponse", net_id, dest, COORD_ADDR, NextSeq, FALSE, body)
    BY Zenon DEF Response
  <2> HIDE DEF body
  <2>2. /\ Response(dest, u, addr, st).net = net_id
        /\ Response(dest, u, addr, st).type = "RegistrationResponse"
        /\ Response(dest, u, addr, st).body = body
    BY <2>1 DEF Packet
  <2>. QED
    BY <2>2, Zenon DEF body
<1>. QED
  BY <1>1, <1>2

\* A beacon, and a response without an address, may go to anyone.
LEMMA OwnMail ==
    ASSUME CoordInv
    PROVE  /\ \A sync \in BOOLEAN : Beacon(sync) \in HubMail
           /\ \A dest \in Addrs, u \in Uuids \cup {NoUuid}, st \in Status :
                Response(dest, u, Unassigned, st) \in HubMail
<1>1. ASSUME NEW sync \in BOOLEAN PROVE Beacon(sync) \in HubMail
  BY CoordPackets, OwnFields, Zenon DEF HubMail
<1>2. ASSUME NEW dest \in Addrs, NEW u \in Uuids \cup {NoUuid}, NEW st \in Status
      PROVE  Response(dest, u, Unassigned, st) \in HubMail
  <2> DEFINE p == Response(dest, u, Unassigned, st)
             body == [uuid |-> u, addr |-> Unassigned, status |-> st]
  <2>1. p \in Packets
    BY CoordPackets, AddrTypes, Zenon
  <2>2. p.net = net_id /\ p.body = body
    BY OwnFields
  <2>3. body \in RegistrationResponses /\ body.addr = Unassigned
    BY AddrTypes, Zenon DEF RegistrationResponses
  <2> HIDE DEF p, body
  <2>4. p \in HubMail
    BY <2>1, <2>2, <2>3, Zenon DEF HubMail
  <2>. QED
    BY <2>4, Zenon DEF p
<1>. QED
  BY <1>1, <1>2, Zenon

\* What a step hands to the radio may be received.
LEMMA SentFromHub ==
    ASSUME HubInv, CoordInv', net_id' = net_id, NEW e, e \in HubMail \/ Grant(e)
    PROVE  FromHub(e)'
<1>2. CASE e \in HubMail
  BY <1>2, Zenon DEF HubMail, FromHub, Granting
<1>3. CASE Grant(e)
  <2>1. PICK u \in Uuids, s \in Slots : e = Response(Broadcast, u, s, "Success") /\ nodes'[s].uuid = u
    BY <1>3, Zenon DEF Grant
  <2> DEFINE body == [uuid |-> u, addr |-> s, status |-> "Success"]
  <2>2. s \in Addrs /\ "Success" \in Status
    BY AddrTypes, Zenon DEF Status
  <2>3. e \in Packets
    BY <2>1, <2>2, CoordPackets, AddrTypes, Zenon DEF HubInv
  <2>4. e.net = net_id /\ e.type = "RegistrationResponse" /\ e.body = body
    BY <2>1, OwnFields
  <2>5. body \in RegistrationResponses /\ body.addr = s /\ body.uuid = u
    BY <2>2, Zenon DEF RegistrationResponses
  <2> HIDE DEF body
  <2>6. Agreed(e.net, s, u)'
    BY <2>1, <2>4, Zenon DEF Agreed
  <2>. QED
    BY <2>3, <2>4, <2>5, <2>6, Zenon DEF FromHub
<1>. QED
  BY <1>2, <1>3, Zenon

\* Steps of the slots that keep to HubMail, with some packets besides.
LEMMA Despatched ==
    ASSUME NEW R, \A s \in Slots : Within(R[s], HubMail), NEW extra,
           NEW status, NEW counts, Perform(R, extra, status, counts)
    PROVE  /\ \A s \in Slots : nodes'[s] = R[s].n /\ Stores(nodes'[s], HubMail)
           /\ \A e \in tx' : e \in extra \/ e \in HubMail
<1>1. \A s \in Slots : nodes'[s] = R[s].n
  BY Zenon DEF Perform
<1>2. tx' = extra \cup UNION {R[s].tx : s \in Slots}
  BY Zenon DEF Perform
<1>. QED
  BY <1>1, <1>2, Zenon DEF Within

\* What the coordinator's lemmas establish of a step in the same network.
HubKept ==
    /\ \A s \in Slots : Stores(nodes'[s], HubMail)
    /\ \A e \in tx' : e \in HubMail \/ Grant(e)

\* The steps a coordinator begins a call with.
LEMMA OpeningWithin ==
    ASSUME HubInv, NEW p, FromDevice(p), NEW R, Opening(R, p), NEW s \in Slots
    PROVE  Within(R[s], HubMail) /\ StepInv(R[s])
<1>1. Stores(nodes[s], HubMail) /\ NodeInv(nodes[s]) /\ net_id \in NetIds
  BY Zenon DEF HubInv, CoordInv, TypeOK
<1>2. StepInv(R[s])
  BY SoundGood, Zenon DEF Opening, Good, HubInv, CoordInv
<1>3. CASE R[s] = Begin(nodes[s])
  BY <1>1, <1>2, <1>3, BeginWithin, Zenon
<1>4. CASE R[s] = Heard(nodes[s], p, net_id, COORD_ADDR)
  <2>1. \A a \in Packets : a.type = "Ack" /\ a.net = net_id => a \in HubMail
    BY Zenon DEF HubMail
  <2>. QED
    BY <1>1, <1>2, <1>4, <2>1, HeardWithin, AddrTypes DEF FromDevice
<1>. QED
  BY <1>3, <1>4, Zenon DEF Opening, Idle

\* tinymac_rx_registration_request grants one address, to the device that
\* asked.
LEMMA RegistrationHub ==
    ASSUME HubInv, NEW p, FromDevice(p), NEW R, Opening(R, p), RxRegistrationRequest(R, p)
    PROVE  HubKept
<1> DEFINE s == SlotFor(p.body.uuid)
           q == Register(R[s], p.body)
           Q == [R EXCEPT ![s] = q]
           full == Response(Broadcast, p.body.uuid, Unassigned, "NetworkFull")
           ok == Response(Broadcast, p.body.uuid, s, "Success")
<1>1. R \in [Slots -> Steps] /\ \A t \in Slots : Within(R[t], HubMail) /\ StepInv(R[t])
  BY OpeningWithin, Zenon DEF Opening, Sound
<1>2. p.body.uuid \in Uuids
  BY Zenon DEF RxRegistrationRequest, FromDevice, RegistrationRequests
<1>3. CASE s = 0
  <2>1. Perform(R, {full}, sends, copies)
    BY <1>3, Zenon DEF RxRegistrationRequest, Apply
  <2>2. full \in HubMail
    BY <1>2, OwnMail, AddrTypes, Zenon DEF HubInv, Status
  <2> HIDE DEF full
  <2>. QED
    BY <1>1, <2>1, <2>2, Despatched DEF HubKept
<1>4. CASE s # 0
  <2>1. Perform(Q, {ok}, sends, copies)
    BY <1>4, Zenon DEF RxRegistrationRequest, Apply
  <2>2. s \in Slots
    BY <1>4, SlotForDevice, Zenon
  <2> HIDE DEF s
  <2> DEFINE n == R[s].n
             a == [n EXCEPT !.state = "Registered", !.uuid = p.body.uuid, !.sleepy = p.body.sleepy,
                            !.heartbeat = p.body.heartbeat, !.age = 0]
  <2>3. n \in Nodes
    BY <1>1, <2>2, Zenon DEF StepInv, NodeInv
  <2>4. a.state = "Registered" /\ a.pend = n.pend /\ a.ack = n.ack /\ a.uuid = p.body.uuid
    BY <2>3, Zenon DEF Nodes
  <2>5. q = Then(R[s], a, {}, {})
    BY Zenon DEF Register
  <2> HIDE DEF a
  <2>6. Outstanding(a) => Outstanding(n)
    BY <2>4, Zenon DEF Outstanding, Busy
  <2>7. q.n = a
    BY <2>5 DEF Then
  <2> HIDE DEF q
  <2>8. Carries(R[s], q)
    BY <2>4, <2>5, <2>6, CarriesThen, Zenon
  <2>9. Within(q, HubMail)
    BY <1>1, <2>2, <2>8, CarriesWithin, Zenon
  <2>10. Q[s] = q /\ \A t \in Slots : Within(Q[t], HubMail)
    BY <1>1, <2>2, <2>9, Zenon
  <2> HIDE DEF Q, ok
  <2>11. /\ nodes'[s] = q.n /\ \A t \in Slots : Stores(nodes'[t], HubMail)
         /\ \A e \in tx' : e = ok \/ e \in HubMail
    BY <2>1, <2>2, <2>10, Despatched, Zenon
  <2>12. Grant(ok)
    BY <1>2, <2>2, <2>4, <2>7, <2>11, Zenon DEF Grant, ok
  <2>. QED
    BY <2>11, <2>12, Zenon DEF HubKept
<1>. QED
  BY <1>3, <1>4, Zenon

\* The answer to a deregistration request grants no address.
LEMMA DeregistrationHub ==
    ASSUME HubInv, NEW p, FromDevice(p), NEW R, Opening(R, p), RxDeregistrationRequest(R, p)
    PROVE  HubKept
<1> DEFINE s == p.src
           r == R[s]
           resp == Response(s, p.body.uuid, Unassigned, "Success")
           a == TxPacket(r.n, resp, 0, NoMsg)
           b == Then(r, a.n, a.tx, {})
           q == Deregister(b)
           Q == [R EXCEPT ![s] = q]
           known == Known(s) /\ nodes[s].uuid = p.body.uuid
<1>1. R \in [Slots -> Steps] /\ \A t \in Slots : Within(R[t], HubMail) /\ StepInv(R[t])
  BY OpeningWithin, Zenon DEF Opening, Sound
<1>2. Perform(IF known THEN Q ELSE R, {}, sends, copies)
  BY Zenon DEF RxDeregistrationRequest, Apply
<1>3. p.body.uuid \in Uuids
  BY Zenon DEF RxDeregistrationRequest, FromDevice, DeregistrationRequests
<1>4. ASSUME known PROVE s \in Slots /\ Within(q, HubMail)
  <2>1. s \in Slots /\ s \in Addrs /\ "Success" \in Status
    BY <1>4, AddrTypes, Zenon DEF Known, Status
  <2>2. resp \in HubMail /\ resp \in Packets
    BY <1>3, <2>1, OwnMail, Zenon DEF HubInv, HubMail
  <2>3. Within(r, HubMail) /\ NodeInv(r.n)
    BY <1>1, <2>1, Zenon DEF StepInv
  <2>4. r.n \in Nodes /\ Stores(r.n, HubMail)
    BY <2>3, Zenon DEF NodeInv, Within
  <2> HIDE DEF r, resp
  <2>5. Within(a, HubMail)
    BY <2>2, <2>4, TxPacketWithin, Zenon
  <2>6. a.n \in Nodes
    BY <2>2, <2>3, TxPacketKeeps, ZenonT(30) DEF Keeps, StepInv, NodeInv
  <2> HIDE DEF a
  <2>7. b.n = a.n /\ b.tx = r.tx \cup a.tx
    BY Zenon DEF Then
  <2> HIDE DEF b
  <2>8. Within(b, HubMail) /\ b.n \in Nodes
    BY <2>3, <2>5, <2>6, <2>7, Zenon DEF Within
  <2>. QED
    BY <2>1, <2>8, DeregisterCarries, CarriesWithin, Zenon
<1> HIDE DEF q, s, known
<1>5. \A t \in Slots : Within((IF known THEN Q ELSE R)[t], HubMail)
  BY <1>1, <1>4, Zenon
<1> HIDE DEF Q
<1>. QED
  BY <1>2, <1>5, Despatched DEF HubKept

\* The handlers of tinymac_recv_cb.
LEMMA HandleHub ==
    ASSUME HubInv, NEW p, FromDevice(p), NEW R, Opening(R, p), Handle(R, p)
    PROVE  HubKept
<1>1. R \in [Slots -> Steps] /\ \A t \in Slots : Within(R[t], HubMail) /\ StepInv(R[t])
  BY OpeningWithin, Zenon DEF Opening, Sound
<1>2. CASE RxAcknowledgement(R, p)
  <2> DEFINE q == RxAck(R[p.src], p.seq)
             Q == IF Known(p.src) THEN [R EXCEPT ![p.src] = q] ELSE R
  <2>1. Perform(Q, {}, sends, copies)
    BY <1>2, Zenon DEF RxAcknowledgement, Apply
  <2>2. ASSUME Known(p.src) PROVE p.src \in Slots /\ Within(q, HubMail)
    BY <1>1, <2>2, RxAckCarries, CarriesWithin, Zenon DEF Known
  <2> HIDE DEF q
  <2>3. \A t \in Slots : Within(Q[t], HubMail)
    BY <1>1, <2>2, Zenon
  <2> HIDE DEF Q
  <2>. QED
    BY <2>1, <2>3, Despatched DEF HubKept
<1>3. CASE RxBeaconRequest(R, p)
  <2> DEFINE beacon == Beacon(FALSE)
  <2>1. Perform(R, {beacon}, sends, copies)
    BY <1>3, Zenon DEF RxBeaconRequest, Apply
  <2>2. beacon \in HubMail
    BY OwnMail, Zenon DEF HubInv
  <2> HIDE DEF beacon
  <2>. QED
    BY <1>1, <2>1, <2>2, Despatched DEF HubKept
<1>4. CASE RxRegistrationRequest(R, p)
  BY <1>4, RegistrationHub, Zenon
<1>5. CASE RxDeregistrationRequest(R, p)
  BY <1>5, DeregistrationHub, Zenon
<1>6. CASE RxOther(R, p)
  <2>1. Perform(R, {}, sends, copies)
    BY <1>6, Zenon DEF RxOther, Apply
  <2>. QED
    BY <1>1, <2>1, Despatched DEF HubKept
<1>. QED
  BY <1>2, <1>3, <1>4, <1>5, <1>6, Zenon DEF Handle

\* tinymac_recv_cb.
LEMMA RecvHub ==
    ASSUME HubInv, NEW p, FromDevice(p), RecvCb(p)
    PROVE  HubKept
<1>1. CoordInv
  BY Zenon DEF HubInv
<1>2. CASE RecvUnassigned(p)
  BY <1>1, <1>2, DeviceOpening, HandleHub, Zenon DEF RecvUnassigned
<1>3. CASE RecvKnown(p)
  BY <1>1, <1>3, DeviceOpening, HandleHub, Zenon DEF RecvKnown, Known
<1>4. CASE RecvUnknown(p)
  <2> DEFINE resp == Response(p.src, NoUuid, Unassigned, "AddressInvalid")
  <2>1. Perform(Idle, {resp}, sends, copies)
    BY <1>4, Zenon DEF RecvUnknown, Apply
  <2>2. p.src \in Addrs /\ "AddressInvalid" \in Status /\ NoUuid \in Uuids \cup {NoUuid}
    BY Zenon DEF FromDevice, Packets, Status
  <2>3. resp \in HubMail
    BY <1>1, <2>2, OwnMail, Zenon
  <2>4. \A t \in Slots : Within(Idle[t], HubMail)
    BY <1>1, DeviceOpening, OpeningWithin, Zenon
  <2> HIDE DEF resp
  <2>. QED
    BY <2>1, <2>3, <2>4, Despatched DEF HubKept
<1>. QED
  BY <1>2, <1>3, <1>4, Zenon DEF RecvCb

\* tinymac_tick_handler.
LEMMA TickHub ==
    ASSUME HubInv, TickHandler
    PROVE  HubKept
<1> DEFINE R == [s \in Slots |-> NodeTick(nodes[s])]
           due == (slot + 1) % BEACON_PERIOD = BEACON_OFFSET
           extra == IF due THEN {Beacon(TRUE)} ELSE {}
<1>1. Perform(R, extra, sends, copies)
  BY Zenon DEF TickHandler, Apply
<1>2. ASSUME NEW s \in Slots PROVE Within(R[s], HubMail)
  <2>1. NodeInv(nodes[s]) /\ Within(Begin(nodes[s]), HubMail)
    BY BeginWithin, Zenon DEF HubInv, CoordInv
  <2>. QED
    BY <2>1, NodeTickCarries, CarriesWithin, Zenon
<1>3. \A e \in extra : e \in HubMail
  BY OwnMail, Zenon DEF HubInv
<1> HIDE DEF R, extra
<1>. QED
  BY <1>1, <1>2, <1>3, Despatched, Zenon DEF HubKept

----------------------------------------------------------------------------
(* Slots stay with their devices. *)

\* A slot that registration gives to another device was free to take: no
\* device had it, unless all slots were given to other devices.
LEMMA SlotForFree ==
    ASSUME NEW u, SlotFor(u) \in Slots
    PROVE  \/ nodes[SlotFor(u)].uuid \in {u, NoUuid}
           \/ \A t \in Slots : nodes[t].uuid \notin {u, NoUuid}
<1> DEFINE H == {t \in Slots : nodes[t].uuid = u}
           U == {t \in Slots : nodes[t].uuid = NoUuid}
           F == {t \in Slots : nodes[t].state = "Unregistered"}
<1>1. H \in SUBSET Slots /\ U \in SUBSET Slots
  BY Zenon
<1>2. /\ IF H = {} THEN First(H) = 0 ELSE First(H) \in H /\ First(H) # 0
      /\ IF U = {} THEN First(U) = 0 ELSE First(U) \in U /\ First(U) # 0
  BY <1>1, FirstOf, Zenon
<1>3. SlotFor(u) = IF First(H) # 0 THEN First(H) ELSE IF First(U) # 0 THEN First(U) ELSE First(F)
  BY Zenon DEF SlotFor
<1> HIDE DEF F
<1>4. CASE H # {}
  BY <1>2, <1>3, <1>4, Zenon
<1>5. CASE H = {} /\ U # {}
  BY <1>2, <1>3, <1>5, Zenon
<1>6. CASE H = {} /\ U = {}
  BY <1>6, Zenon
<1>. QED
  BY <1>4, <1>5, <1>6, Zenon

\* The other devices never have all the slots.
LEMMA RoomForDevice ==
    ASSUME EnoughSlots, CoordInv, NEW u \in Uuids
    PROVE  \E t \in Slots : nodes[t].uuid \in {u, NoUuid}
<1> SUFFICES ASSUME \A t \in Slots : nodes[t].uuid \notin {u, NoUuid} PROVE FALSE
  BY Zenon
<1> DEFINE owner == [t \in Slots |-> nodes[t].uuid]
<1>1. \A t \in Slots : nodes[t].uuid \in Uuids \ {u}
  <2>1. \A t \in Slots : nodes[t] \in Nodes
    BY Zenon DEF CoordInv, TypeOK
  <2>2. \A t \in Slots : nodes[t].uuid \in Uuids \cup {NoUuid}
    BY <2>1, Zenon DEF Nodes
  <2>. QED
    BY <2>2, Zenon
<1>2. owner \in [Slots -> Uuids \ {u}]
  BY <1>1, Zenon
<1>3. \A s, t \in Slots : owner[s] = owner[t] => s = t
  BY <1>1, Zenon DEF CoordInv, RegistryUnique
<1> HIDE DEF owner
<1>. QED
  BY <1>2, <1>3, Zenon DEF EnoughSlots

\* So a received packet takes no slot from its device.
LEMMA OwnersLasting ==
    ASSUME EnoughSlots, HubInv, NEW p, FromDevice(p), Owners(p), net_id' = net_id,
           fresh' = fresh
    PROVE  Lasting
<1>2. ASSUME NEW s \in Slots PROVE nodes[s].uuid = NoUuid \/ nodes'[s].uuid = nodes[s].uuid
  <2>1. CASE nodes'[s].uuid = nodes[s].uuid
    BY <2>1, Zenon
  <2>2. CASE /\ p.type = "RegistrationRequest" /\ s = SlotFor(p.body.uuid)
             /\ nodes'[s].uuid = p.body.uuid
    <3>1. p.body.uuid \in Uuids
      BY <2>2, Zenon DEF FromDevice, RegistrationRequests
    <3>2. ~ \A t \in Slots : nodes[t].uuid \notin {p.body.uuid, NoUuid}
      BY <3>1, RoomForDevice, Zenon DEF HubInv
    <3>3. nodes[s].uuid \in {p.body.uuid, NoUuid}
      BY <2>2, <3>2, SlotForFree, Zenon
    <3>. QED
      BY <2>2, <3>3, Zenon
  <2>. QED
    BY <2>1, <2>2, Zenon DEF Owners
<1>. QED
  BY <1>2, Zenon DEF Lasting

\* The rest leaves the registry as it is.
LEMMA SameLasting ==
    ASSUME SameOwners, net_id' = net_id, fresh' = fresh
    PROVE  Lasting
  BY Zenon DEF SameOwners, Lasting

----------------------------------------------------------------------------
(* The gateway. *)

\* What a step of the gateway leaves the devices with.
HubStep == HubInv' /\ Lasting /\ \A e \in tx' : FromHub(e)'

\* Within one network the parts above make a step.
LEMMA HubStepFrom ==
    ASSUME HubInv, CoordInv', net_id' = net_id, HubKept, Lasting
    PROVE  HubStep
<1>1. HubMail' = HubMail
  BY Zenon DEF HubMail
<1>2. \A s \in Slots : Stores(nodes'[s], HubMail')
  BY <1>1, Zenon DEF HubKept
<1>3. HubInv'
  BY <1>2, Zenon DEF HubInv, Stores, Outstanding, Busy
<1>4. ASSUME NEW e \in tx' PROVE FromHub(e)'
  BY SentFromHub, Zenon DEF HubKept
<1>. QED
  BY <1>3, <1>4, Zenon DEF HubStep

\* tinymac_permit_attach.
LEMMA PermitHub ==
    ASSUME HubInv, NEW permit \in BOOLEAN, PermitAttach(permit), fresh' = fresh
    PROVE  HubStep
<1>1. CoordInv'
  BY PermitInv, Zenon DEF HubInv
<1>2. nodes' = nodes /\ net_id' = net_id /\ tx' = {}
  BY Zenon DEF PermitAttach
<1>3. HubKept
  BY <1>2, Zenon DEF HubKept, HubInv
<1>4. Lasting
  BY <1>2, SameLasting, Zenon DEF SameOwners
<1>. QED
  BY <1>1, <1>2, <1>3, <1>4, HubStepFrom, Zenon

\* The tick, and a packet a device has sent.
LEMMA TickRecvHub ==
    ASSUME EnoughSlots, HubInv, fresh' = fresh
    PROVE  /\ TickHandler => HubStep
           /\ \A p : FromDevice(p) /\ RecvCb(p) => HubStep
<1>1. CoordInv
  BY Zenon DEF HubInv
<1>2. ASSUME TickHandler PROVE HubStep
  <2>1. CoordInv' /\ SameOwners
    BY <1>1, <1>2, TickInv, Zenon
  <2>2. net_id' = net_id
    BY <1>2, Zenon DEF TickHandler
  <2>. QED
    BY <1>2, <2>1, <2>2, TickHub, SameLasting, HubStepFrom, Zenon
<1>3. ASSUME NEW p, FromDevice(p), RecvCb(p) PROVE HubStep
  <2>1. CoordInv' /\ Owners(p)
    BY <1>1, <1>3, DeviceRecvInv, Zenon
  <2>2. net_id' = net_id
    BY <1>3, Zenon DEF RecvCb
  <2>. QED
    BY <1>3, <2>1, <2>2, RecvHub, OwnersLasting, HubStepFrom, Zenon
<1>. QED
  BY <1>2, <1>3, Zenon

\* A relayed packet.
LEMMA RelayHub ==
    ASSUME HubInv, NEW s \in Slots, GatewayRelay(s)
    PROVE  HubStep
<1> DEFINE n == nodes[s]
           p == Packet("Data", net_id, s, COORD_ADDR, NextSeq, FALSE, NoBody)
           q == TxPacket(n, p, n.heartbeat, NoMsg)
           R == [Idle EXCEPT ![s] = q]
<1>1. CoordInv /\ NodeInv(n) /\ n \in Nodes /\ net_id \in NetIds /\ Stores(n, HubMail)
  BY Zenon DEF HubInv, CoordInv, NodeInv, TypeOK
<1>2. /\ Perform(R, {}, sends, copies) /\ dseq' = NextSeq
      /\ net_id' = net_id /\ permit_attach' = permit_attach /\ slot' = slot /\ live' = live
      /\ fresh' = fresh
  BY Zenon DEF GatewayRelay, Apply
<1>3. p \in Packets
  BY <1>1, AddrTypes, CoordPackets, PacketType, Zenon DEF Types, Bodies
<1>4. p.net = net_id /\ p.type = "Data"
  BY Zenon DEF Packet
<1>5. n.heartbeat \in Nat
  BY <1>1, NodeConstants, Zenon DEF Nodes
<1> HIDE DEF p
<1>6. p \in HubMail
  BY <1>3, <1>4, Zenon DEF HubMail
<1>7. Keeps(Begin(n), q) /\ q.gone = FALSE
  BY <1>1, <1>3, <1>5, TxPacketKeeps, Zenon
<1>8. Within(q, HubMail)
  BY <1>1, <1>6, TxPacketWithin, Zenon
<1> HIDE DEF q
<1>9. Sound(R)
  BY <1>1, <1>7, IdleSound, SoundUpdate, Zenon
<1>10. \A t \in Slots : R[t].gone = FALSE /\ Within(R[t], HubMail)
  <2>1. ASSUME NEW t \in Slots PROVE Idle[t].gone = FALSE /\ Within(Idle[t], HubMail)
    BY <1>1, IdleSound, BeginWithin, Zenon DEF HubInv
  <2>2. Idle \in [Slots -> Steps]
    BY <1>1, IdleSound, Zenon DEF Sound
  <2>. QED
    BY <1>7, <1>8, <2>1, <2>2, Zenon
<1>11. live' = live \ Gone(R)
  BY <1>2, <1>10, Zenon DEF Gone
<1> HIDE DEF R
<1>12. CoordInv' /\ SameOwners
  BY <1>1, <1>2, <1>9, <1>11, CoordPackets, ApplySound, ZenonT(30) DEF CoordInv, TypeOK
<1>13. HubKept
  BY <1>2, <1>10, Despatched DEF HubKept
<1>. QED
  BY <1>2, <1>12, <1>13, SameLasting, HubStepFrom, Zenon

\* A coordinator that has just started keeps nothing.
LEMMA InitHub == Init => HubInv
<1> SUFFICES ASSUME Init PROVE HubInv
  BY Zenon
<1>1. ~Outstanding(InitNode)
  BY Zenon DEF InitNode, Outstanding, Busy
<1>2. \A s \in Slots : Stores(nodes[s], HubMail)
  BY <1>1, Zenon DEF Init, Stores
<1>. QED
  BY <1>2, InitInv, Zenon DEF HubInv

\* Power lost and back.
LEMMA RestartHub ==
    ASSUME GatewayRestart
    PROVE  HubInv'
<1>1. Init'
  BY Zenon DEF GatewayRestart, Init
<1>2. (Init => HubInv)'
  BY InitHub, PTL
<1>. QED
  BY <1>1, <1>2, Zenon

----------------------------------------------------------------------------
(* The devices. *)

Devices ==
    [state : {"Unregistered", "BeaconRequest", "Registering", "Registered"}, net : NetIds,
     addr : Addrs, dseq : Seqs, timer : Timers, coord : Nodes, sleepy : BOOLEAN,
     radio : {"on", "window", "off"}]

Runs == [c : Devices, tx : SUBSET Packets, cb : SUBSET Calls]

\* What device u may send, now or later.
DeviceMail(u) ==
    {p \in Packets : FromDevice(p) /\ (p.type = "Data" => Agreed(p.net, p.src, u))}

DeviceInv(u, c) ==
    /\ c \in Devices
    /\ NodeInv(c.coord)
    /\ Agreed(c.net, c.addr, u)
    /\ c.addr # Unassigned <=> c.state = "Registered"
    /\ Stores(c.coord, DeviceMail(u))

RunInv(u, k) == k \in Runs /\ DeviceInv(u, k.c) /\ k.tx \subseteq DeviceMail(u)

\* The association of c is that of d.
Alike(c, d) == d.state = c.state /\ d.net = c.net /\ d.addr = c.addr

\* The fields of a device.
LEMMA DeviceFields ==
    ASSUME NEW c \in Devices
    PROVE  /\ c.net \in NetIds /\ c.addr \in Addrs /\ c.dseq \in Seqs /\ c.timer \in Timers
           /\ c.coord \in Nodes /\ c.sleepy \in BOOLEAN
  BY Zenon DEF Devices

\* What the association and the coordinator's node do not depend on may change.
LEMMA DeviceAlike ==
    ASSUME NEW u, NEW c, DeviceInv(u, c), NEW d \in Devices, Alike(c, d), d.coord = c.coord
    PROVE  DeviceInv(u, d)
  BY Zenon DEF DeviceInv, Alike

\* A step of a device, put together or gone on with.
LEMMA RunType ==
    ASSUME NEW u, NEW c, DeviceInv(u, c)
    PROVE  /\ \A P \in SUBSET DeviceMail(u), C \in SUBSET Calls :
                RunInv(u, [c |-> c, tx |-> P, cb |-> C])
           /\ \A k : RunInv(u, k) => RunInv(u, [k EXCEPT !.c = c]) /\ [k EXCEPT !.c = c].c = c
<1>1. c \in Devices /\ DeviceMail(u) \subseteq Packets
  BY Zenon DEF DeviceInv, DeviceMail
<1>2. ASSUME NEW P \in SUBSET DeviceMail(u), NEW C \in SUBSET Calls
      PROVE  RunInv(u, [c |-> c, tx |-> P, cb |-> C])
  BY <1>1, Zenon DEF RunInv, Runs
<1>3. ASSUME NEW k, RunInv(u, k)
      PROVE  RunInv(u, [k EXCEPT !.c = c]) /\ [k EXCEPT !.c = c].c = c
  <2> DEFINE j == [k EXCEPT !.c = c]
  <2>1. j \in Runs /\ j.c = c /\ j.tx = k.tx
    BY <1>1, <1>3, Zenon DEF RunInv, Runs
  <2> HIDE DEF j
  <2>2. RunInv(u, j) /\ j.c = c
    BY <1>3, <2>1, Zenon DEF RunInv
  <2>. QED
    BY <2>2, Zenon DEF j
<1>. QED
  BY <1>2, <1>3, Zenon

\* A device that has lost its association uses no address.
LEMMA UnboundDevice ==
    ASSUME NEW u, NEW c \in Devices, NodeInv(c.coord), Stores(c.coord, DeviceMail(u))
    PROVE  LET d == Client(u)!Unbound(c)
           IN  DeviceInv(u, d) /\ d.coord = c.coord /\ d.timer = c.timer
<1> DEFINE d == [c EXCEPT !.state = "Unregistered", !.addr = Unassigned, !.net = NETWORK_ANY]
<1>1. Unassigned \in Addrs /\ NETWORK_ANY \in NetIds
  BY AddrTypes, NodeConstants, Zenon
<1>2. /\ d \in Devices /\ d.coord = c.coord /\ d.timer = c.timer /\ d.state = "Unregistered"
      /\ d.addr = Unassigned /\ d.net = NETWORK_ANY
  BY <1>1, Zenon DEF Devices
<1>3. Client(u)!Unbound(c) = d
  BY SameParts, ZenonT(30) DEF Client!Unbound
<1> HIDE DEF d
<1>4. DeviceInv(u, d)
  BY <1>2, Zenon DEF DeviceInv, Agreed
<1>. QED
  BY <1>2, <1>3, <1>4, Zenon

\* The coordinator's node goes through a step (tinymac_deregister_node unbinds).
LEMMA CoordRun ==
    ASSUME NEW u, NEW k, RunInv(u, k), NEW r, StepInv(r), Within(r, DeviceMail(u))
    PROVE  LET q == Client(u)!Coord(k, r)
           IN  /\ RunInv(u, q) /\ q.c.coord = r.n /\ q.c.timer = k.c.timer
               /\ ~r.gone => Alike(k.c, q.c)
<1> DEFINE c == [k.c EXCEPT !.coord = r.n]
           d == IF r.gone THEN Client(u)!Unbound(c) ELSE c
<1>1. /\ k.c \in Devices /\ DeviceInv(u, k.c) /\ r.n \in Nodes /\ NodeInv(r.n)
      /\ k.tx \subseteq DeviceMail(u) /\ k.cb \in SUBSET Calls
      /\ r.tx \subseteq DeviceMail(u) /\ r.cb \in SUBSET Calls /\ Stores(r.n, DeviceMail(u))
  BY Zenon DEF RunInv, Runs, DeviceInv, StepInv, NodeInv, Steps, Within
<1>2. c \in Devices /\ c.coord = r.n /\ c.timer = k.c.timer /\ Alike(k.c, c)
  BY <1>1, Zenon DEF Devices, Alike
<1>3. Client(u)!Coord(k, r) = [c |-> d, tx |-> k.tx \cup r.tx, cb |-> k.cb \cup r.cb]
  BY Zenon DEF Client!Coord
<1> HIDE DEF c
<1>4. /\ DeviceInv(u, Client(u)!Unbound(c)) /\ Client(u)!Unbound(c).coord = r.n
      /\ Client(u)!Unbound(c).timer = k.c.timer
  BY <1>1, <1>2, UnboundDevice, ZenonT(30)
<1>5. DeviceInv(u, c)
  BY <1>1, <1>2, ZenonT(30) DEF DeviceInv, Alike
<1>6. DeviceInv(u, d) /\ d.coord = r.n /\ d.timer = k.c.timer
  BY <1>2, <1>4, <1>5, Zenon
<1>7. k.tx \cup r.tx \in SUBSET DeviceMail(u) /\ k.cb \cup r.cb \in SUBSET Calls
  BY <1>1, ZenonT(30)
<1>8. ~r.gone => Alike(k.c, d)
  BY <1>2, Zenon
<1> HIDE DEF d
<1>9. RunInv(u, [c |-> d, tx |-> k.tx \cup r.tx, cb |-> k.cb \cup r.cb])
  BY <1>6, <1>7, RunType, Zenon
<1>. QED
  BY <1>3, <1>6, <1>8, <1>9

\* Counting a packet changes nothing else.
LEMMA CountRun ==
    ASSUME NEW u, NEW k, RunInv(u, k)
    PROVE  LET c == [k.c EXCEPT !.dseq = Client(u)!NextSeq(k.c)]
           IN  DeviceInv(u, c) /\ Alike(k.c, c) /\ c.coord = k.c.coord
<1> DEFINE c == [k.c EXCEPT !.dseq = Client(u)!NextSeq(k.c)]
<1>1. k.c \in Devices /\ DeviceInv(u, k.c)
  BY Zenon DEF RunInv, Runs
<1>2. Client(u)!NextSeq(k.c) \in Seqs
  BY <1>1, NodeConstants DEF Devices, Client!NextSeq, Seqs
<1>3. c \in Devices /\ Alike(k.c, c) /\ c.coord = k.c.coord
  BY <1>1, <1>2, Zenon DEF Devices, Alike
<1> HIDE DEF c
<1>4. DeviceInv(u, c)
  BY <1>1, <1>3, DeviceAlike, Zenon
<1>. QED
  BY <1>3, <1>4, Zenon DEF c

\* The packets a device builds are those it may send: a request for an address
\* comes from a device without one.
LEMMA DevicePacket ==
    ASSUME NEW u, NEW c, DeviceInv(u, c), NEW type \in Types, NEW dest \in Addrs,
           NEW ar \in BOOLEAN, NEW body \in Bodies, type # "DeregistrationRequest",
           type = "RegistrationRequest" => body \in RegistrationRequests /\ c.addr = Unassigned
    PROVE  Packet(type, c.net, dest, c.addr, c.dseq, ar, body) \in DeviceMail(u)
<1> DEFINE p == Packet(type, c.net, dest, c.addr, c.dseq, ar, body)
<1>1. c.net \in NetIds /\ c.addr \in Addrs /\ c.dseq \in Seqs /\ Agreed(c.net, c.addr, u)
  BY DeviceFields, Zenon DEF DeviceInv
<1>2. p \in Packets
  BY <1>1, PacketType, Zenon
<1>3. p.type = type /\ p.net = c.net /\ p.src = c.addr /\ p.body = body
  BY Zenon DEF Packet
<1> HIDE DEF p
<1>4. p \in DeviceMail(u)
  BY <1>1, <1>2, <1>3, ZenonT(30) DEF DeviceMail, FromDevice, Agreed
<1>. QED
  BY <1>4, Zenon DEF p

\* tinymac_tx_packet to the coordinator.
LEMMA TxRun ==
    ASSUME NEW u, NEW k, RunInv(u, k), NEW type \in Types, NEW ar \in BOOLEAN, NEW body \in Bodies,
           NEW v \in Nat, NEW m \in Msgs \cup {NoMsg}, type # "DeregistrationRequest",
           type = "RegistrationRequest" => body \in RegistrationRequests /\ k.c.addr = Unassigned
    PROVE  RunInv(u, Client(u)!Tx(k, type, ar, body, v, m))
<1> DEFINE c == [k.c EXCEPT !.dseq = Client(u)!NextSeq(k.c)]
           j == [k EXCEPT !.c = c]
           p == Packet(type, c.net, COORD_ADDR, c.addr, c.dseq, ar, body)
           r == TxPacket(c.coord, p, v, m)
<1>1. DeviceInv(u, c) /\ Alike(k.c, c)
  BY CountRun, Zenon
<1>2. Client(u)!Tx(k, type, ar, body, v, m) = Client(u)!Coord(j, r)
  BY SameParts, SamePacket, SameSending DEF Client!Tx
<1> HIDE DEF c
<1>3. RunInv(u, j) /\ NodeInv(c.coord) /\ c.coord \in Nodes /\ Stores(c.coord, DeviceMail(u))
  BY <1>1, RunType, Zenon DEF DeviceInv, NodeInv
<1>4. p \in DeviceMail(u) /\ p \in Packets
  <2>1. type = "RegistrationRequest" => body \in RegistrationRequests /\ c.addr = Unassigned
    BY <1>1, Zenon DEF Alike
  <2>2. p \in DeviceMail(u)
    BY <1>1, <2>1, AddrTypes, DevicePacket, ZenonT(30)
  <2>. QED
    BY <2>2, Zenon DEF DeviceMail
<1> HIDE DEF j, p
<1>5. StepInv(r) /\ Within(r, DeviceMail(u))
  BY <1>3, <1>4, TxPacketKeeps, TxPacketWithin, ZenonT(30) DEF Keeps
<1> HIDE DEF r
<1>. QED
  BY <1>2, <1>3, <1>5, CoordRun, Zenon

\* A packet to nobody in particular, which may only be a beacon request.
LEMMA CastRun ==
    ASSUME NEW u, NEW k, RunInv(u, k)
    PROVE  LET q == Client(u)!Cast(k, "BeaconRequest")
           IN  RunInv(u, q) /\ Alike(k.c, q.c)
<1> DEFINE c == [k.c EXCEPT !.dseq = Client(u)!NextSeq(k.c)]
           p == Packet("BeaconRequest", c.net, Broadcast, c.addr, c.dseq, FALSE, NoBody)
           q == [k EXCEPT !.c = c, !.tx = @ \cup {p}]
<1>1. DeviceInv(u, c) /\ Alike(k.c, c)
  BY CountRun, Zenon
<1>2. Client(u)!Cast(k, "BeaconRequest") = q
  BY SameParts, SamePacket, Zenon DEF Client!Cast
<1> HIDE DEF c
<1>3. p \in DeviceMail(u)
  BY <1>1, AddrTypes, DevicePacket, Zenon DEF Types, Bodies
<1> HIDE DEF p
<1>4. k \in Runs /\ c \in Devices /\ p \in Packets /\ k.tx \subseteq DeviceMail(u)
  BY <1>1, <1>3, Zenon DEF RunInv, DeviceInv, DeviceMail
<1>5. q \in Runs /\ q.c = c /\ q.tx = k.tx \cup {p}
  BY <1>4, Zenon DEF Runs
<1> HIDE DEF q
<1>6. RunInv(u, q)
  BY <1>1, <1>3, <1>4, <1>5, Zenon DEF RunInv
<1>. QED
  BY <1>1, <1>2, <1>5, <1>6, Zenon

\* The tick looks for a network.
LEMMA AskForBeaconRun ==
    ASSUME NEW u, NEW k, RunInv(u, k)
    PROVE  RunInv(u, Client(u)!AskForBeacon(k))
<1>1. CASE k.c.state # "Unregistered"
  BY <1>1, Zenon DEF Client!AskForBeacon
<1>2. CASE k.c.state = "Unregistered"
  <2> DEFINE j == [k EXCEPT !.c.state = "BeaconRequest", !.c.timer = BEACON_TICKS]
             c == [k.c EXCEPT !.state = "BeaconRequest", !.timer = BEACON_TICKS]
  <2>1. k \in Runs /\ k.c \in Devices /\ DeviceInv(u, k.c)
    BY Zenon DEF RunInv, Runs
  <2>2. BEACON_TICKS \in Timers
    BY NetConstants, Zenon DEF Timers
  <2>3. /\ c \in Devices /\ c.state = "BeaconRequest" /\ c.addr = k.c.addr /\ c.net = k.c.net
        /\ c.coord = k.c.coord
    BY <2>1, <2>2, Zenon DEF Devices
  <2>4. j = [k EXCEPT !.c = c]
    BY <2>1, Zenon DEF Runs, Devices
  <2>5. Client(u)!AskForBeacon(k) = Client(u)!Cast(j, "BeaconRequest")
    BY <1>2, Zenon DEF Client!AskForBeacon
  <2> HIDE DEF c
  <2>6. DeviceInv(u, c)
    BY <1>2, <2>1, <2>3, Zenon DEF DeviceInv
  <2> HIDE DEF j
  <2>7. RunInv(u, j)
    BY <2>4, <2>6, RunType, Zenon
  <2>. QED
    BY <2>5, <2>7, CastRun, Zenon
<1>. QED
  BY <1>1, <1>2, Zenon

\* The coordinator's timers are despatched.
LEMMA DespatchCoordRun ==
    ASSUME NEW u, NEW k, RunInv(u, k)
    PROVE  LET q == Client(u)!DespatchCoord(k)
           IN  RunInv(u, q) /\ q.c.coord.ack # 0 /\ q.c.coord.val # 0
<1> DEFINE r0 == Begin(k.c.coord)
           r1 == DespatchAck(r0)
           r2 == DespatchValidity(r1)
<1>1. StepInv(r0) /\ Within(r0, DeviceMail(u))
  BY BeginInv, BeginWithin, Zenon DEF RunInv, DeviceInv
<1>2. Client(u)!DespatchCoord(k) = Client(u)!Coord(k, r2)
  BY SameParts, SameReceiving, Zenon DEF Client!DespatchCoord
<1> HIDE DEF r0
<1>3. StepInv(r1) /\ r1.n.ack # 0 /\ Within(r1, DeviceMail(u))
  BY <1>1, DespatchAckKeeps, DespatchAckCarries, CarriesWithin, ZenonT(30) DEF Keeps
<1> HIDE DEF r1
<1>4. StepInv(r2) /\ r2.n.ack # 0 /\ r2.n.val # 0 /\ Within(r2, DeviceMail(u))
  BY <1>3, DespatchValidityKeeps, DespatchValidityCarries, CarriesWithin, ZenonT(30) DEF Keeps
<1> HIDE DEF r2
<1>. QED
  BY <1>2, <1>4, CoordRun

\* A due request timer is cleared, and the request given up.
LEMMA DespatchRequestRun ==
    ASSUME NEW u, NEW k, RunInv(u, k), k.c.coord.ack # 0, k.c.coord.val # 0
    PROVE  LET q == Client(u)!DespatchRequest(k)
           IN  RunInv(u, q) /\ q.c.timer # 0 /\ q.c.coord.ack # 0 /\ q.c.coord.val # 0
<1>1. CASE k.c.timer # 0
  BY <1>1, Zenon DEF Client!DespatchRequest
<1>2. CASE k.c.timer = 0
  <2> DEFINE c == [k.c EXCEPT !.timer = Off]
             j == [k EXCEPT !.c = c]
             b == Begin(c.coord)
             r == Deregister(b)
             q == Client(u)!DespatchRequest(k)
  <2>1. k.c \in Devices /\ DeviceInv(u, k.c)
    BY Zenon DEF RunInv, Runs
  <2>2. c \in Devices /\ Alike(k.c, c) /\ c.coord = k.c.coord /\ c.timer = Off
    BY <2>1, FieldTypes, Zenon DEF Devices, Alike
  <2>3. q = IF c.state \in {"BeaconRequest", "Registering"} THEN Client(u)!Coord(j, r) ELSE j
    BY <1>2, SameParts DEF Client!DespatchRequest, Client!RequestTimeout
  <2> HIDE DEF c
  <2>4. DeviceInv(u, c)
    BY <2>1, <2>2, DeviceAlike, Zenon
  <2>5. RunInv(u, j) /\ j.c = c
    BY <2>4, RunType, Zenon
  <2>6. StepInv(b) /\ b.n = c.coord /\ Within(b, DeviceMail(u))
    BY <2>4, BeginInv, BeginWithin, ZenonT(30) DEF DeviceInv
  <2> HIDE DEF b, j, q
  <2>7. StepInv(r) /\ r.n.ack = b.n.ack /\ r.n.val = b.n.val /\ Within(r, DeviceMail(u))
    <3>1. b \in Steps /\ b.n \in Nodes /\ (b.n.ack # Off => b.n.pend \in Packets)
      BY <2>6, ZenonT(30) DEF StepInv, NodeInv
    <3>. QED
      BY <2>6, <3>1, DeregisterStep, DeregisterCarries, CarriesWithin, ZenonT(30)
  <2> HIDE DEF r
  <2>8. /\ RunInv(u, Client(u)!Coord(j, r)) /\ Client(u)!Coord(j, r).c.coord = r.n
        /\ Client(u)!Coord(j, r).c.timer = Off
    BY <2>2, <2>5, <2>7, CoordRun
  <2>9. Off # 0
    BY DEF Off
  <2>10. RunInv(u, q) /\ q.c.timer # 0 /\ q.c.coord.ack # 0 /\ q.c.coord.val # 0
    BY <2>2, <2>3, <2>5, <2>6, <2>7, <2>8, <2>9, Zenon
  <2>. QED
    BY <2>10, Zenon DEF q
<1>. QED
  BY <1>1, <1>2, Zenon

\* No timer is counted below zero.
LEMMA AdvanceRun ==
    ASSUME NEW u, NEW k, RunInv(u, k), k.c.timer # 0, k.c.coord.ack # 0, k.c.coord.val # 0
    PROVE  RunInv(u, Client(u)!Advance(k))
<1> DEFINE n == k.c.coord
           a == [n EXCEPT !.ack = Elapse(@), !.val = Elapse(@)]
           c == [k.c EXCEPT !.timer = Elapse(@), !.coord = a]
<1>1. /\ k \in Runs /\ k.c \in Devices /\ DeviceInv(u, k.c) /\ n \in Nodes /\ NodeInv(n)
      /\ Stores(n, DeviceMail(u))
  BY ZenonT(30) DEF RunInv, Runs, DeviceInv, NodeInv
<1>2. /\ Elapse(n.ack) \in Timers /\ (Elapse(n.ack) = Off <=> n.ack = Off)
      /\ Elapse(n.val) \in Timers
  BY <1>1 DEF Nodes, Timers, Elapse, Off
<1>3. Elapse(k.c.timer) \in Timers
  BY <1>1 DEF Devices, Timers, Elapse, Off
<1>4. a \in Nodes /\ a.ack = Elapse(n.ack) /\ a.state = n.state /\ a.pend = n.pend
  BY <1>1, <1>2, ZenonT(30) DEF Nodes
<1>5. Client(u)!Advance(k) = [k EXCEPT !.c = c]
  BY <1>1, SameParts, Zenon DEF Client!Advance, Runs, Devices
<1> HIDE DEF a
<1>6. NodeInv(a) /\ Stores(a, DeviceMail(u))
  BY <1>1, <1>2, <1>4, Zenon DEF NodeInv, Busy, Stores, Outstanding
<1>7. c \in Devices /\ c.coord = a /\ Alike(k.c, c)
  BY <1>1, <1>3, <1>4, ZenonT(30) DEF Devices, Alike
<1> HIDE DEF c
<1>8. DeviceInv(u, c)
  BY <1>1, <1>6, <1>7, Zenon DEF DeviceInv, Alike
<1>. QED
  BY <1>5, <1>8, RunType

\* A step that has not begun.
LEMMA StartRun ==
    ASSUME NEW u, NEW c, DeviceInv(u, c)
    PROVE  RunInv(u, Client(u)!Start(c)) /\ Client(u)!Start(c).c = c
<1>1. Client(u)!Start(c) = [c |-> c, tx |-> {}, cb |-> {}]
  BY Zenon DEF Client!Start
<1>2. RunInv(u, [c |-> c, tx |-> {}, cb |-> {}])
  BY RunType, Zenon
<1>. QED
  BY <1>1, <1>2

\* tinymac_tick_handler.
LEMMA TickRun ==
    ASSUME NEW u, NEW c, DeviceInv(u, c)
    PROVE  RunInv(u, Client(u)!ClientTick(c))
<1> DEFINE k0 == Client(u)!Start(c)
           k1 == Client(u)!AskForBeacon(k0)
           k2 == Client(u)!DespatchCoord(k1)
           k3 == Client(u)!DespatchRequest(k2)
<1>1. RunInv(u, k1)
  BY StartRun, AskForBeaconRun, Zenon
<1>2. Client(u)!ClientTick(c) = Client(u)!Advance(k3)
  BY Zenon DEF Client!ClientTick
<1> HIDE DEF k1
<1>3. RunInv(u, k2) /\ k2.c.coord.ack # 0 /\ k2.c.coord.val # 0
  BY <1>1, DespatchCoordRun, Zenon
<1> HIDE DEF k2
<1>4. RunInv(u, k3) /\ k3.c.timer # 0 /\ k3.c.coord.ack # 0 /\ k3.c.coord.val # 0
  BY <1>3, DespatchRequestRun, Zenon
<1> HIDE DEF k3
<1>. QED
  BY <1>2, <1>4, AdvanceRun, Zenon

\* Switching the receiver changes nothing else.
LEMMA RadioDevice ==
    ASSUME NEW u, NEW c, DeviceInv(u, c), NEW radio \in {"on", "window", "off"}
    PROVE  /\ DeviceInv(u, [c EXCEPT !.radio = radio])
           /\ Alike(c, [c EXCEPT !.radio = radio]) /\ [c EXCEPT !.radio = radio].coord = c.coord
<1> DEFINE d == [c EXCEPT !.radio = radio]
<1>1. d \in Devices /\ Alike(c, d) /\ d.coord = c.coord
  BY Zenon DEF DeviceInv, Devices, Alike
<1> HIDE DEF d
<1>2. DeviceInv(u, d)
  BY <1>1, DeviceAlike, Zenon
<1>. QED
  BY <1>1, <1>2, Zenon DEF d

\* The coordinator's node as tinymac_rx_beacon sets it up: packet and timers
\* stay.
LEMMA BindDevice ==
    ASSUME NEW u, NEW c, DeviceInv(u, c), c.addr = Unassigned, NEW nt \in NetIds
    PROVE  LET b == Client(u)!Bind(c, nt)
           IN  DeviceInv(u, b) /\ b.addr = Unassigned /\ b.sleepy = c.sleepy
<1> DEFINE o == c.coord
           n == [o EXCEPT !.state = "Registered", !.sleepy = FALSE, !.heartbeat = 1]
           d == [c EXCEPT !.state = "Registering", !.net = nt, !.timer = REGISTRATION_TICKS,
                          !.coord = n]
<1>1. /\ c \in Devices /\ o \in Nodes /\ NodeInv(o) /\ Stores(o, DeviceMail(u)) /\ 1 \in Heartbeats
      /\ REGISTRATION_TICKS \in Timers
  BY NodeConstants, NetConstants, Zenon DEF DeviceInv, NodeInv, Timers
<1>2. Client(u)!Bind(c, nt) = d
  BY Zenon DEF Client!Bind
<1> HIDE DEF o
<1>3. n \in Nodes /\ n.state = "Registered" /\ n.ack = o.ack /\ n.pend = o.pend
  BY <1>1, FieldTypes, ZenonT(30) DEF Nodes
<1> HIDE DEF n
<1>4. NodeInv(n) /\ Stores(n, DeviceMail(u))
  BY <1>1, <1>3, Zenon DEF NodeInv, Busy, Stores, Outstanding
<1>5. /\ d \in Devices /\ d.state = "Registering" /\ d.net = nt /\ d.addr = c.addr
      /\ d.coord = n /\ d.sleepy = c.sleepy
  BY <1>1, <1>3, Zenon DEF Devices
<1> HIDE DEF d
<1>6. DeviceInv(u, d)
  BY <1>4, <1>5, ZenonT(30) DEF DeviceInv, Agreed
<1>. QED
  BY <1>2, <1>5, <1>6, Zenon

\* tinymac_rx_beacon: a device without address asks for one.
LEMMA RxBeaconRun ==
    ASSUME NEW u \in Uuids, NEW k, RunInv(u, k), NEW p, FromHub(p)
    PROVE  RunInv(u, Client(u)!RxBeacon(k, p))
<1> DEFINE c == IF k.c.state = "BeaconRequest" THEN [k.c EXCEPT !.timer = Off] ELSE k.c
           b == Client(u)!Bind(c, p.net)
           j == [k EXCEPT !.c = b]
           request == [uuid |-> u, sleepy |-> c.sleepy, heartbeat |-> HEARTBEAT]
           q == Client(u)!RxBeacon(k, p)
           binds == c.state \in {"Unregistered", "BeaconRequest"} /\ p.body.permit
           polls == c.state = "Registered" /\ c.addr \in p.body.pending
<1>1. k.c \in Devices /\ DeviceInv(u, k.c) /\ p.net \in NetIds
  BY Zenon DEF RunInv, Runs, FromHub, Packets
<1>2. c \in Devices /\ Alike(k.c, c) /\ c.coord = k.c.coord
  BY <1>1, FieldTypes, Zenon DEF Devices, Alike
<1>a. q = CASE binds -> Client(u)!Tx(j, "RegistrationRequest", FALSE, request, 0, NoMsg)
            [] polls -> Client(u)!Tx(k, "Poll", FALSE, NoBody, 0, NoMsg)
            [] OTHER -> [k EXCEPT !.c = c]
  BY Zenon DEF Client!RxBeacon, Client!Off, Off
<1> HIDE DEF c, q
<1>4. DeviceInv(u, c)
  BY <1>1, <1>2, DeviceAlike, Zenon
<1> HIDE DEF b, j, request
<1>3. /\ binds => q = Client(u)!Tx(j, "RegistrationRequest", FALSE, request, 0, NoMsg)
      /\ polls => q = Client(u)!Tx(k, "Poll", FALSE, NoBody, 0, NoMsg)
      /\ ~binds /\ ~polls => q = [k EXCEPT !.c = c]
  <2>1. ~(binds /\ polls)
    BY Zenon
  <2> HIDE DEF binds, polls
  <2>. QED
    BY <1>a, <2>1, Zenon
<1>5. NoBody \in Bodies /\ NoMsg \in Msgs \cup {NoMsg} /\ 0 \in Nat
      /\ "Poll" \in Types /\ "RegistrationRequest" \in Types
  BY Zenon DEF Bodies, Types
<1>6. CASE binds
  <2>1. c.addr = Unassigned
    BY <1>4, <1>6, Zenon DEF DeviceInv
  <2>2. DeviceInv(u, b) /\ b.addr = Unassigned
    BY <1>1, <1>4, <2>1, BindDevice, Zenon DEF b
  <2>3. request \in RegistrationRequests
    <3>1. c.sleepy \in BOOLEAN /\ HEARTBEAT \in Heartbeats
      BY <1>2, DeviceFields, NetConstants, Zenon
    <3>. QED
      BY <3>1, Zenon DEF RegistrationRequests, request
  <2>4. q = Client(u)!Tx(j, "RegistrationRequest", FALSE, request, 0, NoMsg)
    BY <1>3, <1>6, Zenon
  <2>5. RunInv(u, j) /\ j.c.addr = Unassigned
    BY <2>2, RunType, Zenon DEF j
  <2>6. request \in Bodies
    BY <2>3, Zenon DEF Bodies
  <2>7. RunInv(u, q)
    BY <1>5, <2>3, <2>4, <2>5, <2>6, TxRun, Zenon
  <2>. QED
    BY <2>7, Zenon DEF q
<1>7. CASE polls
  <2>1. q = Client(u)!Tx(k, "Poll", FALSE, NoBody, 0, NoMsg)
    BY <1>3, <1>7, Zenon
  <2>2. RunInv(u, Client(u)!Tx(k, "Poll", FALSE, NoBody, 0, NoMsg))
    BY <1>5, TxRun, Zenon
  <2>. QED
    BY <2>1, <2>2, Zenon DEF q
<1>8. CASE ~binds /\ ~polls
  <2>1. RunInv(u, q)
    BY <1>3, <1>4, <1>8, RunType
  <2>. QED
    BY <2>1, Zenon DEF q
<1>. QED
  BY <1>6, <1>7, <1>8, Zenon

\* tinymac_rx_registration_response: an address is taken that has been granted
\* to this device.
LEMMA RxResponseRun ==
    ASSUME NEW u \in Uuids, NEW k, RunInv(u, k), NEW p, FromHub(p), p.type = "RegistrationResponse"
    PROVE  RunInv(u, Client(u)!RxResponse(k, p))
<1> DEFINE c == IF k.c.state = "Registering" THEN [k.c EXCEPT !.timer = Off] ELSE k.c
           b == p.body
           d == [c EXCEPT !.state = "Registered", !.addr = b.addr, !.net = p.net]
           q == Client(u)!RxResponse(k, p)
           granted == b.uuid = u /\ b.addr # Unassigned /\ b.status = "Success"
<1>1. /\ k.c \in Devices /\ DeviceInv(u, k.c) /\ p.net \in NetIds /\ b \in RegistrationResponses
      /\ b.addr \in Addrs
  BY Zenon DEF RunInv, Runs, FromHub, Packets, RegistrationResponses
<1>2. c \in Devices /\ Alike(k.c, c) /\ c.coord = k.c.coord
  BY <1>1, FieldTypes, Zenon DEF Devices, Alike
<1>3. \/ q = k
      \/ q = [k EXCEPT !.c = Client(u)!Unbound(k.c)]
      \/ q = [k EXCEPT !.c = Client(u)!Unbound(c)]
      \/ q = [k EXCEPT !.c = d] /\ granted
  <2>1. q = CASE b.uuid # u /\ p.dest = Broadcast -> k
              [] b.uuid # u /\ p.dest # Broadcast -> [k EXCEPT !.c = Client(u)!Unbound(k.c)]
              [] b.uuid = u /\ (b.addr = Unassigned \/ b.status # "Success") ->
                   [k EXCEPT !.c = Client(u)!Unbound(c)]
              [] b.uuid = u /\ b.addr # Unassigned /\ b.status = "Success" ->
                   IF c.state = "Registering" THEN [k EXCEPT !.c = d] ELSE k
    BY Zenon DEF Client!RxResponse, Client!Off, Off, Client!Broadcast, Broadcast,
           Client!Unassigned, Unassigned
  <2> HIDE DEF b, c, d, q
  <2>2. CASE b.uuid # u /\ p.dest = Broadcast
    BY <2>1, <2>2, Zenon
  <2>3. CASE b.uuid # u /\ p.dest # Broadcast
    BY <2>1, <2>3, Zenon
  <2>4. CASE b.uuid = u /\ (b.addr = Unassigned \/ b.status # "Success")
    BY <2>1, <2>4, Zenon
  <2>5. CASE b.uuid = u /\ b.addr # Unassigned /\ b.status = "Success"
    BY <2>1, <2>5, Zenon
  <2>. QED
    BY <2>2, <2>3, <2>4, <2>5, Zenon
<1>4. /\ d \in Devices /\ d.state = "Registered" /\ d.net = p.net /\ d.addr = b.addr
      /\ d.coord = c.coord
  <2> HIDE DEF c, b
  <2>. QED
    BY <1>1, <1>2, ZenonT(30) DEF Devices
<1> HIDE DEF c, d, q
<1>5. granted => DeviceInv(u, d)
  <2>1. granted => Agreed(p.net, b.addr, u)
    BY Zenon DEF FromHub, Granting
  <2>2. NodeInv(d.coord) /\ Stores(d.coord, DeviceMail(u))
    BY <1>1, <1>2, <1>4, ZenonT(30) DEF DeviceInv
  <2> HIDE DEF b
  <2>. QED
    BY <1>4, <2>1, <2>2, Zenon DEF DeviceInv
<1>6. DeviceInv(u, Client(u)!Unbound(k.c)) /\ DeviceInv(u, Client(u)!Unbound(c))
  BY <1>1, <1>2, UnboundDevice, Zenon DEF DeviceInv
<1>7. RunInv(u, q)
  BY <1>3, <1>5, <1>6, RunType
<1>. QED
  BY <1>7, Zenon DEF q

\* A received packet switches the receiver of a sleepy device at most.
LEMMA OverheardDevice ==
    ASSUME NEW u, NEW c, DeviceInv(u, c), NEW p
    PROVE  LET d == Client(u)!Overheard(c, p)
           IN  DeviceInv(u, d) /\ Alike(c, d) /\ d.coord = c.coord
<1>1. CASE c.sleepy
  <2> DEFINE radio == IF p.dp THEN "window" ELSE "off"
  <2>1. Client(u)!Overheard(c, p) = [c EXCEPT !.radio = radio]
    BY <1>1, Zenon DEF Client!Overheard
  <2>2. radio \in {"on", "window", "off"}
    BY Zenon
  <2> HIDE DEF radio
  <2> DEFINE d == [c EXCEPT !.radio = radio]
  <2>3. DeviceInv(u, d) /\ Alike(c, d) /\ d.coord = c.coord
    BY <2>2, RadioDevice, Zenon
  <2> HIDE DEF d
  <2>. QED
    BY <2>1, <2>3, Zenon DEF d
<1>2. CASE ~c.sleepy
  BY <1>2, Zenon DEF Client!Overheard, Alike
<1>. QED
  BY <1>1, <1>2, Zenon

\* tinymac_recv_cb.
LEMMA RecvRun ==
    ASSUME NEW u \in Uuids, NEW c, DeviceInv(u, c), NEW p, FromHub(p)
    PROVE  RunInv(u, Client(u)!ClientRecv(c, p))
<1> DEFINE o == Client(u)!Start(Client(u)!Overheard(c, p))
           h == Heard(c.coord, p, c.net, c.addr)
           k == IF c.addr # Unassigned THEN Client(u)!Coord(o, h) ELSE o
           b == Begin(k.c.coord)
           a == RxAck(b, p.seq)
           q == Client(u)!ClientRecv(c, p)
<1>1. /\ p \in Packets /\ c.net \in NetIds /\ c.addr \in Addrs /\ NodeInv(c.coord)
      /\ Agreed(c.net, c.addr, u) /\ Stores(c.coord, DeviceMail(u))
  BY DeviceFields, Zenon DEF FromHub, DeviceInv
<1>2. RunInv(u, o)
  BY OverheardDevice, StartRun, Zenon
<1>3. StepInv(h) /\ Within(h, DeviceMail(u))
  <2>1. \A e \in Packets : e.type = "Ack" /\ e.net = c.net => e \in DeviceMail(u)
    BY <1>1, Zenon DEF DeviceMail, FromDevice, Agreed
  <2>. QED
    BY <1>1, <2>1, HeardKeeps, HeardWithin, ZenonT(30) DEF Keeps
<1>4. q = CASE c.addr # Unassigned /\ ~Client(u)!CoordKnown(c) -> o
            [] p.type = "Beacon" -> Client(u)!RxBeacon(k, p)
            [] p.type = "RegistrationResponse" -> Client(u)!RxResponse(k, p)
            [] p.type = "Ack" /\ c.addr # Unassigned -> Client(u)!Coord(k, a)
            [] OTHER -> k
  <2>1. /\ Client(u)!Heard(c.coord, p, c.net, c.addr) = h
        /\ Client(u)!RxAck(Client(u)!Begin(k.c.coord), p.seq) = a
    BY SameParts, SameReceiving
  <2> HIDE DEF o, h, a
  <2>2. q = LET kk == IF c.addr # Unassigned
                      THEN Client(u)!Coord(o, Client(u)!Heard(c.coord, p, c.net, c.addr)) ELSE o
            IN  CASE c.addr # Unassigned /\ ~Client(u)!CoordKnown(c) -> o
                  [] p.type = "Beacon" -> Client(u)!RxBeacon(kk, p)
                  [] p.type = "RegistrationResponse" -> Client(u)!RxResponse(kk, p)
                  [] p.type = "Ack" /\ c.addr # Unassigned ->
                       Client(u)!Coord(kk, Client(u)!RxAck(Client(u)!Begin(kk.c.coord), p.seq))
                  [] OTHER -> kk
    BY Zenon DEF Client!ClientRecv, Client!Unassigned, Unassigned, o
  <2>. QED
    BY <2>1, <2>2, Zenon
<1> HIDE DEF o, h, q
<1>5. RunInv(u, k)
  BY <1>2, <1>3, CoordRun, Zenon
<1> HIDE DEF k
<1>6. StepInv(b) /\ Within(b, DeviceMail(u))
  BY <1>5, BeginInv, BeginWithin, ZenonT(30) DEF RunInv, DeviceInv
<1> HIDE DEF b
<1>7. StepInv(a) /\ Within(a, DeviceMail(u))
  BY <1>6, RxAckKeeps, RxAckCarries, CarriesWithin, ZenonT(30) DEF Keeps
<1> HIDE DEF a
<1>8. RunInv(u, Client(u)!Coord(k, a)) /\ RunInv(u, Client(u)!RxBeacon(k, p))
  BY <1>5, <1>7, CoordRun, RxBeaconRun, Zenon
<1>9. p.type = "RegistrationResponse" => RunInv(u, Client(u)!RxResponse(k, p))
  BY <1>5, RxResponseRun, Zenon
<1>10. \/ q = o \/ q = k \/ q = Client(u)!RxBeacon(k, p) \/ q = Client(u)!Coord(k, a)
       \/ p.type = "RegistrationResponse" /\ q = Client(u)!RxResponse(k, p)
  BY <1>4
<1>11. RunInv(u, q)
  BY <1>2, <1>5, <1>8, <1>9, <1>10, Zenon
<1>. QED
  BY <1>11, Zenon DEF q

\* tinymac_phy_send switches the receiver at most.
LEMMA PhySendDevice ==
    ASSUME NEW u, NEW k, RunInv(u, k), NEW refused
    PROVE  DeviceInv(u, Client(u)!PhySend(k, refused))
<1>1. DeviceInv(u, k.c)
  BY Zenon DEF RunInv
<1>2. CASE k.tx # {} /\ k.c.sleepy
  <2> DEFINE radio == IF Client(u)!Last(k.tx) \in refused THEN "off" ELSE "window"
             d == [k.c EXCEPT !.radio = radio]
  <2>1. Client(u)!PhySend(k, refused) = d
    BY <1>2, Zenon DEF Client!PhySend
  <2>2. radio \in {"on", "window", "off"}
    BY Zenon
  <2> HIDE DEF radio
  <2>3. DeviceInv(u, d)
    BY <1>1, <2>2, RadioDevice, ZenonT(30)
  <2> HIDE DEF d
  <2>. QED
    BY <2>1, <2>3, Zenon
<1>3. CASE ~(k.tx # {} /\ k.c.sleepy)
  <2>1. Client(u)!PhySend(k, refused) = k.c
    BY <1>3, Zenon DEF Client!PhySend
  <2>. QED
    BY <1>1, <2>1, Zenon
<1>. QED
  BY <1>2, <1>3, Zenon

\* tinymac_init leaves a device without association.
LEMMA FreshDevice ==
    ASSUME NEW u
    PROVE  DeviceInv(u, FreshClient(u))
<1> DEFINE c == [state |-> "Unregistered", net |-> NETWORK_ANY, addr |-> Unassigned, dseq |-> 0,
                 timer |-> Off, coord |-> InitNode, sleepy |-> u \in Sleepy,
                 radio |-> IF u \in Sleepy THEN "off" ELSE "on"]
<1>1. FreshClient(u) = c
  BY Zenon DEF FreshClient, Client!InitClient, Client!NETWORK_ANY, NETWORK_ANY, Client!Unassigned,
         Unassigned, Client!Off, Off, Client!InitNode, InitNode
<1>2. NodeInv(InitNode) /\ InitNode \in Nodes /\ ~Outstanding(InitNode)
  <2>1. /\ "Unregistered" \in NodeStates /\ NoUuid \in Uuids \cup {NoUuid} /\ Off \in Timers
        /\ NoPacket \in Packets \cup {NoPacket} /\ NoMsg \in Msgs \cup {NoMsg} /\ 1 \in Heartbeats
    BY FieldTypes, NodeConstants, Zenon
  <2>2. InitNode \in Nodes /\ InitNode.state = "Unregistered" /\ InitNode.ack = Off
    BY <2>1 DEF InitNode, Nodes
  <2>. QED
    BY <2>2, Zenon DEF NodeInv, Busy, Outstanding
<1>3. c \in Devices /\ c.coord = InitNode /\ c.net = NETWORK_ANY /\ c.addr = Unassigned
      /\ c.state = "Unregistered"
  <2>1. Unassigned \in Addrs /\ NETWORK_ANY \in NetIds /\ Off \in Timers /\ 0 \in Seqs
    BY AddrTypes, NodeConstants, FieldTypes DEF Seqs
  <2>. QED
    BY <1>2, <2>1 DEF Devices
<1> HIDE DEF c
<1>4. DeviceInv(u, c)
  BY <1>2, <1>3, Zenon DEF DeviceInv, Agreed, Stores
<1>. QED
  BY <1>1, <1>4, Zenon

----------------------------------------------------------------------------
(* The network. *)

NetInv ==
    /\ HubInv
    /\ clients = [u \in Uuids |-> clients[u]] /\ inbox = [u \in Uuids |-> inbox[u]]
    /\ \A u \in Uuids : /\ DeviceInv(u, clients[u])
                        /\ inbox[u] # NoPacket => FromHub(inbox[u])
    /\ hub_inbox # NoPacket =>
          /\ FromDevice(hub_inbox)
          /\ hub_inbox.type = "Data" =>
                sender \in Uuids /\ Agreed(hub_inbox.net, hub_inbox.src, sender)

\* What a device may send it may send later too.
LEMMA MailLasts ==
    ASSUME Lasting, NEW u \in Uuids, NEW p \in DeviceMail(u)
    PROVE  p \in DeviceMail(u)'
<1>1. p \in Packets /\ FromDevice(p) /\ (p.type = "Data" => Agreed(p.net, p.src, u))
  BY Zenon DEF DeviceMail
<1>2. p.type = "Data" => Agreed(p.net, p.src, u)'
  BY <1>1, AgreedLasts, Zenon
<1>. QED
  BY <1>1, <1>2, Zenon DEF DeviceMail

\* What holds of a device goes on holding while it does nothing.
LEMMA DeviceLasts ==
    ASSUME Lasting, NEW u \in Uuids, NEW c, DeviceInv(u, c)
    PROVE  DeviceInv(u, c)'
<1>1. Agreed(c.net, c.addr, u)'
  BY AgreedLasts, Zenon DEF DeviceInv
<1>2. Stores(c.coord, DeviceMail(u)')
  BY MailLasts, Zenon DEF DeviceInv, Stores
<1>. QED
  BY <1>1, <1>2, Zenon DEF DeviceInv, NodeInv, Busy, Stores, Outstanding

\* What a step leaves in the devices, in their receivers and in the gateway's.
NetKept ==
    /\ clients' = [u \in Uuids |-> clients'[u]] /\ inbox' = [u \in Uuids |-> inbox'[u]]
    /\ \A u \in Uuids : DeviceInv(u, clients'[u])
    /\ \A u \in Uuids : \/ inbox'[u] \in {inbox[u], NoPacket}
                        \/ \E e : e = inbox'[u] /\ FromHub(e)'
    /\ \/ hub_inbox' = NoPacket
       \/ UNCHANGED <<hub_inbox, sender>>
       \/ \E u \in Uuids : /\ hub_inbox' \in DeviceMail(u)
                           /\ hub_inbox'.type = "Data" => sender' = u

\* Such a step keeps the invariant, whatever it does to the registry that lasts.
LEMMA KeptInv ==
    ASSUME NetInv, HubInv', Lasting, NetKept
    PROVE  NetInv'
<1>2. ASSUME NEW u \in Uuids PROVE DeviceInv(u, clients[u])'
  <2>1. PICK c : c = clients'[u]
    BY Zenon
  <2>2. DeviceInv(u, c)
    BY <2>1, Zenon DEF NetKept
  <2>3. DeviceInv(u, c)'
    BY <2>2, DeviceLasts, Zenon
  <2>. QED
    BY <2>1, <2>3, Zenon DEF DeviceInv, Agreed, NodeInv, Busy, Stores, Outstanding
<1>3. ASSUME NEW u \in Uuids, inbox'[u] # NoPacket PROVE FromHub(inbox[u])'
  <2>1. PICK e : e = inbox'[u]
    BY Zenon
  <2>2. FromHub(e)'
    <3>1. CASE e = inbox[u]
      BY <1>3, <2>1, <3>1, FromHubLasts, ZenonT(30) DEF NetInv
    <3>2. CASE \E f : f = inbox'[u] /\ FromHub(f)'
      BY <2>1, <3>2, Zenon
    <3>. QED
      BY <1>3, <2>1, <3>1, <3>2, Zenon DEF NetKept
  <2>. QED
    BY <2>1, <2>2, Zenon DEF FromHub, Granting, Agreed
<1>4. ASSUME hub_inbox' # NoPacket
      PROVE  /\ FromDevice(hub_inbox)'
             /\ hub_inbox'.type = "Data" =>
                   sender' \in Uuids /\ Agreed(hub_inbox.net, hub_inbox.src, sender)'
  <2>1. PICK p, u : p = hub_inbox' /\ u = sender'
    BY Zenon
  <2>2. FromDevice(p) /\ (p.type = "Data" => u \in Uuids /\ Agreed(p.net, p.src, u)')
    <3>1. CASE UNCHANGED <<hub_inbox, sender>>
      <4>1. FromDevice(p) /\ (p.type = "Data" => u \in Uuids /\ Agreed(p.net, p.src, u))
        BY <1>4, <2>1, <3>1, Zenon DEF NetInv
      <4>. QED
        BY <4>1, AgreedLasts, Zenon
    <3>2. CASE \E v \in Uuids : hub_inbox' \in DeviceMail(v) /\ (hub_inbox'.type = "Data" => sender' = v)
      <4>1. PICK v \in Uuids : p \in DeviceMail(v) /\ (p.type = "Data" => u = v)
        BY <2>1, <3>2, Zenon
      <4>2. FromDevice(p) /\ (p.type = "Data" => Agreed(p.net, p.src, v))
        BY <4>1, Zenon DEF DeviceMail
      <4>. QED
        BY <4>1, <4>2, AgreedLasts, Zenon
    <3>. QED
      BY <1>4, <3>1, <3>2, Zenon DEF NetKept
  <2>. QED
    BY <2>1, <2>2, Zenon DEF FromDevice, Agreed
<1>. QED
  BY <1>2, <1>3, <1>4, Zenon DEF NetInv, NetKept

\* What the gateway sends reaches receivers or is lost; the devices rest.
LEMMA GatewayKept ==
    ASSUME NetInv, HubStep, clients' = clients,
           hub_inbox' = NoPacket \/ UNCHANGED <<hub_inbox, sender>>,
           inbox' = inbox \/ ToClients(tx')
    PROVE  NetInv'
<1>1. ASSUME NEW u \in Uuids
      PROVE  inbox'[u] \in {inbox[u], NoPacket} \/ \E e : e = inbox'[u] /\ FromHub(e)'
  <2>1. CASE inbox' = inbox
    BY <2>1, Zenon
  <2>2. CASE ToClients(tx')
    <3>1. inbox'[u] = inbox[u] \/ inbox'[u] \in tx'
      BY <2>2, Zenon DEF ToClients, Receivable
    <3>. QED
      BY <3>1, Zenon DEF HubStep
  <2>. QED
    BY <2>1, <2>2, Zenon
<1>2. inbox' = [u \in Uuids |-> inbox'[u]]
  <2>1. CASE inbox' = inbox
    BY <2>1, Zenon DEF NetInv
  <2>2. CASE ToClients(tx')
    BY <2>2, Zenon DEF ToClients
  <2>. QED
    BY <2>1, <2>2, Zenon
<1>3. NetKept
  BY <1>1, <1>2, Zenon DEF NetKept, NetInv
<1>. QED
  BY <1>3, KeptInv, Zenon DEF HubStep

\* The coordinator rests.
LEMMA HubRests ==
    ASSUME HubInv, tx' = {},
           UNCHANGED <<nodes, net_id, permit_attach, dseq, slot, sends, copies, live, fresh>>
    PROVE  HubStep
<1>1. TypeOK'
  BY Zenon DEF HubInv, CoordInv, TypeOK
<1>2. CoordInv'
  BY <1>1, Zenon DEF HubInv, CoordInv, RegistryUnique, NodeInv, Busy
<1>3. HubKept /\ SameOwners
  BY Zenon DEF HubInv, HubKept, SameOwners
<1>. QED
  BY <1>2, <1>3, SameLasting, HubStepFrom, Zenon

\* A step of a device, of whose packets one may reach the gateway.
LEMMA ClientStepKept ==
    ASSUME NetInv, NEW u \in Uuids, NEW step, RunInv(u, step), ClientStep(u, step),
           inbox' = inbox \/ inbox' = [inbox EXCEPT ![u] = NoPacket]
    PROVE  NetInv'
<1>1. HubStep
  BY HubRests, Zenon DEF NetInv, ClientStep
<1>2. PICK refused \in SUBSET step.tx :
          /\ clients' = [clients EXCEPT ![u] = Client(u)!PhySend(step, refused)]
          /\ ToHub(u, step.tx \ refused)
  BY ZenonT(30) DEF ClientStep
<1> DEFINE d == Client(u)!PhySend(step, refused)
<1>3. DeviceInv(u, d)
  BY PhySendDevice, Zenon
<1> HIDE DEF d
<1>4. clients' = [clients EXCEPT ![u] = d]
  BY <1>2, Zenon DEF d
<1>5. /\ clients' = [v \in Uuids |-> clients'[v]]
      /\ \A v \in Uuids : clients'[v] = IF v = u THEN d ELSE clients[v]
  BY <1>4, Zenon DEF NetInv
<1>6. \A v \in Uuids : DeviceInv(v, clients'[v])
  BY <1>3, <1>5, Zenon DEF NetInv
<1>7. /\ inbox' = [v \in Uuids |-> inbox'[v]]
      /\ \A v \in Uuids : inbox'[v] \in {inbox[v], NoPacket}
  BY Zenon DEF NetInv
<1>8. \/ UNCHANGED <<hub_inbox, sender>>
      \/ hub_inbox' \in DeviceMail(u) /\ (hub_inbox'.type = "Data" => sender' = u)
  BY <1>2, Zenon DEF ToHub, RunInv
<1>9. NetKept
  BY <1>5, <1>6, <1>7, <1>8, Zenon DEF NetKept
<1>. QED
  BY <1>1, <1>9, KeptInv, Zenon DEF HubStep

\* The network starts with empty receivers and devices without association.
LEMMA NetInitInv ==
    ASSUME NetInit
    PROVE  NetInv
<1>1. HubInv
  BY InitHub, Zenon DEF NetInit
<1>2. \A u \in Uuids : clients[u] = FreshClient(u) /\ inbox[u] = NoPacket
  BY Zenon DEF NetInit
<1>3. clients = [u \in Uuids |-> clients[u]] /\ inbox = [u \in Uuids |-> inbox[u]]
  BY Zenon DEF NetInit
<1>4. \A u \in Uuids : DeviceInv(u, clients[u])
  BY <1>2, FreshDevice, Zenon
<1>5. hub_inbox = NoPacket
  BY Zenon DEF NetInit
<1>. QED
  BY <1>1, <1>2, <1>3, <1>4, <1>5, Zenon DEF NetInv

\* After a restart of the gateway nothing is left to agree on: what devices
\* hold is of other networks, or the identifier is not a fresh one.
LEMMA RestartInv ==
    ASSUME NetInv, GatewayRestart
    PROVE  NetInv'
<1>1. HubInv'
  BY RestartHub, Zenon
<1>2. clients' = clients /\ inbox' = inbox /\ hub_inbox' = NoPacket
  BY Zenon DEF GatewayRestart
<1>3. fresh' => ~InUse(net_id')
  BY Zenon DEF GatewayRestart
<1>4. ASSUME NEW u \in Uuids PROVE DeviceInv(u, clients[u])'
  <2>1. PICK c : c = clients[u]
    BY Zenon
  <2>2. DeviceInv(u, c)
    BY <2>1, Zenon DEF NetInv
  <2>3. Agreed(c.net, c.addr, u)'
    BY <1>3, <2>1, Zenon DEF Agreed, InUse
  <2>4. ASSUME Outstanding(c.coord) PROVE c.coord.pend \in DeviceMail(u)'
    <3>1. c.coord.pend \in DeviceMail(u)
      BY <2>2, <2>4, Zenon DEF DeviceInv, Stores
    <3>2. fresh' => c.coord.pend.net # net_id'
      BY <1>3, <2>1, <2>4, Zenon DEF Outstanding, InUse
    <3>3. Agreed(c.coord.pend.net, c.coord.pend.src, u)'
      BY <3>2, Zenon DEF Agreed
    <3>. QED
      BY <3>1, <3>3, Zenon DEF DeviceMail
  <2>5. DeviceInv(u, c)'
    BY <2>2, <2>3, <2>4, Zenon DEF DeviceInv, NodeInv, Busy, Stores, Outstanding
  <2>. QED
    BY <1>2, <2>1, <2>5, Zenon DEF DeviceInv, Agreed, NodeInv, Busy, Stores, Outstanding
<1>5. ASSUME NEW u \in Uuids, inbox[u] # NoPacket PROVE FromHub(inbox[u])'
  <2>1. PICK p : p = inbox[u]
    BY Zenon
  <2>2. FromHub(p)
    BY <1>5, <2>1, Zenon DEF NetInv
  <2>3. fresh' => p.net # net_id'
    BY <1>3, <1>5, <2>1, Zenon DEF InUse
  <2>4. FromHub(p)'
    BY <2>2, <2>3, Zenon DEF FromHub, Granting, Agreed
  <2>. QED
    BY <1>2, <2>1, <2>4, Zenon DEF FromHub, Granting, Agreed
<1>. QED
  BY <1>1, <1>2, <1>4, <1>5, Zenon DEF NetInv

\* Every step of the gateway keeps the invariant.
LEMMA GatewayInv ==
    ASSUME EnoughSlots, NetInv, GatewayStep \/ GatewayRestart
    PROVE  NetInv'
<1>1. HubInv
  BY Zenon DEF NetInv
<1>2. CASE GatewayStart
  <2>1. /\ PermitAttach(TRUE) /\ clients' = clients /\ inbox' = inbox /\ fresh' = fresh
        /\ UNCHANGED <<hub_inbox, sender>>
    BY <1>2, Zenon DEF GatewayStart, net
  <2>. QED
    BY <1>1, <2>1, PermitHub, GatewayKept, Zenon
<1>3. CASE GatewayTick
  <2>1. /\ TickHandler /\ ToClients(tx') /\ clients' = clients /\ fresh' = fresh
        /\ UNCHANGED <<hub_inbox, sender>>
    BY <1>3, Zenon DEF GatewayTick
  <2>. QED
    BY <1>1, <2>1, TickRecvHub, GatewayKept, Zenon
<1>4. CASE GatewayRecv
  <2>1. /\ ToClients(tx') /\ clients' = clients /\ fresh' = fresh /\ hub_inbox' = NoPacket
        /\ FromDevice(hub_inbox)
    BY <1>4, Zenon DEF GatewayRecv, NetInv
  <2>2. HubStep
    <3>1. CASE RecvCb(hub_inbox)
      BY <1>1, <2>1, <3>1, TickRecvHub, Zenon
    <3>2. CASE ~Accepts(hub_inbox) /\ tx' = {} /\ UNCHANGED <<nodes, net_id, permit_attach, dseq,
                                                            slot, sends, copies, live>>
      BY <1>1, <2>1, <3>2, HubRests, Zenon
    <3>. QED
      BY <1>4, <3>1, <3>2, Zenon DEF GatewayRecv
  <2>. QED
    BY <2>1, <2>2, GatewayKept, Zenon
<1>5. CASE \E s \in Slots : GatewayRelay(s)
  <2>1. PICK s \in Slots : GatewayRelay(s)
    BY <1>5, Zenon
  <2>2. ToClients(tx') /\ clients' = clients /\ UNCHANGED <<hub_inbox, sender>>
    BY <2>1, Zenon DEF GatewayRelay
  <2>. QED
    BY <1>1, <2>1, <2>2, RelayHub, GatewayKept, Zenon
<1>6. CASE GatewayRestart
  BY <1>6, RestartInv, Zenon
<1>. QED
  BY <1>2, <1>3, <1>4, <1>5, <1>6, Zenon DEF GatewayStep

\* So does every step of a device, and its loss of power.
LEMMA DeviceStepInv ==
    ASSUME NetInv, NEW u \in Uuids, DeviceStep(u) \/ DeviceRestart(u)
    PROVE  NetInv'
<1> DEFINE c == clients[u]
<1>1. DeviceInv(u, c)
  BY Zenon DEF NetInv
<1>2. ASSUME NEW radio \in {"on", "window", "off"}
      PROVE  RunInv(u, Client(u)!Start([c EXCEPT !.radio = radio]))
  BY <1>1, <1>2, RadioDevice, StartRun, Zenon
<1>3. CASE DeviceTick(u)
  <2>1. RunInv(u, Client(u)!ClientTick(c))
    BY <1>1, TickRun, Zenon
  <2>. QED
    BY <1>3, <2>1, ClientStepKept, Zenon DEF DeviceTick
<1>4. CASE \E ar \in AckRequests : DeviceSend(u, ar)
  <2>1. PICK ar \in AckRequests : DeviceSend(u, ar)
    BY <1>4, Zenon
  <2> DEFINE k == Client(u)!Tx(Client(u)!Start(c), "Data", ar, NoBody, 0, NoMsg)
  <2>2. ar \in BOOLEAN /\ "Data" \in Types /\ NoBody \in Bodies /\ NoMsg \in Msgs \cup {NoMsg}
    BY NetConstants, Zenon DEF Types, Bodies
  <2>3. RunInv(u, k)
    BY <1>1, <2>2, StartRun, TxRun, ZenonT(30)
  <2>4. ClientStep(u, k) /\ inbox' = inbox
    BY <2>1, Zenon DEF DeviceSend
  <2> HIDE DEF k
  <2>. QED
    BY <2>3, <2>4, ClientStepKept, Zenon
<1>5. CASE DeviceRecv(u)
  <2> DEFINE p == inbox[u]
             ignored == [c EXCEPT !.radio = IF @ = "window" THEN "on" ELSE @]
             k == IF Client(u)!ClientAccepts(c, p) THEN Client(u)!ClientRecv(c, p)
                  ELSE Client(u)!Start(ignored)
  <2>1. FromHub(p)
    BY <1>5, Zenon DEF DeviceRecv, NetInv
  <2>2. RunInv(u, Client(u)!ClientRecv(c, p))
    BY <1>1, <2>1, RecvRun, Zenon
  <2>3. RunInv(u, Client(u)!Start(ignored))
    <3> DEFINE radio == IF c.radio = "window" THEN "on" ELSE c.radio
    <3>1. radio \in {"on", "window", "off"}
      BY <1>1, Zenon DEF DeviceInv, Devices
    <3>2. ignored = [c EXCEPT !.radio = radio]
      BY Zenon
    <3> HIDE DEF radio, ignored
    <3>. QED
      BY <1>2, <3>1, <3>2, Zenon
  <2>4. ClientStep(u, k) /\ inbox' = [inbox EXCEPT ![u] = NoPacket]
    BY <1>5, Zenon DEF DeviceRecv
  <2>5. RunInv(u, k)
    BY <2>2, <2>3, Zenon
  <2> HIDE DEF k
  <2>. QED
    BY <2>4, <2>5, ClientStepKept, Zenon
<1>6. CASE Overhear(u)
  BY <1>2, <1>6, ClientStepKept, Zenon DEF Overhear
<1>7. CASE ListenPeriodEnds(u)
  BY <1>2, <1>7, ClientStepKept, Zenon DEF ListenPeriodEnds
<1>8. CASE DeviceRestart(u)
  <2>1. RunInv(u, Client(u)!Start(FreshClient(u)))
    BY FreshDevice, StartRun, Zenon
  <2>. QED
    BY <1>8, <2>1, ClientStepKept, Zenon DEF DeviceRestart
<1>. QED
  BY <1>3, <1>4, <1>5, <1>6, <1>7, <1>8, ZenonT(30) DEF DeviceStep

\* Stuttering keeps it.
LEMMA NetStutterInv ==
    ASSUME NetInv, UNCHANGED allvars
    PROVE  NetInv'
<1>1. UNCHANGED vars /\ nodes' = nodes /\ net_id' = net_id
      /\ clients' = clients /\ inbox' = inbox /\ hub_inbox' = hub_inbox /\ sender' = sender
      /\ fresh' = fresh
  BY Zenon DEF allvars, vars, net
<1>2. CoordInv' /\ Lasting
  BY <1>1, StutterInv, SameLasting, Zenon DEF NetInv, HubInv, SameOwners
<1>3. HubMail' = HubMail
  BY <1>1, Zenon DEF HubMail
<1>4. HubInv'
  BY <1>1, <1>2, <1>3, Zenon DEF NetInv, HubInv, Stores, Outstanding, Busy
<1>5. NetKept
  BY <1>1, Zenon DEF NetInv, NetKept
<1>. QED
  BY <1>2, <1>4, <1>5, KeptInv, Zenon

\* The invariant holds in every state.
LEMMA NetAlways ==
    ASSUME EnoughSlots
    PROVE  NetSpec => []NetInv
<1>1. NetInit => NetInv
  BY NetInitInv, Zenon
<1>2. NetInv /\ [NetNext]_allvars => NetInv'
  <2> SUFFICES ASSUME NetInv, NetNext \/ UNCHANGED allvars PROVE NetInv'
    BY Zenon
  <2>1. CASE GatewayStep \/ GatewayRestart
    BY <2>1, GatewayInv, Zenon
  <2>2. CASE \E u \in Uuids : DeviceStep(u) \/ DeviceRestart(u)
    BY <2>2, DeviceStepInv, Zenon
  <2>3. CASE UNCHANGED allvars
    BY <2>3, NetStutterInv, Zenon
  <2>. QED
    BY <2>1, <2>2, <2>3, Zenon DEF NetNext, PoweredNext
<1>. QED
  BY <1>1, <1>2, PTL DEF NetSpec

\* Both ends of an association agree in every state of every network that has a
\* slot for each device, of any number of devices, whatever is lost, delayed or
\* repeated, and whoever loses power: the address a device took from
\* tinymac_rx_registration_response is that of its own node at the coordinator.
\* The exception that AddressesAgree states, an identifier drawn by tinymac_init
\* that a device still has, is part of the statement.
THEOREM NetAddressesAgree ==
    ASSUME EnoughSlots
    PROVE  NetSpec => []AddressesAgree
<1>1. NetInv => AddressesAgree
  BY Zenon DEF NetInv, DeviceInv, Agreed, AddressesAgree, Joined
<1>. QED
  BY <1>1, NetAlways, PTL

\* Data tinymac_recv_cb looks up by its source address is attributed to the
\* device that sent it, in every such network and with the same exception, also
\* when the packet was built or stored for repetition long before.
THEOREM NetDataAttributed ==
    ASSUME EnoughSlots
    PROVE  NetSpec => []DataAttributed
<1>1. NetInv => DataAttributed
  BY AddrTypes, Zenon DEF NetInv, Agreed, DataAttributed
<1>. QED
  BY <1>1, NetAlways, PTL
=============================================================================
