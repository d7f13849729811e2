------------------------- MODULE TinyMacCoordProofs -------------------------
(***************************************************************************)
(* Proofs about the coordinator, for any number of slots, devices,         *)
(* messages and retries and for any timing constants.                      *)
(***************************************************************************)
EXTENDS TinyMacCoord, TinyMacNodeProofs

\* tinymac_rx_registration_request overwrites the slot's identity only.
LEMMA RegisterStep ==
    ASSUME NEW r, StepInv(r), NEW body \in RegistrationRequests
    PROVE  /\ StepInv(Register(r, body))
           /\ Register(r, body).n.uuid = body.uuid
           /\ Register(r, body).n.state = "Registered"
           /\ Register(r, body).gone = r.gone
           /\ Quiet(r.n) => TimersMatch(Register(r, body).n)
<1> DEFINE n == r.n
           a == [n EXCEPT !.state = "Registered", !.uuid = body.uuid, !.sleepy = body.sleepy,
                          !.heartbeat = body.heartbeat, !.age = 0]
           q == Register(r, body)
<1>1. r \in Steps /\ n \in Nodes
  BY Zenon DEF StepInv, NodeInv
<1>2. a \in Nodes
  <2>1. body.uuid \in Uuids /\ body.sleepy \in BOOLEAN /\ body.heartbeat \in Heartbeats
    BY Zenon DEF RegistrationRequests
  <2>. QED
    BY <1>1, <2>1, FieldTypes, Zenon DEF Nodes
<1>3. /\ a.uuid = body.uuid /\ a.state = "Registered" /\ a.ack = n.ack /\ a.val = n.val
      /\ a.pend = n.pend
  BY <1>1, Zenon DEF Nodes
<1>4. NodeInv(a) /\ (Quiet(n) => TimersMatch(a))
  BY <1>2, <1>3, Zenon DEF StepInv, NodeInv, Quiet, TimersMatch, Busy
<1>5. q = Then(r, a, {}, {})
  BY Zenon DEF Register
<1>6. StepInv(q) /\ q.n = a /\ q.gone = r.gone
  BY <1>1, <1>4, <1>5, ThenStep
<1>. QED
  BY <1>3, <1>4, <1>6, Zenon

----------------------------------------------------------------------------
(* Slots and inputs. *)

\* What the table searches return: a slot that qualifies, or none.
LEMMA FirstOf ==
    ASSUME NEW S \in SUBSET Slots
    PROVE  IF S = {} THEN First(S) = 0 ELSE First(S) \in S /\ First(S) # 0
<1>1. 0 \notin S /\ \A s, t \in S : s <= t /\ t <= s => s = t
  BY NodeConstants DEF Slots
<1>2. ASSUME S # {} PROVE First(S) \in S
  <2>1. \E s \in S : \A t \in S : Before(t, S) => s = t
    BY <1>1, <1>2, Zenon DEF Before
  <2>. QED
    BY <1>2, <2>1, Zenon DEF First
<1>. QED
  BY <1>1, <1>2, Zenon DEF First

\* The slot a registration request is given: the one the device has, or one
\* that is unused or free when it has none.
LEMMA SlotForDevice ==
    ASSUME NEW u
    PROVE  LET s == SlotFor(u) IN
           \/ s = 0 /\ \A t \in Slots : nodes[t].uuid # u
           \/ s \in Slots /\ s # 0 /\ nodes[s].uuid = u
           \/ s \in Slots /\ s # 0 /\ \A t \in Slots : nodes[t].uuid # u
<1> DEFINE H == {t \in Slots : nodes[t].uuid = u}
           U == {t \in Slots : nodes[t].uuid = NoUuid}
           F == {t \in Slots : nodes[t].state = "Unregistered"}
<1>1. H \in SUBSET Slots /\ U \in SUBSET Slots /\ F \in SUBSET Slots
  BY Zenon
<1>2. /\ IF H = {} THEN First(H) = 0 ELSE First(H) \in H /\ First(H) # 0
      /\ IF U = {} THEN First(U) = 0 ELSE First(U) \in U /\ First(U) # 0
      /\ IF F = {} THEN First(F) = 0 ELSE First(F) \in F /\ First(F) # 0
  BY <1>1, FirstOf, Zenon
<1>3. SlotFor(u) = IF First(H) # 0 THEN First(H) ELSE IF First(U) # 0 THEN First(U) ELSE First(F)
  BY Zenon DEF SlotFor
<1>. QED
  BY <1>2, <1>3, Zenon

\* The next sequence number is one.
LEMMA SeqTypes ==
    ASSUME dseq \in Seqs
    PROVE  0 \in Seqs /\ NextSeq \in Seqs
  BY NodeConstants DEF Seqs, NextSeq

\* What clients send is well formed.
LEMMA ClientPacketTypes ==
    ASSUME net_id \in NetIds, dseq \in Seqs, NEW p \in ClientPackets
    PROVE  /\ p \in Packets
           /\ p.type = "RegistrationRequest" => p.body \in RegistrationRequests
           /\ p.type = "DeregistrationRequest" => p.body \in DeregistrationRequests
<1>1. NETWORK_ANY \in NetIds /\ 0 \in Seqs
  BY NodeConstants, SeqTypes, Zenon
<1>2. /\ NoBody \in Bodies
      /\ RegistrationRequests \subseteq Bodies
      /\ DeregistrationRequests \subseteq Bodies
  BY Zenon DEF Bodies
<1>3. ASSUME NEW type \in Types, NEW s \in Addrs, NEW q \in Seqs, NEW ar \in BOOLEAN, NEW b \in Bodies,
             p = FromClient(type, s, q, ar, b)
      PROVE  p \in Packets /\ p.type = type /\ p.body = b
  <2>1. p \in Packets
    BY <1>3, PacketType, AddrTypes, Zenon DEF FromClient
  <2>. QED
    BY <1>3, <2>1, Zenon DEF FromClient, Packet
<1>4. CASE p \in {FromClient("Poll", s, 0, FALSE, NoBody) : s \in Slots}
  BY <1>1, <1>2, <1>3, <1>4, AddrTypes, Zenon DEF Types
<1>5. CASE p \in {FromClient("Ack", c[1], c[2], FALSE, NoBody) : c \in Slots \X Seqs}
  BY <1>1, <1>2, <1>3, <1>5, AddrTypes, Zenon DEF Types
<1>6. CASE p \in {FromClient("Data", c[1], 0, c[2], NoBody) : c \in (Slots \cup {Unassigned}) \X BOOLEAN}
  BY <1>1, <1>2, <1>3, <1>6, AddrTypes DEF Types
<1>7. CASE p = Packet("BeaconRequest", NETWORK_ANY, Broadcast, Unassigned, 0, FALSE, NoBody)
  <2>1. p \in Packets
    BY <1>1, <1>2, <1>7, PacketType, AddrTypes, Zenon DEF Types
  <2>. QED
    BY <1>7, <2>1, Zenon DEF Packet
<1>8. CASE p \in {FromClient("RegistrationRequest", Unassigned, 0, FALSE, b) : b \in RegistrationRequests}
  BY <1>1, <1>2, <1>3, <1>8, AddrTypes, Zenon DEF Types
<1>9. CASE p \in {FromClient("DeregistrationRequest", c[1], 0, FALSE, c[2])
                     : c \in Slots \X DeregistrationRequests}
  <2>1. PICK c \in Slots \X DeregistrationRequests :
            p = FromClient("DeregistrationRequest", c[1], 0, FALSE, c[2])
    BY <1>9, Zenon
  <2>2. c[1] \in Addrs /\ c[2] \in DeregistrationRequests /\ c[2] \in Bodies
    BY <1>2, AddrTypes, Zenon
  <2>3. "DeregistrationRequest" \in Types
    BY Zenon DEF Types
  <2>4. p \in Packets /\ p.type = "DeregistrationRequest" /\ p.body = c[2]
    BY <1>1, <1>3, <2>1, <2>2, <2>3, Zenon
  <2>. QED
    BY <2>2, <2>4, Zenon
<1>. QED
  BY <1>4, <1>5, <1>6, <1>7, <1>8, <1>9, Zenon DEF ClientPackets

\* A device asks to be registered before it has an address, and no request to
\* be deregistered asks for an acknowledgement.
LEMMA ClientRequests ==
    ASSUME NEW p \in ClientPackets
    PROVE  /\ p.type = "RegistrationRequest" => p.src = Unassigned
           /\ p.type = "DeregistrationRequest" => p.ar = FALSE
<1>1. ASSUME NEW type, NEW src, NEW seq, NEW ar, NEW b, p = FromClient(type, src, seq, ar, b)
      PROVE  p.type = type /\ p.src = src /\ p.ar = ar
  BY <1>1, Zenon DEF FromClient, Packet
<1>2. CASE p \in {FromClient("Poll", s, 0, FALSE, NoBody) : s \in Slots}
  BY <1>1, <1>2, Zenon
<1>3. CASE p \in {FromClient("Ack", c[1], c[2], FALSE, NoBody) : c \in Slots \X Seqs}
  <2>1. PICK c \in Slots \X Seqs : p = FromClient("Ack", c[1], c[2], FALSE, NoBody)
    BY <1>3, Zenon
  <2>2. p.type = "Ack"
    BY <1>1, <2>1, Zenon
  <2>. QED
    BY <2>2, Zenon
<1>4. CASE p \in {FromClient("Data", c[1], 0, c[2], NoBody) : c \in (Slots \cup {Unassigned}) \X BOOLEAN}
  <2>1. PICK c \in (Slots \cup {Unassigned}) \X BOOLEAN : p = FromClient("Data", c[1], 0, c[2], NoBody)
    BY <1>4, Zenon
  <2>2. p.type = "Data"
    BY <1>1, <2>1, Zenon
  <2>. QED
    BY <2>2, Zenon
<1>5. CASE p = Packet("BeaconRequest", NETWORK_ANY, Broadcast, Unassigned, 0, FALSE, NoBody)
  BY <1>5, Zenon DEF Packet
<1>6. CASE p \in {FromClient("RegistrationRequest", Unassigned, 0, FALSE, b) : b \in RegistrationRequests}
  BY <1>1, <1>6, Zenon
<1>7. CASE p \in {FromClient("DeregistrationRequest", c[1], 0, FALSE, c[2])
                     : c \in Slots \X DeregistrationRequests}
  <2>1. PICK c \in Slots \X DeregistrationRequests :
            p = FromClient("DeregistrationRequest", c[1], 0, FALSE, c[2])
    BY <1>7, Zenon
  <2>2. p.type = "DeregistrationRequest" /\ p.ar = FALSE
    BY <1>1, <2>1, Zenon
  <2>. QED
    BY <2>2, Zenon
<1>. QED
  BY <1>2, <1>3, <1>4, <1>5, <1>6, <1>7, Zenon DEF ClientPackets

\* What the coordinator relies on in a packet, whoever sent it.
FromDevice(p) ==
    /\ p \in Packets
    /\ p.type = "RegistrationRequest" => p.body \in RegistrationRequests /\ p.src = Unassigned
    /\ p.type = "DeregistrationRequest" => p.body \in DeregistrationRequests /\ p.ar = FALSE

\* What clients send is of that kind.
LEMMA ClientsAreDevices ==
    ASSUME net_id \in NetIds, dseq \in Seqs, NEW p \in ClientPackets
    PROVE  FromDevice(p)
  BY ClientPacketTypes, ClientRequests, Zenon DEF FromDevice

----------------------------------------------------------------------------
(* Steps of the whole coordinator. *)

CoordInv ==
    /\ TypeOK
    /\ \A s \in Slots : NodeInv(nodes[s])
    /\ RegistryUnique

OrderlyInv == TimersMatchState /\ AppKnowsRegistry

Good(R) == R \in [Slots -> Steps] /\ \A s \in Slots : StepInv(R[s])

\* Steps that leave registrations to the timeouts.
Sound(R) == R \in [Slots -> Steps] /\ \A s \in Slots : Keeps(Begin(nodes[s]), R[s])

\* The application's view of a send stays a status.
LEMMA OutcomeType ==
    ASSUME NEW st \in SendStatus, NEW calls
    PROVE  Outcome(st, calls) \in SendStatus
  BY Zenon DEF Outcome, SendStatus

\* Copies are counted up to one more than the code can send.
LEMMA CopiesType ==
    ASSUME NEW k \in 0 .. MaxCopies, NEW m, NEW P
    PROVE  Copies(k, m, P) \in 0 .. MaxCopies
  BY NodeConstants DEF Copies, MaxCopies

\* A step made of well-typed parts leaves a well-typed state.
LEMMA PerformType ==
    ASSUME NEW R, Good(R), NEW extra \in SUBSET Packets,
           NEW status \in [Msgs -> SendStatus], NEW counts \in [Msgs -> 0 .. MaxCopies],
           Perform(R, extra, status, counts)
    PROVE  /\ nodes' \in [Slots -> Nodes]
           /\ \A s \in Slots : nodes'[s] = R[s].n /\ NodeInv(nodes'[s])
           /\ tx' \in SUBSET Packets
           /\ sends' \in [Msgs -> SendStatus]
           /\ copies' \in [Msgs -> 0 .. MaxCopies]
<1>1. \A s \in Slots : R[s].n \in Nodes /\ NodeInv(R[s].n) /\ R[s].tx \in SUBSET Packets
  BY Zenon DEF Good, StepInv, NodeInv, Steps
<1>2. nodes' \in [Slots -> Nodes] /\ \A s \in Slots : nodes'[s] = R[s].n
  BY <1>1, Zenon DEF Perform
<1>3. tx' \in SUBSET Packets
  BY <1>1, Zenon DEF Perform
<1>4. sends' \in [Msgs -> SendStatus]
  BY OutcomeType, Zenon DEF Perform
<1>5. copies' \in [Msgs -> 0 .. MaxCopies]
  BY CopiesType, Zenon DEF Perform
<1>. QED
  BY <1>1, <1>2, <1>3, <1>4, <1>5, Zenon

\* Sound steps leave well-formed nodes.
LEMMA SoundGood ==
    ASSUME NEW R, Sound(R), \A s \in Slots : NodeInv(nodes[s])
    PROVE  Good(R) /\ \A s \in Slots : R[s].n.uuid = nodes[s].uuid
  BY BeginInv, Zenon DEF Sound, Good, Keeps

\* Steps that leave every uuid alone keep devices unique.
LEMMA UniqueKept ==
    ASSUME RegistryUnique, \A s \in Slots : nodes'[s].uuid = nodes[s].uuid
    PROVE  RegistryUnique'
  BY Zenon DEF RegistryUnique

\* Sound steps keep timers matched and the application informed.
LEMMA SoundOrderly ==
    ASSUME NEW R, Sound(R), \A s \in Slots : NodeInv(nodes[s]),
           OrderlyInv, \A s \in Slots : nodes'[s] = R[s].n,
           live' = live \ Gone(R), live \in SUBSET Slots
    PROVE  OrderlyInv'
<1>1. ASSUME NEW s \in Slots
      PROVE  /\ TimersMatch(R[s].n)
             /\ (R[s].n.state = "Unregistered") <=> (nodes[s].state = "Unregistered" \/ R[s].gone)
  <2>1. Begin(nodes[s]).n = nodes[s] /\ Begin(nodes[s]).gone = FALSE /\ TimersMatch(nodes[s])
    BY BeginInv, Zenon DEF OrderlyInv, TimersMatchState
  <2>2. Keeps(Begin(nodes[s]), R[s]) /\ Accounted(Begin(nodes[s]), nodes[s])
    BY <2>1, Zenon DEF Sound, Accounted
  <2>3. TimersMatch(R[s].n) /\ Accounted(R[s], nodes[s])
    BY <2>1, <2>2, Zenon DEF Keeps
  <2>. QED
    BY <2>3, Zenon DEF Accounted
<1>2. TimersMatchState'
  <2> SUFFICES ASSUME NEW s \in Slots PROVE TimersMatch(nodes'[s])
    BY Zenon DEF TimersMatchState, TimersMatch, Busy
  <2>. QED
    BY <1>1, Zenon
<1>3. AppKnowsRegistry'
  BY <1>1, Zenon DEF AppKnowsRegistry, OrderlyInv, Gone
<1>. QED
  BY <1>2, <1>3, Zenon DEF OrderlyInv

\* The steps a coordinator begins a call with: nothing done, or the sender
\* of the packet marked as heard and given what was pending for it.
LEMMA IdleSound ==
    ASSUME CoordInv
    PROVE  Sound(Idle) /\ \A s \in Slots : Idle[s] = Begin(nodes[s]) /\ Idle[s].gone = FALSE
<1>1. ASSUME NEW s \in Slots
      PROVE  /\ Idle[s] = Begin(nodes[s]) /\ Idle[s].gone = FALSE /\ Idle[s] \in Steps
             /\ Keeps(Begin(nodes[s]), Idle[s])
  BY BeginInv, KeepsRefl, Zenon DEF CoordInv, Idle, StepInv
<1>2. Idle \in [Slots -> Steps]
  BY <1>1, Zenon DEF Idle
<1>. QED
  BY <1>1, <1>2, Zenon DEF Sound

\* Replacing one slot's step by one that keeps more.
LEMMA SoundUpdate ==
    ASSUME NEW R, Sound(R), NEW s \in Slots, NEW q, Keeps(R[s], q)
    PROVE  Sound([R EXCEPT ![s] = q])
<1>1. q \in Steps /\ Keeps(Begin(nodes[s]), q)
  BY KeepsTrans, Zenon DEF Sound, Keeps, StepInv
<1>. QED
  BY <1>1, Zenon DEF Sound

\* The steps a received packet's handler may begin with.
Opening(R, p) ==
    /\ Sound(R)
    /\ \A s \in Slots : R[s].gone = FALSE
    /\ \/ R = Idle
       \/ p.src \in Slots /\ R = [Idle EXCEPT ![p.src] = Heard(nodes[p.src], p, net_id, COORD_ADDR)]

\* Both ways to begin a received packet are sound.
LEMMA DeviceOpening ==
    ASSUME CoordInv, NEW p, FromDevice(p)
    PROVE  /\ Opening(Idle, p)
           /\ p.src \in Slots =>
                Opening([Idle EXCEPT ![p.src] = Heard(nodes[p.src], p, net_id, COORD_ADDR)], p)
<1>1. Opening(Idle, p)
  BY IdleSound, Zenon DEF Opening
<1>2. ASSUME p.src \in Slots
      PROVE  Opening([Idle EXCEPT ![p.src] = Heard(nodes[p.src], p, net_id, COORD_ADDR)], p)
  <2> DEFINE s == p.src
             h == Heard(nodes[s], p, net_id, COORD_ADDR)
             R == [Idle EXCEPT ![s] = h]
  <2>1. p \in Packets /\ net_id \in NetIds /\ COORD_ADDR \in Addrs /\ NodeInv(nodes[s])
    BY <1>2, AddrTypes, Zenon DEF CoordInv, TypeOK, FromDevice
  <2>2. Keeps(Begin(nodes[s]), h) /\ h.gone = FALSE
    BY <2>1, HeardKeeps, Zenon
  <2>3. Sound(Idle) /\ Idle[s] = Begin(nodes[s]) /\ \A t \in Slots : Idle[t].gone = FALSE
    BY <1>2, IdleSound, Zenon
  <2> HIDE DEF h
  <2>4. Sound(R)
    BY <1>2, <2>2, <2>3, SoundUpdate, Zenon
  <2>5. \A t \in Slots : R[t].gone = FALSE
    BY <1>2, <2>2, <2>3, Zenon DEF Sound
  <2>. QED
    BY <1>2, <2>4, <2>5, Zenon DEF Opening, h
<1>. QED
  BY <1>1, <1>2, Zenon

\* The same for what clients send.
LEMMA RecvOpening ==
    ASSUME CoordInv, NEW p \in ClientPackets
    PROVE  /\ Opening(Idle, p)
           /\ p.src \in Slots =>
                Opening([Idle EXCEPT ![p.src] = Heard(nodes[p.src], p, net_id, COORD_ADDR)], p)
<1>1. FromDevice(p)
  BY ClientsAreDevices, Zenon DEF CoordInv, TypeOK
<1>. QED
  BY <1>1, DeviceOpening, Zenon

\* No slot changes hands, ...
SameOwners == \A s \in Slots : nodes'[s].uuid = nodes[s].uuid

\* ... or none but the one a device registers with.
Owners(p) ==
    \A s \in Slots :
        \/ nodes'[s].uuid = nodes[s].uuid
        \/ /\ p.type = "RegistrationRequest" /\ s = SlotFor(p.body.uuid)
           /\ nodes'[s].uuid = p.body.uuid

\* A step made of sound parts keeps the invariants.
LEMMA ApplySound ==
    ASSUME CoordInv, NEW R, Sound(R), NEW extra \in SUBSET Packets,
           NEW status \in [Msgs -> SendStatus], NEW counts \in [Msgs -> 0 .. MaxCopies],
           Perform(R, extra, status, counts),
           net_id' \in NetIds, permit_attach' \in BOOLEAN, dseq' \in Seqs,
           slot' \in 0 .. BEACON_PERIOD - 1, live' = live \ Gone(R)
    PROVE  CoordInv' /\ (OrderlyInv => OrderlyInv') /\ SameOwners
<1>1. Good(R) /\ \A s \in Slots : R[s].n.uuid = nodes[s].uuid
  BY SoundGood, Zenon DEF CoordInv
<1>2. /\ nodes' \in [Slots -> Nodes]
      /\ \A s \in Slots : nodes'[s] = R[s].n /\ NodeInv(nodes'[s])
      /\ tx' \in SUBSET Packets
      /\ sends' \in [Msgs -> SendStatus]
      /\ copies' \in [Msgs -> 0 .. MaxCopies]
  BY <1>1, PerformType, Zenon
<1>3. TypeOK'
  BY <1>2, Zenon DEF TypeOK, CoordInv
<1>4. RegistryUnique'
  BY <1>1, <1>2, UniqueKept, Zenon DEF CoordInv
<1>5. OrderlyInv => OrderlyInv'
  BY <1>2, SoundOrderly, Zenon DEF CoordInv, TypeOK
<1>6. \A s \in Slots : NodeInv(nodes'[s])
  BY <1>2, Zenon
<1>7. SameOwners
  BY <1>1, <1>2, Zenon DEF SameOwners
<1>. QED
  BY <1>3, <1>4, <1>5, <1>6, <1>7, Zenon DEF CoordInv, NodeInv, Busy

----------------------------------------------------------------------------
(* One lemma per action. *)

\* What the coordinator itself puts on the air is well formed.
LEMMA CoordPackets ==
    ASSUME CoordInv
    PROVE  /\ \A sync \in BOOLEAN : Beacon(sync) \in Packets
           /\ \A dest \in Addrs, u \in Uuids \cup {NoUuid}, addr \in Addrs, st \in Status :
                Response(dest, u, addr, st) \in Packets /\ Response(dest, u, addr, st).ar = FALSE
           /\ NextSeq \in Seqs
<1>1. net_id \in NetIds /\ NextSeq \in Seqs /\ 0 \in Seqs
  BY SeqTypes, Zenon DEF CoordInv, TypeOK
<1>2. ASSUME NEW sync \in BOOLEAN PROVE Beacon(sync) \in Packets
  <2> DEFINE pending == IF sync THEN {s \in Slots : nodes[s].state = "SendPending"} ELSE {}
             body == [sync |-> sync, permit |-> permit_attach, pending |-> pending]
  <2>1. pending \in SUBSET Addrs
    BY AddrTypes, Zenon
  <2> HIDE DEF pending
  <2>2. body \in Bodies
    BY <2>1, Zenon DEF Bodies, Beacons, CoordInv, TypeOK
  <2> HIDE DEF body
  <2>3. Packet("Beacon", net_id, Broadcast, COORD_ADDR, 0, FALSE, body) \in Packets
    BY <1>1, <2>2, AddrTypes, PacketType, Zenon DEF Types
  <2>. QED
    BY <2>3, Zenon DEF Beacon, body, pending
<1>3. ASSUME NEW dest \in Addrs, NEW u \in Uuids \cup {NoUuid}, NEW addr \in Addrs, NEW st \in Status
      PROVE  Response(dest, u, addr, st) \in Packets /\ Response(dest, u, addr, st).ar = FALSE
  <2> DEFINE body == [uuid |-> u, addr |-> addr, status |-> st]
             r == Packet("RegistrationResponse", net_id, dest, COORD_ADDR, NextSeq, FALSE, body)
  <2>1. body \in Bodies
    BY Zenon DEF Bodies, RegistrationResponses
  <2> HIDE DEF body
  <2>2. r \in Packets
    BY <1>1, <2>1, AddrTypes, PacketType, Zenon DEF Types
  <2>3. r.ar = FALSE
    BY Zenon DEF Packet
  <2>. QED
    BY <2>2, <2>3, Zenon DEF Response, body
<1>. QED
  BY <1>1, <1>2, <1>3, Zenon

\* tinymac_send keeps the invariants, whether or not the radio takes the packet.
LEMMA SendInv ==
    ASSUME CoordInv, NEW phy \in BOOLEAN, AppSend(phy)
    PROVE  CoordInv' /\ (OrderlyInv => OrderlyInv')
<1>1. PICK s \in Slots, ar \in BOOLEAN, m \in Msgs, v \in Validities : Send(s, ar, m, v, phy)
  BY Zenon DEF AppSend
<1> DEFINE n == nodes[s]
           p == Packet("Data", net_id, s, COORD_ADDR, NextSeq, ar, m)
           w == IF v = 0 THEN n.heartbeat ELSE v
           r == TxPacket(n, p, w, m)
           q == [n |-> r.n, tx |-> IF phy THEN r.tx ELSE {}, cb |-> {}, gone |-> FALSE]
           told == IF ~TxPacketAccepts(n) \/ (r.tx # {} /\ ~phy) THEN sends[m]
                   ELSE IF ar \/ n.sleepy THEN "pending" ELSE "unconfirmed"
           R == [Idle EXCEPT ![s] = q]
           status == [sends EXCEPT ![m] = told]
           counts == [copies EXCEPT ![m] = IF TxPacketAccepts(n) THEN 0 ELSE @]
<1>2. NodeInv(n) /\ n \in Nodes /\ net_id \in NetIds
  BY Zenon DEF CoordInv, NodeInv, TypeOK
<1>3. p \in Packets
  BY <1>2, AddrTypes, CoordPackets, PacketType, Zenon DEF Types, Bodies
<1>4. w \in Nat
  BY <1>2, NodeConstants, CoordConstants, Zenon DEF Nodes
<1>5. Perform(R, {}, status, counts) /\ dseq' = NextSeq
      /\ net_id' = net_id /\ permit_attach' = permit_attach /\ slot' = slot /\ live' = live
  BY <1>1, Zenon DEF Send
<1>6. status \in [Msgs -> SendStatus]
  <2>1. told \in SendStatus
    BY Zenon DEF CoordInv, TypeOK, SendStatus
  <2> HIDE DEF told
  <2>. QED
    BY <2>1, Zenon DEF CoordInv, TypeOK
<1>7. counts \in [Msgs -> 0 .. MaxCopies]
  BY NodeConstants DEF CoordInv, TypeOK, MaxCopies
<1> HIDE DEF p, w, status, counts
<1>8. Keeps(Begin(n), r) /\ r.gone = FALSE
  BY <1>2, <1>3, <1>4, TxPacketKeeps, Zenon
<1> HIDE DEF r
<1>9. Keeps(Begin(n), q) /\ q.gone = FALSE
  <2>1. r \in Steps /\ NodeInv(r.n)
    BY <1>8, Zenon DEF Keeps, StepInv
  <2>2. q \in Steps /\ q.n = r.n
    BY <2>1, Zenon DEF Steps
  <2>. QED
    BY <1>8, <2>1, <2>2, Zenon DEF Keeps, StepInv, Accounted
<1> HIDE DEF q
<1>10. Sound(R)
  BY <1>9, IdleSound, SoundUpdate, Zenon
<1>11. \A t \in Slots : R[t].gone = FALSE
  BY <1>9, IdleSound, Zenon DEF Sound
<1>12. live' = live \ Gone(R)
  BY <1>5, <1>11, Zenon DEF Gone
<1> HIDE DEF R
<1>. QED
  BY <1>5, <1>6, <1>7, <1>10, <1>12, CoordPackets, ApplySound, Zenon DEF CoordInv, TypeOK

\* tinymac_tick_handler keeps the invariants.
LEMMA TickInv ==
    ASSUME CoordInv, TickHandler
    PROVE  CoordInv' /\ (OrderlyInv => OrderlyInv') /\ SameOwners
<1> DEFINE R == [s \in Slots |-> NodeTick(nodes[s])]
           extra == IF (slot + 1) % BEACON_PERIOD = BEACON_OFFSET THEN {Beacon(TRUE)} ELSE {}
<1>1. Sound(R)
  BY NodeTickKeeps, Zenon DEF CoordInv, Sound, Keeps, StepInv
<1>2. extra \in SUBSET Packets
  BY CoordPackets, Zenon
<1>3. /\ Perform(R, extra, sends, copies) /\ live' = live \ Gone(R)
      /\ net_id' = net_id /\ permit_attach' = permit_attach /\ dseq' = dseq
      /\ slot' = (slot + 1) % BEACON_PERIOD
  BY Zenon DEF TickHandler, Apply
<1>4. slot' \in 0 .. BEACON_PERIOD - 1
  BY <1>3, CoordConstants DEF CoordInv, TypeOK
<1> HIDE DEF R, extra
<1>. QED
  BY <1>1, <1>2, <1>3, <1>4, ApplySound, Zenon DEF CoordInv, TypeOK

\* A registration request goes to the slot the device has, else to one that
\* no device has or that has lapsed, so uuids stay unique; in an orderly
\* environment that slot has nothing outstanding.
LEMMA RegistrationInv ==
    ASSUME CoordInv, NEW p, FromDevice(p), NEW R, Opening(R, p), RxRegistrationRequest(R, p),
           UNCHANGED <<net_id, permit_attach, slot>>
    PROVE  CoordInv' /\ (OrderlyInv /\ Orderly(p) => OrderlyInv') /\ Owners(p)
<1> DEFINE s == SlotFor(p.body.uuid)
           resp == {Response(Broadcast, p.body.uuid, s, "Success")}
           full == {Response(Broadcast, p.body.uuid, Unassigned, "NetworkFull")}
           q == Register(R[s], p.body)
           Q == [R EXCEPT ![s] = q]
<1>1. /\ p.type = "RegistrationRequest" /\ p.body \in RegistrationRequests
      /\ p.body.uuid \in Uuids /\ p.body.uuid # NoUuid
  <2>1. p.type = "RegistrationRequest"
    BY Zenon DEF RxRegistrationRequest
  <2>3. p.body \in RegistrationRequests
    BY <2>1, Zenon DEF FromDevice
  <2>. QED
    BY <2>1, <2>3, NodeConstants, Zenon DEF RegistrationRequests
<1>2. R = Idle
  BY <1>1, AddrTypes, Zenon DEF Opening, FromDevice
<1>3. Sound(R) /\ \A t \in Slots : R[t].gone = FALSE
  BY Zenon DEF Opening
<1>4. CASE s = 0
  <2>1. Perform(R, full, sends, copies) /\ live' = live /\ dseq' = NextSeq
    BY <1>4, Zenon DEF RxRegistrationRequest, Apply
  <2>2. full \in SUBSET Packets
    <3>1. "NetworkFull" \in Status /\ p.body.uuid \in Uuids \cup {NoUuid}
      BY <1>1, Zenon DEF Status
    <3>2. Response(Broadcast, p.body.uuid, Unassigned, "NetworkFull") \in Packets
      BY <3>1, CoordPackets, AddrTypes, Zenon
    <3>. QED
      BY <3>2, Zenon
  <2>3. live' = live \ Gone(R)
    BY <1>3, <2>1, Zenon DEF Gone
  <2> HIDE DEF full
  <2>4. CoordInv' /\ (OrderlyInv => OrderlyInv') /\ SameOwners
    BY <1>3, <2>1, <2>2, <2>3, CoordPackets, ApplySound, Zenon DEF CoordInv, TypeOK
  <2>. QED
    BY <2>4, Zenon DEF SameOwners, Owners
<1>5. CASE s # 0
  <2>1. s \in Slots /\ (nodes[s].uuid = p.body.uuid \/ \A t \in Slots : nodes[t].uuid # p.body.uuid)
    BY <1>5, SlotForDevice, Zenon
  <2>2. Perform(Q, resp, sends, copies) /\ live' = live \cup {s} /\ dseq' = NextSeq
    BY <1>5, <2>1, <1>3, Zenon DEF RxRegistrationRequest, Apply, Sound
  <2>3. resp \in SUBSET Packets
    <3>1. s \in Addrs /\ Broadcast \in Addrs /\ "Success" \in Status
      BY <2>1, AddrTypes, Zenon DEF Status
    <3>2. Response(Broadcast, p.body.uuid, s, "Success") \in Packets
      BY <1>1, <3>1, CoordPackets, Zenon
    <3>. QED
      BY <3>2, Zenon
  <2>4. R[s] = Begin(nodes[s]) /\ R[s].n = nodes[s] /\ StepInv(R[s])
    BY <1>2, <2>1, IdleSound, BeginInv, Zenon DEF CoordInv
  <2>5. /\ StepInv(q) /\ q.n.uuid = p.body.uuid /\ q.n.state = "Registered"
        /\ Quiet(nodes[s]) => TimersMatch(q.n)
    <3> DEFINE r == R[s]
               body == p.body
    <3>1. StepInv(r) /\ body \in RegistrationRequests
      BY <1>1, <2>4, Zenon
    <3> HIDE DEF r, body
    <3>2. StepInv(Register(r, body))
      BY <3>1, RegisterStep, Zenon
    <3>3. Register(r, body).n.uuid = body.uuid /\ Register(r, body).n.state = "Registered"
      BY <3>1, RegisterStep, Zenon
    <3>4. Quiet(r.n) => TimersMatch(Register(r, body).n)
      BY <3>1, RegisterStep, Zenon
    <3>. QED
      BY <2>4, <3>2, <3>3, <3>4, Zenon DEF r, body
  <2>6. Good(R) /\ \A t \in Slots : R[t].n = nodes[t]
    BY <1>2, <1>3, SoundGood, IdleSound, BeginInv, Zenon DEF CoordInv
  <2> HIDE DEF q, resp
  <2>7. Good(Q) /\ Q[s] = q /\ \A t \in Slots \ {s} : Q[t] = R[t]
    BY <2>1, <2>5, <2>6, Zenon DEF Good, StepInv
  <2> HIDE DEF Q
  <2>8. /\ nodes' \in [Slots -> Nodes]
        /\ \A t \in Slots : nodes'[t] = Q[t].n /\ NodeInv(nodes'[t])
        /\ tx' \in SUBSET Packets
        /\ sends' \in [Msgs -> SendStatus]
        /\ copies' \in [Msgs -> 0 .. MaxCopies]
    BY <2>2, <2>3, <2>7, PerformType, Zenon DEF CoordInv, TypeOK
  <2>9. nodes'[s] = q.n /\ \A t \in Slots \ {s} : nodes'[t] = nodes[t]
    BY <2>1, <2>6, <2>7, <2>8, Zenon
  <2>10. TypeOK'
    BY <2>1, <2>2, <2>8, CoordPackets, Zenon DEF CoordInv, TypeOK
  <2>11. RegistryUnique'
    <3>1. nodes'[s].uuid = p.body.uuid
      BY <2>5, <2>9, Zenon
    <3>2. nodes[s].uuid = p.body.uuid \/ \A t \in Slots \ {s} : nodes'[t].uuid # p.body.uuid
      BY <2>1, <2>9, Zenon
    <3>3. RegistryUnique
      BY Zenon DEF CoordInv
    <3>4. CASE nodes[s].uuid = p.body.uuid
      <4>1. \A t \in Slots : nodes'[t].uuid = nodes[t].uuid
        BY <2>9, <3>1, <3>4, Zenon
      <4>. QED
        BY <3>3, <4>1, UniqueKept, Zenon
    <3>5. CASE \A t \in Slots \ {s} : nodes'[t].uuid # p.body.uuid
      <4>1. ASSUME NEW t \in Slots, NEW u \in Slots, t # u,
                   nodes'[t].uuid = nodes'[u].uuid, nodes'[t].uuid # NoUuid
            PROVE  FALSE
        <5>1. t # s /\ u # s
          BY <3>1, <3>5, <4>1, Zenon
        <5>2. nodes'[t] = nodes[t] /\ nodes'[u] = nodes[u]
          BY <2>9, <5>1, Zenon
        <5>. QED
          BY <3>3, <4>1, <5>2, Zenon DEF RegistryUnique
      <4>. QED
        BY <4>1, Zenon DEF RegistryUnique
    <3>. QED
      BY <3>2, <3>4, <3>5, Zenon
  <2>12. CoordInv'
    BY <2>8, <2>10, <2>11, Zenon DEF CoordInv, NodeInv, Busy
  <2>13. ASSUME OrderlyInv, Orderly(p) PROVE OrderlyInv'
    <3>1. TimersMatch(q.n)
      BY <1>1, <1>5, <2>5, <2>13, Zenon DEF Orderly
    <3>2. ASSUME NEW t \in Slots PROVE TimersMatch(nodes'[t])
      BY <2>9, <2>13, <3>1, Zenon DEF OrderlyInv, TimersMatchState
    <3>3. TimersMatchState'
      BY <3>2, Zenon DEF TimersMatchState, TimersMatch, Busy
    <3>4. AppKnowsRegistry'
      BY <2>1, <2>2, <2>5, <2>9, <2>13 DEF OrderlyInv, AppKnowsRegistry
    <3>. QED
      BY <3>3, <3>4, Zenon DEF OrderlyInv
  <2>14. Owners(p)
    BY <1>1, <2>1, <2>5, <2>9, Zenon DEF Owners
  <2>. QED
    BY <2>12, <2>13, <2>14, Zenon
<1>. QED
  BY <1>4, <1>5, Zenon

\* Marking a quiet node as heard changes only when it was heard.
LEMMA HeardQuiet ==
    ASSUME NEW n \in Nodes, n.state = "Registered", NEW p, p.ar = FALSE
    PROVE  Heard(n, p, net_id, COORD_ADDR).n = [n EXCEPT !.age = 0]
<1> DEFINE a == [n EXCEPT !.age = 0]
<1>1. a.state = "Registered"
  BY Zenon DEF Nodes
<1>2. Begin(a).n = a
  BY Zenon DEF Begin
<1> HIDE DEF a
<1>3. Heard(n, p, net_id, COORD_ADDR) = TxPending(Begin(a))
  BY Zenon DEF Heard, a
<1>4. TxPending(Begin(a)) = Begin(a)
  BY <1>1, <1>2, Zenon DEF TxPending
<1>. QED
  BY <1>2, <1>3, <1>4, Zenon DEF a

\* The answer to a deregistration request is refused, deferred or sent, and
\* the slot is freed; in an orderly environment nothing was or becomes
\* outstanding for it.
LEMMA DeregistrationInv ==
    ASSUME CoordInv, NEW p, FromDevice(p), NEW R, Opening(R, p), RxDeregistrationRequest(R, p),
           UNCHANGED <<net_id, permit_attach, slot>>
    PROVE  CoordInv' /\ (OrderlyInv /\ Orderly(p) => OrderlyInv') /\ SameOwners
<1> DEFINE s == p.src
           r == R[s]
           resp == Response(s, p.body.uuid, Unassigned, "Success")
           a == TxPacket(r.n, resp, 0, NoMsg)
           b == Then(r, a.n, a.tx, {})
           q == Deregister(b)
           Q == [R EXCEPT ![s] = q]
<1>1. p.type = "DeregistrationRequest" /\ p.body.uuid \in Uuids
  BY Zenon DEF RxDeregistrationRequest, FromDevice, DeregistrationRequests
<1>2. Sound(R) /\ (\A t \in Slots : R[t].gone = FALSE) /\ Gone(R) = {}
  BY Zenon DEF Opening, Gone
<1>3. CASE ~(Known(s) /\ nodes[s].uuid = p.body.uuid)
  <2>1. Perform(R, {}, sends, copies) /\ live' = live \ Gone(R) /\ dseq' = dseq
    BY <1>2, <1>3, Zenon DEF RxDeregistrationRequest, Apply
  <2>. QED
    BY <1>2, <2>1, ApplySound, Zenon DEF CoordInv, TypeOK
<1>4. CASE Known(s) /\ nodes[s].uuid = p.body.uuid
  <2>1. s \in Slots /\ nodes[s].state # "Unregistered"
    BY <1>4, Zenon DEF Known
  <2>2. Perform(Q, {}, sends, copies) /\ live' = live \ {s} /\ dseq' = NextSeq
    BY <1>4, Zenon DEF RxDeregistrationRequest, Apply
  <2>3. resp \in Packets /\ resp.ar = FALSE
    <3>1. s \in Addrs /\ "Success" \in Status
      BY <2>1, AddrTypes, Zenon DEF Status
    <3>. QED
      BY <1>1, <3>1, AddrTypes, CoordPackets, Zenon
  <2>4. Good(R) /\ \A t \in Slots : R[t].n.uuid = nodes[t].uuid
    BY <1>2, SoundGood, Zenon DEF CoordInv
  <2>5. StepInv(r) /\ r \in Steps /\ NodeInv(r.n)
    BY <2>1, <2>4, Zenon DEF Good, StepInv
  <2> HIDE DEF resp
  <2>6. Keeps(Begin(r.n), a) /\ Begin(r.n).n = r.n
    BY <2>3, <2>5, TxPacketKeeps, BeginInv, Zenon
  <2>7. NodeInv(a.n) /\ a.n.uuid = r.n.uuid /\ a.tx \in SUBSET Packets
    BY <2>6, Zenon DEF Keeps, StepInv, Steps
  <2>8. ~r.n.sleepy => a.n = r.n
    BY <2>3, Zenon DEF TxPacket, Then, Begin
  <2> HIDE DEF a
  <2>9. StepInv(b) /\ b.n = a.n
    <3>1. {} \in SUBSET Calls
      BY Zenon
    <3> HIDE DEF r
    <3>. QED
      BY <2>5, <2>7, <3>1, ThenStep, Zenon
  <2> HIDE DEF b
  <2>10. /\ StepInv(q) /\ q.n.uuid = nodes[s].uuid /\ q.n.state = "Unregistered"
         /\ q.n.ack = a.n.ack /\ q.n.val = a.n.val
    <3>1. /\ StepInv(q) /\ q.n.uuid = b.n.uuid /\ q.n.state = "Unregistered"
          /\ q.n.ack = b.n.ack /\ q.n.val = b.n.val
      <4>1. b \in Steps /\ b.n \in Nodes /\ (b.n.ack # Off => b.n.pend \in Packets)
        BY <2>9, Zenon DEF StepInv, NodeInv
      <4>. QED
        BY <4>1, DeregisterStep, Zenon
    <3>2. a.n.uuid = nodes[s].uuid
      BY <2>1, <2>4, <2>7, Zenon
    <3>. QED
      BY <2>9, <3>1, <3>2, Zenon
  <2> HIDE DEF q
  <2>11. Good(Q) /\ Q[s] = q /\ \A t \in Slots \ {s} : Q[t] = R[t]
    BY <2>1, <2>4, <2>10, Zenon DEF Good, StepInv
  <2> HIDE DEF Q
  <2>12. /\ nodes' \in [Slots -> Nodes]
         /\ \A t \in Slots : nodes'[t] = Q[t].n /\ NodeInv(nodes'[t])
         /\ tx' \in SUBSET Packets
         /\ sends' \in [Msgs -> SendStatus]
         /\ copies' \in [Msgs -> 0 .. MaxCopies]
    BY <2>2, <2>11, PerformType, Zenon DEF CoordInv, TypeOK
  <2>13. nodes'[s] = q.n /\ \A t \in Slots \ {s} : nodes'[t] = R[t].n
    BY <2>1, <2>11, <2>12, Zenon
  <2>14. TypeOK'
    BY <2>2, <2>12, CoordPackets, Zenon DEF CoordInv, TypeOK
  <2>15. RegistryUnique'
    BY <2>4, <2>10, <2>13, UniqueKept, Zenon DEF CoordInv
  <2>16. CoordInv'
    BY <2>12, <2>14, <2>15, Zenon DEF CoordInv, NodeInv, Busy
  <2>17. ASSUME OrderlyInv, Orderly(p) PROVE OrderlyInv'
    <3>1. Quiet(nodes[s]) /\ ~nodes[s].sleepy /\ nodes[s].state = "Registered"
      BY <1>1, <1>4, <2>1, <2>17, Zenon DEF Orderly, Quiet
    <3>2. r.n.state = "Registered" /\ r.n.ack = Off /\ r.n.val = Off /\ ~r.n.sleepy
      <4>1. CASE R = Idle
        BY <2>1, <3>1, <4>1, IdleSound, BeginInv, Zenon DEF Quiet, CoordInv
      <4>2. CASE R = [Idle EXCEPT ![s] = Heard(nodes[s], p, net_id, COORD_ADDR)]
        <5>1. r = Heard(nodes[s], p, net_id, COORD_ADDR)
          BY <2>1, <4>2, Zenon DEF Idle
        <5>2. p.ar = FALSE
          BY <1>1, Zenon DEF FromDevice
        <5>3. nodes[s] \in Nodes /\ nodes[s].state = "Registered"
          BY <2>1, <3>1, Zenon DEF CoordInv, NodeInv
        <5>4. r.n = [nodes[s] EXCEPT !.age = 0]
          BY <5>1, <5>2, <5>3, HeardQuiet, Zenon
        <5>. QED
          BY <3>1, <5>3, <5>4, Zenon DEF Nodes, Quiet
      <4>. QED
        BY <4>1, <4>2, Zenon DEF Opening
    <3>3. TimersMatch(q.n)
      BY <2>8, <2>10, <3>2, Zenon DEF TimersMatch, Busy
    <3>4. ASSUME NEW t \in Slots, t # s
          PROVE  TimersMatch(R[t].n) /\ (R[t].n.state = "Unregistered" <=> nodes[t].state = "Unregistered")
      <4>1. R[t] = Begin(nodes[t])
        BY <2>1, <3>4, Zenon DEF Opening, Idle
      <4>2. Begin(nodes[t]).n = nodes[t]
        BY BeginInv, Zenon DEF CoordInv
      <4>. QED
        BY <2>17, <4>1, <4>2, Zenon DEF OrderlyInv, TimersMatchState
    <3>5. ASSUME NEW t \in Slots PROVE TimersMatch(nodes'[t])
      BY <2>13, <3>3, <3>4, Zenon
    <3>6. TimersMatchState'
      BY <3>5, Zenon DEF TimersMatchState, TimersMatch, Busy
    <3>7. AppKnowsRegistry'
      <4>1. live = {t \in Slots : nodes[t].state # "Unregistered"}
        BY <2>17, Zenon DEF OrderlyInv, AppKnowsRegistry
      <4>2. nodes'[s].state = "Unregistered"
        BY <2>10, <2>13, Zenon
      <4>3. ASSUME NEW t \in Slots, t # s
            PROVE  nodes'[t].state = "Unregistered" <=> nodes[t].state = "Unregistered"
        BY <2>13, <3>4, <4>3, Zenon
      <4> HIDE DEF s
      <4>. QED
        BY <2>2, <4>1, <4>2, <4>3, Zenon DEF AppKnowsRegistry
    <3>. QED
      BY <3>6, <3>7, Zenon DEF OrderlyInv
  <2>18. SameOwners
    BY <2>4, <2>10, <2>13, Zenon DEF SameOwners
  <2>. QED
    BY <2>16, <2>17, <2>18, Zenon
<1>. QED
  BY <1>3, <1>4, Zenon

\* Acknowledgements, beacon requests and the rest touch no registration.
LEMMA HandleInv ==
    ASSUME CoordInv, NEW p, FromDevice(p), NEW R, Opening(R, p), Handle(R, p),
           UNCHANGED <<net_id, permit_attach, slot>>
    PROVE  CoordInv' /\ (OrderlyInv /\ Orderly(p) => OrderlyInv') /\ Owners(p)
<1> DEFINE Goal == CoordInv' /\ (OrderlyInv /\ Orderly(p) => OrderlyInv') /\ SameOwners
<1>0. SameOwners => Owners(p)
  BY Zenon DEF SameOwners, Owners
<1>1. Sound(R) /\ (\A t \in Slots : R[t].gone = FALSE) /\ Gone(R) = {}
  BY Zenon DEF Opening, Gone
<1>2. ASSUME RxAcknowledgement(R, p) PROVE Goal
  <2> DEFINE Q == IF Known(p.src) THEN [R EXCEPT ![p.src] = RxAck(R[p.src], p.seq)] ELSE R
  <2>1. Perform(Q, {}, sends, copies) /\ live' = live /\ dseq' = dseq
    BY <1>2, Zenon DEF RxAcknowledgement, Apply
  <2>2. Sound(Q) /\ Gone(Q) = {}
    <3>1. CASE ~Known(p.src)
      BY <1>1, <3>1, Zenon
    <3>2. CASE Known(p.src)
      <4> DEFINE q == RxAck(R[p.src], p.seq)
      <4>1. p.src \in Slots /\ StepInv(R[p.src])
        BY <1>1, <3>2, Zenon DEF Known, Sound, Keeps
      <4>2. Keeps(R[p.src], q) /\ q.gone = FALSE
        BY <1>1, <4>1, RxAckKeeps, Zenon
      <4> HIDE DEF q
      <4>3. Sound([R EXCEPT ![p.src] = q])
        BY <1>1, <4>1, <4>2, SoundUpdate, Zenon
      <4>4. Gone([R EXCEPT ![p.src] = q]) = {}
        BY <1>1, <4>1, <4>2, Zenon DEF Gone, Sound
      <4>. QED
        BY <3>2, <4>3, <4>4, Zenon DEF q
    <3>. QED
      BY <3>1, <3>2, Zenon
  <2> HIDE DEF Q
  <2>. QED
    BY <2>1, <2>2, ApplySound, Zenon DEF CoordInv, TypeOK
<1>3. ASSUME RxBeaconRequest(R, p) PROVE Goal
  <2>1. Perform(R, {Beacon(FALSE)}, sends, copies) /\ live' = live \ Gone(R) /\ dseq' = dseq
    BY <1>1, <1>3, Zenon DEF RxBeaconRequest, Apply
  <2>. QED
    BY <1>1, <2>1, CoordPackets, ApplySound, Zenon DEF CoordInv, TypeOK
<1>4. CASE RxRegistrationRequest(R, p)
  BY <1>4, RegistrationInv, Zenon
<1>5. ASSUME RxDeregistrationRequest(R, p) PROVE Goal
  BY <1>5, DeregistrationInv, Zenon
<1>6. ASSUME RxOther(R, p) PROVE Goal
  <2>1. Perform(R, {}, sends, copies) /\ live' = live \ Gone(R) /\ dseq' = dseq
    BY <1>1, <1>6, Zenon DEF RxOther, Apply
  <2>. QED
    BY <1>1, <2>1, ApplySound, Zenon DEF CoordInv, TypeOK
<1>. QED
  BY <1>0, <1>2, <1>3, <1>4, <1>5, <1>6, Zenon DEF Handle

\* tinymac_recv_cb keeps the invariants.
LEMMA DeviceRecvInv ==
    ASSUME CoordInv, NEW p, FromDevice(p), RecvCb(p)
    PROVE  CoordInv' /\ (OrderlyInv /\ Orderly(p) => OrderlyInv') /\ Owners(p)
<1>1. UNCHANGED <<net_id, permit_attach, slot>>
  BY Zenon DEF RecvCb
<1>2. CASE RecvUnassigned(p)
  BY <1>1, <1>2, DeviceOpening, HandleInv, Zenon DEF RecvUnassigned
<1>3. CASE RecvKnown(p)
  BY <1>1, <1>3, DeviceOpening, HandleInv, Zenon DEF RecvKnown, Known
<1>4. CASE RecvUnknown(p)
  <2> DEFINE resp == Response(p.src, NoUuid, Unassigned, "AddressInvalid")
  <2>1. Perform(Idle, {resp}, sends, copies) /\ live' = live /\ dseq' = NextSeq
    BY <1>4, Zenon DEF RecvUnknown, Apply
  <2>2. resp \in Packets
    <3>1. p.src \in Addrs /\ "AddressInvalid" \in Status
      BY Zenon DEF FromDevice, Packets, Status
    <3>. QED
      BY <3>1, AddrTypes, CoordPackets, Zenon
  <2>3. Sound(Idle) /\ live' = live \ Gone(Idle)
    BY <2>1, IdleSound, Zenon DEF Gone
  <2> HIDE DEF resp
  <2>4. CoordInv' /\ (OrderlyInv => OrderlyInv') /\ SameOwners
    BY <1>1, <2>1, <2>2, <2>3, CoordPackets, ApplySound, Zenon DEF CoordInv, TypeOK
  <2>. QED
    BY <2>4, Zenon DEF SameOwners, Owners
<1>. QED
  BY <1>2, <1>3, <1>4, Zenon DEF RecvCb

\* The same for what clients send.
LEMMA RecvInv ==
    ASSUME CoordInv, NEW p \in ClientPackets, RecvCb(p)
    PROVE  CoordInv' /\ (OrderlyInv /\ Orderly(p) => OrderlyInv')
<1>1. FromDevice(p)
  BY ClientsAreDevices, Zenon DEF CoordInv, TypeOK
<1>. QED
  BY <1>1, DeviceRecvInv, Zenon

\* tinymac_permit_attach keeps the invariants.
LEMMA PermitInv ==
    ASSUME CoordInv, NEW permit \in BOOLEAN, PermitAttach(permit)
    PROVE  CoordInv' /\ (OrderlyInv => OrderlyInv')
<1>1. nodes' = nodes /\ live' = live
  BY Zenon DEF PermitAttach
<1>2. TypeOK'
  BY Zenon DEF PermitAttach, CoordInv, TypeOK
<1>3. OrderlyInv => OrderlyInv'
  BY <1>1, Zenon DEF OrderlyInv, TimersMatchState, TimersMatch, Busy, AppKnowsRegistry
<1>. QED
  BY <1>1, <1>2, <1>3, Zenon DEF CoordInv, RegistryUnique, NodeInv, Busy

\* Stuttering keeps the invariants.
LEMMA StutterInv ==
    ASSUME CoordInv, UNCHANGED vars
    PROVE  CoordInv' /\ (OrderlyInv => OrderlyInv')
<1>1. nodes' = nodes /\ live' = live
  BY Zenon DEF vars
<1>2. TypeOK'
  BY Zenon DEF vars, CoordInv, TypeOK
<1>3. OrderlyInv => OrderlyInv'
  BY <1>1, Zenon DEF OrderlyInv, TimersMatchState, TimersMatch, Busy, AppKnowsRegistry
<1>. QED
  BY <1>1, <1>2, <1>3, Zenon DEF CoordInv, RegistryUnique, NodeInv, Busy

\* tinymac_init establishes the invariants.
LEMMA InitInv ==
    ASSUME Init
    PROVE  CoordInv /\ OrderlyInv
<1>1. InitNode \in Nodes /\ NodeInv(InitNode) /\ TimersMatch(InitNode)
  <2>1. InitNode \in Nodes
    <3>1. 1 \in Heartbeats
      BY NodeConstants, Zenon
    <3>. QED
      BY <3>1, FieldTypes DEF InitNode, Nodes
  <2>. QED
    BY <2>1, Zenon DEF InitNode, NodeInv, TimersMatch, Busy, Off
<1>2. \A s \in Slots : nodes[s] = InitNode /\ nodes[s].state = "Unregistered" /\ nodes[s].uuid = NoUuid
  BY Zenon DEF Init, InitNode
<1>3. TypeOK
  <2>1. slot \in 0 .. BEACON_PERIOD - 1
    BY CoordConstants DEF Init
  <2>2. copies \in [Msgs -> 0 .. MaxCopies]
    BY NodeConstants DEF Init, MaxCopies
  <2>3. nodes \in [Slots -> Nodes] /\ sends \in [Msgs -> SendStatus]
    BY <1>1, Zenon DEF Init, SendStatus
  <2>. QED
    BY <2>1, <2>2, <2>3, Zenon DEF Init, TypeOK
<1>4. RegistryUnique
  BY <1>2, Zenon DEF RegistryUnique
<1>5. TimersMatchState /\ AppKnowsRegistry
  BY <1>1, <1>2, Zenon DEF TimersMatchState, AppKnowsRegistry, Init
<1>. QED
  BY <1>1, <1>2, <1>3, <1>4, <1>5, Zenon DEF CoordInv, OrderlyInv

----------------------------------------------------------------------------

\* Every step of the coordinator keeps CoordInv.
LEMMA NextInv ==
    ASSUME CoordInv, [Next]_vars
    PROVE  CoordInv'
<1>1. CASE AppSend(TRUE)
  BY <1>1, SendInv, Zenon
<1>2. CASE AppSend(FALSE)
  BY <1>2, SendInv, Zenon
<1>3. ASSUME NEW permit \in BOOLEAN, PermitAttach(permit) PROVE CoordInv'
  BY <1>3, PermitInv, Zenon
<1>4. ASSUME NEW p \in ClientPackets, RecvCb(p) PROVE CoordInv'
  BY <1>4, RecvInv, Zenon
<1>5. CASE TickHandler
  BY <1>5, TickInv, Zenon
<1>6. CASE UNCHANGED vars
  BY <1>6, StutterInv, Zenon
<1>. QED
  BY <1>1, <1>2, <1>3, <1>4, <1>5, <1>6, Zenon DEF Next

\* Every step of the orderly coordinator keeps CoordInv and OrderlyInv.
LEMMA OrderlyNextInv ==
    ASSUME CoordInv, OrderlyInv, [OrderlyNext]_vars
    PROVE  CoordInv' /\ OrderlyInv'
<1>1. CASE AppSend(TRUE)
  BY <1>1, SendInv, Zenon
<1>2. ASSUME NEW permit \in BOOLEAN, PermitAttach(permit) PROVE CoordInv' /\ OrderlyInv'
  BY <1>2, PermitInv, Zenon
<1>3. ASSUME NEW p \in ClientPackets, Orderly(p), RecvCb(p) PROVE CoordInv' /\ OrderlyInv'
  BY <1>3, RecvInv, Zenon
<1>4. CASE TickHandler
  BY <1>4, TickInv, Zenon
<1>5. CASE UNCHANGED vars
  BY <1>5, StutterInv, Zenon
<1>. QED
  BY <1>1, <1>2, <1>3, <1>4, <1>5, Zenon DEF OrderlyNext

\* The coordinator's state keeps its types whatever packets, ticks and calls
\* arrive in whatever order: no timer is found overdue, no pending buffer is
\* used before it is filled (tinymac_ack_timeout, tinymac_tx_pending).
THEOREM CoordTypeCorrect == Spec => []TypeOK
<1>1. Init => CoordInv
  BY InitInv, Zenon
<1>2. CoordInv /\ [Next]_vars => CoordInv'
  BY NextInv, Zenon
<1>3. CoordInv => TypeOK
  BY Zenon DEF CoordInv
<1>. QED
  BY <1>1, <1>2, <1>3, PTL DEF Spec

\* No device ever holds two addresses, for any number of slots and devices
\* (tinymac_rx_registration_request, tinymac_get_node_by_uuid).
THEOREM CoordRegistryUnique == Spec => []RegistryUnique
<1>1. Init => CoordInv
  BY InitInv, Zenon
<1>2. CoordInv /\ [Next]_vars => CoordInv'
  BY NextInv, Zenon
<1>3. CoordInv => RegistryUnique
  BY Zenon DEF CoordInv
<1>. QED
  BY <1>1, <1>2, <1>3, PTL DEF Spec

\* Whatever the environment does, a node that waits for an acknowledgement
\* has its acknowledgement timer armed (tinymac_tx_packet, tinymac_tx_pending).
THEOREM CoordWaitAckTimed == Spec => []WaitAckTimed
<1>1. Init => CoordInv
  BY InitInv, Zenon
<1>2. CoordInv /\ [Next]_vars => CoordInv'
  BY NextInv, Zenon
<1>3. CoordInv => WaitAckTimed
  BY Zenon DEF CoordInv, NodeInv, WaitAckTimed
<1>. QED
  BY <1>1, <1>2, <1>3, PTL DEF Spec

\* In an orderly environment the timers of a slot agree with its state at
\* every moment, for any retry limit and any timing constants.
THEOREM CoordTimersMatch == OrderlySpec => []TimersMatchState
<1>1. Init => CoordInv /\ OrderlyInv
  BY InitInv, Zenon
<1>2. CoordInv /\ OrderlyInv /\ [OrderlyNext]_vars => (CoordInv /\ OrderlyInv)'
  BY OrderlyNextInv, Zenon
<1>3. OrderlyInv => TimersMatchState
  BY Zenon DEF OrderlyInv
<1>. QED
  BY <1>1, <1>2, <1>3, PTL DEF OrderlySpec

\* In an orderly environment reg_cb and dereg_cb together tell the
\* application exactly which nodes are registered.
THEOREM CoordAppKnowsRegistry == OrderlySpec => []AppKnowsRegistry
<1>1. Init => CoordInv /\ OrderlyInv
  BY InitInv, Zenon
<1>2. CoordInv /\ OrderlyInv /\ [OrderlyNext]_vars => (CoordInv /\ OrderlyInv)'
  BY OrderlyNextInv, Zenon
<1>3. OrderlyInv => AppKnowsRegistry
  BY Zenon DEF OrderlyInv
<1>. QED
  BY <1>1, <1>2, <1>3, PTL DEF OrderlySpec

----------------------------------------------------------------------------
(* Acknowledgements of the whole coordinator. *)

MailInv == DataPendingHonest /\ \A s \in Slots : Mail(nodes[s], s)

\* Honest steps of the slots, with packets besides that are no
\* acknowledgements and for no slot that sends one.
LEMMA Answers ==
    ASSUME NEW R, \A s \in Slots : Honest(R[s], s),
           NEW extra, \A e \in extra : e.type # "Ack" /\ (e.dest \in Slots => R[e.dest].tx = {}),
           NEW status, NEW counts, Perform(R, extra, status, counts)
    PROVE  MailInv'
<1>1. \A s \in Slots : nodes'[s] = R[s].n
  BY Zenon DEF Perform
<1>2. tx' = extra \cup UNION {R[s].tx : s \in Slots}
  BY Zenon DEF Perform
<1>3. \A s \in Slots : Mail(nodes'[s], s)
  BY <1>1, Zenon DEF Honest
<1>4. ASSUME NEW p \in tx', p.type = "Ack"
      PROVE  p.dp <=> \E q \in tx' : q.dest = p.dest /\ q.type # "Ack"
  <2>1. PICK s \in Slots : p \in R[s].tx
    BY <1>2, <1>4, Zenon
  <2>2. p.dest = s /\ (p.dp <=> \E q \in R[s].tx : q.type # "Ack")
    BY <1>4, <2>1, Zenon DEF Honest
  <2>3. ASSUME NEW q \in tx', q.dest = s
        PROVE  q \in R[s].tx
    BY <1>2, <2>1, <2>3 DEF Honest
  <2>4. \A q \in R[s].tx : q \in tx' /\ q.dest = s
    BY <1>2 DEF Honest
  <2>. QED
    BY <2>2, <2>3, <2>4, Zenon
<1>5. DataPendingHonest'
  BY <1>4, Zenon DEF DataPendingHonest
<1>. QED
  BY <1>3, <1>5, Zenon DEF MailInv, Mail, Outstanding, Busy

\* Only data asks for an acknowledgement.
LEMMA OnlyDataAsks ==
    ASSUME NEW p \in ClientPackets
    PROVE  p.type = "Data" \/ p.ar = FALSE
<1>1. ASSUME NEW type, NEW src, NEW seq, NEW ar, NEW b, p = FromClient(type, src, seq, ar, b)
      PROVE  p.type = type /\ p.ar = ar
  BY <1>1, Zenon DEF FromClient, Packet
<1>2. CASE p \in {FromClient("Poll", s, 0, FALSE, NoBody) : s \in Slots}
  BY <1>1, <1>2, Zenon
<1>3. CASE p \in {FromClient("Ack", c[1], c[2], FALSE, NoBody) : c \in Slots \X Seqs}
  BY <1>1, <1>3, Zenon
<1>4. CASE p \in {FromClient("Data", c[1], 0, c[2], NoBody) : c \in (Slots \cup {Unassigned}) \X BOOLEAN}
  <2>1. PICK c \in (Slots \cup {Unassigned}) \X BOOLEAN : p = FromClient("Data", c[1], 0, c[2], NoBody)
    BY <1>4, Zenon
  <2>. QED
    BY <1>1, <2>1, Zenon
<1>5. CASE p = Packet("BeaconRequest", NETWORK_ANY, Broadcast, Unassigned, 0, FALSE, NoBody)
  BY <1>5, Zenon DEF Packet
<1>6. CASE p \in {FromClient("RegistrationRequest", Unassigned, 0, FALSE, b) : b \in RegistrationRequests}
  BY <1>1, <1>6, Zenon
<1>7. CASE p \in {FromClient("DeregistrationRequest", c[1], 0, FALSE, c[2])
                     : c \in Slots \X DeregistrationRequests}
  <2>1. PICK c \in Slots \X DeregistrationRequests :
            p = FromClient("DeregistrationRequest", c[1], 0, FALSE, c[2])
    BY <1>7, Zenon
  <2>2. p.type = "DeregistrationRequest" /\ p.ar = FALSE
    BY <1>1, <2>1, ZenonT(30)
  <2>. QED
    BY <2>2, Zenon
<1>. QED
  BY <1>2, <1>3, <1>4, <1>5, <1>6, <1>7, Zenon DEF ClientPackets

\* Where the coordinator's own packets go.
LEMMA OwnAddresses ==
    /\ Broadcast \notin Slots
    /\ \A sync : Beacon(sync).dest = Broadcast /\ Beacon(sync).type # "Ack"
    /\ \A dest, u, addr, st : /\ Response(dest, u, addr, st).dest = dest
                              /\ Response(dest, u, addr, st).type # "Ack"
<1>1. Broadcast \notin Slots
  BY NodeConstants DEF Broadcast, Slots
<1>2. ASSUME NEW sync PROVE Beacon(sync).dest = Broadcast /\ Beacon(sync).type = "Beacon"
  <2> DEFINE body == [sync |-> sync, permit |-> permit_attach,
                      pending |-> IF sync THEN {s \in Slots : nodes[s].state = "SendPending"} ELSE {}]
  <2>1. Beacon(sync) = Packet("Beacon", net_id, Broadcast, COORD_ADDR, 0, FALSE, body)
    BY Zenon DEF Beacon
  <2> HIDE DEF body
  <2>. QED
    BY <2>1 DEF Packet
<1>3. ASSUME NEW dest, NEW u, NEW addr, NEW st
      PROVE  /\ Response(dest, u, addr, st).dest = dest
             /\ Response(dest, u, addr, st).type = "RegistrationResponse"
  <2> DEFINE body == [uuid |-> u, addr |-> addr, status |-> st]
  <2>1. Response(dest, u, addr, st)
          = Packet("RegistrationResponse", net_id, dest, COORD_ADDR, NextSeq, FALSE, body)
    BY Zenon DEF Response
  <2> HIDE DEF body
  <2>. QED
    BY <2>1 DEF Packet
<1>4. "Beacon" # "Ack" /\ "RegistrationResponse" # "Ack"
  BY Zenon
<1>. QED
  BY <1>1, <1>2, <1>3, <1>4

\* A step that has not begun, or has begun with Heard.
LEMMA OpeningHonest ==
    ASSUME CoordInv, MailInv, NEW p \in ClientPackets, NEW R, Opening(R, p), NEW s \in Slots
    PROVE  Honest(R[s], s) /\ (p.type # "Data" => Plain(R[s], s))
<1>1. Plain(Begin(nodes[s]), s) /\ Honest(Begin(nodes[s]), s)
  BY Zenon DEF Plain, Honest, Begin, MailInv
<1>2. CASE R[s] = Begin(nodes[s])
  BY <1>1, <1>2, Zenon
<1>3. CASE s = p.src /\ R[s] = Heard(nodes[s], p, net_id, COORD_ADDR)
  <2>1. p \in Packets /\ net_id \in NetIds /\ COORD_ADDR \in Addrs /\ NodeInv(nodes[s])
    BY ClientPacketTypes, AddrTypes, Zenon DEF CoordInv, TypeOK
  <2>2. Mail(nodes[s], s)
    BY Zenon DEF MailInv
  <2>3. Honest(R[s], s) /\ (~p.ar => Plain(R[s], s))
    BY <1>3, <2>1, <2>2, HeardHonest, Zenon
  <2>. QED
    BY <2>3, OnlyDataAsks, Zenon
<1>. QED
  BY <1>2, <1>3, Zenon DEF Opening, Idle

\* tinymac_send.
LEMMA SendMail ==
    ASSUME CoordInv, MailInv, NEW phy \in BOOLEAN, AppSend(phy)
    PROVE  MailInv'
<1>1. PICK s \in Slots, ar \in BOOLEAN, m \in Msgs, v \in Validities : Send(s, ar, m, v, phy)
  BY Zenon DEF AppSend
<1> DEFINE n == nodes[s]
           p == Packet("Data", net_id, s, COORD_ADDR, NextSeq, ar, m)
           w == IF v = 0 THEN n.heartbeat ELSE v
           r == TxPacket(n, p, w, m)
           q == [n |-> r.n, tx |-> IF phy THEN r.tx ELSE {}, cb |-> {}, gone |-> FALSE]
           R == [Idle EXCEPT ![s] = q]
<1>2. PICK status, counts : Perform(R, {}, status, counts)
  BY <1>1, Zenon DEF Send
<1>3. n \in Nodes /\ Mail(n, s) /\ p.dest = s /\ p.type # "Ack"
  BY Zenon DEF CoordInv, NodeInv, MailInv, Packet
<1> HIDE DEF p, w
<1>4. Plain(r, s)
  BY <1>3, TxPacketPlain, Zenon
<1> HIDE DEF r
<1>5. q.n = r.n /\ q.tx \subseteq r.tx
  BY Zenon
<1> HIDE DEF q
<1>6. Honest(q, s)
  BY <1>4, <1>5, Zenon DEF Plain, Honest
<1>7. ASSUME NEW t \in Slots PROVE Honest(Begin(nodes[t]), t)
  BY Zenon DEF Honest, Begin, MailInv
<1>8. \A t \in Slots : Honest(R[t], t)
  BY <1>6, <1>7, Zenon DEF Idle
<1> HIDE DEF R
<1>. QED
  BY <1>2, <1>8, Answers, Zenon

\* A received packet.
LEMMA HandleMail ==
    ASSUME CoordInv, MailInv, NEW p \in ClientPackets, NEW R, Opening(R, p), Handle(R, p)
    PROVE  MailInv'
<1>1. /\ R \in [Slots -> Steps] /\ (\A t \in Slots : StepInv(R[t]) /\ Honest(R[t], t))
      /\ p.type # "Data" => \A t \in Slots : Plain(R[t], t)
  BY SoundGood, OpeningHonest, Zenon DEF Opening, CoordInv, Good
<1>2. CASE RxAcknowledgement(R, p)
  <2> DEFINE q == RxAck(R[p.src], p.seq)
             Q == IF Known(p.src) THEN [R EXCEPT ![p.src] = q] ELSE R
  <2>1. Perform(Q, {}, sends, copies) /\ p.type # "Data"
    BY <1>2, Zenon DEF RxAcknowledgement, Apply
  <2>2. ASSUME Known(p.src) PROVE p.src \in Slots /\ Honest(q, p.src)
    <3>1. p.src \in Slots /\ StepInv(R[p.src]) /\ Plain(R[p.src], p.src)
      BY <1>1, <2>1, <2>2, Zenon DEF Known
    <3>. QED
      BY <3>1, RxAckCarries, CarriesPlain, Zenon
  <2> HIDE DEF q
  <2>3. \A t \in Slots : Honest(Q[t], t)
    BY <1>1, <2>2, Zenon
  <2> HIDE DEF Q
  <2>. QED
    BY <2>1, <2>3, Answers, Zenon
<1>3. CASE RxBeaconRequest(R, p)
  <2>1. Perform(R, {Beacon(FALSE)}, sends, copies)
    BY <1>3, Zenon DEF RxBeaconRequest, Apply
  <2>2. \A e \in {Beacon(FALSE)} : e.type # "Ack" /\ (e.dest \in Slots => R[e.dest].tx = {})
    BY OwnAddresses, Zenon
  <2>. QED
    BY <1>1, <2>1, <2>2, Answers, Zenon
<1>4. CASE RxRegistrationRequest(R, p)
  <2> DEFINE s == SlotFor(p.body.uuid)
             q == Register(R[s], p.body)
             Q == [R EXCEPT ![s] = q]
             e == IF s # 0 THEN Response(Broadcast, p.body.uuid, s, "Success")
                  ELSE Response(Broadcast, p.body.uuid, Unassigned, "NetworkFull")
  <2>1. Perform(IF s # 0 THEN Q ELSE R, {e}, sends, copies)
    BY <1>4, Zenon DEF RxRegistrationRequest, Apply
  <2>2. ASSUME s # 0 PROVE s \in Slots /\ Honest(q, s)
    <3> DEFINE n == R[s].n
               a == [n EXCEPT !.state = "Registered", !.uuid = p.body.uuid, !.sleepy = p.body.sleepy,
                              !.heartbeat = p.body.heartbeat, !.age = 0]
    <3>1. s \in Slots /\ Plain(R[s], s) /\ n \in Nodes
      BY <1>1, <1>4, <2>2, SlotForDevice, Zenon DEF RxRegistrationRequest, StepInv, NodeInv
    <3>2. a.state = "Registered" /\ a.pend = n.pend /\ a.ack = n.ack
      BY <3>1, Zenon DEF Nodes
    <3>3. q = Then(R[s], a, {}, {})
      BY Zenon DEF Register
    <3> HIDE DEF a
    <3>4. Outstanding(a) => Outstanding(n)
      BY <3>2, Zenon DEF Outstanding, Busy
    <3> HIDE DEF q
    <3>5. Carries(R[s], q)
      BY <3>2, <3>3, <3>4, CarriesThen, Zenon
    <3>. QED
      BY <3>1, <3>5, CarriesPlain, Zenon
  <2> HIDE DEF q, s
  <2>3. \A t \in Slots : Honest((IF s # 0 THEN Q ELSE R)[t], t)
    BY <1>1, <2>2, Zenon
  <2>4. e.type # "Ack" /\ e.dest \notin Slots
    BY OwnAddresses
  <2> HIDE DEF Q, e
  <2>. QED
    BY <2>1, <2>3, <2>4, Answers, Zenon
<1>5. CASE RxDeregistrationRequest(R, p)
  <2> DEFINE s == p.src
             r == R[s]
             resp == Response(s, p.body.uuid, Unassigned, "Success")
             a == TxPacket(r.n, resp, 0, NoMsg)
             b == Then(r, a.n, a.tx, {})
             q == Deregister(b)
             Q == [R EXCEPT ![s] = q]
             known == Known(s) /\ nodes[s].uuid = p.body.uuid
  <2>1. Perform(IF known THEN Q ELSE R, {}, sends, copies) /\ p.type = "DeregistrationRequest"
    BY <1>5, Zenon DEF RxDeregistrationRequest, Apply
  <2>2. ASSUME known PROVE s \in Slots /\ Honest(q, s)
    <3>1. s \in Slots /\ Plain(r, s) /\ StepInv(r)
      BY <1>1, <2>1, <2>2, Zenon DEF Known
    <3>2. NodeInv(r.n) /\ r.n \in Nodes /\ Mail(r.n, s) /\ resp.dest = s /\ resp.type # "Ack"
      <4>1. NodeInv(r.n) /\ Mail(r.n, s)
        BY <3>1, Zenon DEF StepInv, Plain
      <4>2. r.n \in Nodes
        BY <4>1, Zenon DEF NodeInv
      <4>3. resp.dest = s /\ resp.type # "Ack"
        BY OwnAddresses
      <4>. QED
        BY <4>1, <4>2, <4>3, Zenon
    <3>3. resp \in Packets
      <4>1. p.body.uuid \in Uuids
        BY <2>1, ClientPacketTypes, Zenon DEF CoordInv, TypeOK, DeregistrationRequests
      <4>2. s \in Addrs /\ "Success" \in Status
        BY <3>1, AddrTypes, Zenon DEF Status
      <4>. QED
        BY <4>1, <4>2, AddrTypes, CoordPackets, Zenon
    <3> HIDE DEF r, resp
    <3>4. Plain(a, s)
      BY <3>2, TxPacketPlain, Zenon
    <3>5. a.n \in Nodes
      BY <3>2, <3>3, TxPacketKeeps, Zenon DEF Keeps, StepInv, NodeInv
    <3> HIDE DEF a
    <3>6. Plain(b, s) /\ b.n = a.n
      BY <3>1, <3>4, Zenon DEF Plain, Then
    <3> HIDE DEF b
    <3>. QED
      BY <3>1, <3>5, <3>6, DeregisterCarries, CarriesPlain, Zenon
  <2> HIDE DEF q, s, known
  <2>3. \A t \in Slots : Honest((IF known THEN Q ELSE R)[t], t)
    BY <1>1, <2>2, Zenon
  <2> HIDE DEF Q
  <2>. QED
    BY <2>1, <2>3, Answers, Zenon
<1>6. CASE RxOther(R, p)
  <2>1. Perform(R, {}, sends, copies)
    BY <1>6, Zenon DEF RxOther, Apply
  <2>. QED
    BY <1>1, <2>1, Answers, Zenon
<1>. QED
  BY <1>2, <1>3, <1>4, <1>5, <1>6, Zenon DEF Handle

\* Whoever the packet comes from.
LEMMA RecvMail ==
    ASSUME CoordInv, MailInv, NEW p \in ClientPackets, RecvCb(p)
    PROVE  MailInv'
<1>1. CASE RecvUnassigned(p)
  BY <1>1, RecvOpening, HandleMail, Zenon DEF RecvUnassigned
<1>2. CASE RecvKnown(p)
  BY <1>2, RecvOpening, HandleMail, Zenon DEF RecvKnown, Known
<1>3. CASE RecvUnknown(p)
  <2> DEFINE resp == Response(p.src, NoUuid, Unassigned, "AddressInvalid")
  <2>1. Perform(Idle, {resp}, sends, copies)
    BY <1>3, Zenon DEF RecvUnknown, Apply
  <2>2. \A t \in Slots : Idle[t].tx = {}
    BY Zenon DEF Idle, Begin
  <2>3. \A t \in Slots : Honest(Idle[t], t)
    BY RecvOpening, OpeningHonest, Zenon
  <2>4. resp.type # "Ack"
    BY OwnAddresses
  <2> HIDE DEF resp
  <2>. QED
    BY <2>1, <2>2, <2>3, <2>4, Answers, Zenon
<1>. QED
  BY <1>1, <1>2, <1>3, Zenon DEF RecvCb

\* The tick.
LEMMA TickMail ==
    ASSUME CoordInv, MailInv, TickHandler
    PROVE  MailInv'
<1> DEFINE R == [s \in Slots |-> NodeTick(nodes[s])]
           due == (slot + 1) % BEACON_PERIOD = BEACON_OFFSET
           extra == IF due THEN {Beacon(TRUE)} ELSE {}
<1>1. Perform(R, extra, sends, copies)
  BY Zenon DEF TickHandler, Apply
<1>2. ASSUME NEW s \in Slots PROVE Honest(R[s], s)
  <2>1. NodeInv(nodes[s]) /\ Plain(Begin(nodes[s]), s)
    BY Zenon DEF CoordInv, MailInv, Plain, Begin
  <2>. QED
    BY <2>1, NodeTickCarries, CarriesPlain, Zenon
<1>3. \A e \in extra : e.type # "Ack" /\ e.dest \notin Slots
  BY OwnAddresses, Zenon
<1> HIDE DEF R, extra
<1>. QED
  BY <1>1, <1>2, <1>3, Answers, Zenon

\* Every step of the coordinator, in any environment.
LEMMA NextMail ==
    ASSUME CoordInv, MailInv, [Next]_vars
    PROVE  MailInv'
<1>1. CASE AppSend(TRUE) \/ AppSend(FALSE)
  BY <1>1, SendMail, Zenon
<1>2. ASSUME NEW permit \in BOOLEAN, PermitAttach(permit) PROVE MailInv'
  BY <1>2, Zenon DEF PermitAttach, MailInv, DataPendingHonest, Mail, Outstanding, Busy
<1>3. ASSUME NEW p \in ClientPackets, RecvCb(p) PROVE MailInv'
  BY <1>3, RecvMail, Zenon
<1>4. CASE TickHandler
  BY <1>4, TickMail, Zenon
<1>5. CASE UNCHANGED vars
  BY <1>5, Zenon DEF vars, MailInv, DataPendingHonest, Mail, Outstanding, Busy
<1>. QED
  BY <1>1, <1>2, <1>3, <1>4, <1>5, Zenon DEF Next

\* Whatever the environment does, the data pending flag of an acknowledgement
\* is set exactly when another packet for the same node follows it.
THEOREM CoordDataPendingHonest == Spec => []DataPendingHonest
<1> DEFINE Inv == CoordInv /\ MailInv
<1>1. Init => Inv
  <2>1. ASSUME Init PROVE MailInv
    <3>1. ~Outstanding(InitNode)
      BY Zenon DEF InitNode, Outstanding, Busy
    <3>. QED
      BY <2>1, <3>1, Zenon DEF Init, MailInv, DataPendingHonest, Mail
  <2>. QED
    BY <2>1, InitInv, Zenon
<1>2. Inv /\ [Next]_vars => Inv'
  BY NextInv, NextMail, Zenon
<1>3. Inv => DataPendingHonest
  BY Zenon DEF MailInv
<1> HIDE DEF Inv
<1>. QED
  BY <1>1, <1>2, <1>3, PTL DEF Spec
=============================================================================
