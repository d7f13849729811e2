------------------------- MODULE TinyMacNodeProofs -------------------------
(***************************************************************************)
(* What the delivery engine keeps, operation by operation, for whoever     *)
(* runs it: the coordinator on each of its slots (TinyMacCoordProofs), a   *)
(* client on the node of its coordinator (TinyMacClientProofs).            *)
(***************************************************************************)
EXTENDS TinyMacNode, TLAPS

\* The addresses in use are addresses.
LEMMA AddrTypes ==
    /\ Slots \subseteq Addrs
    /\ COORD_ADDR \in Addrs
    /\ Unassigned \in Addrs
    /\ Broadcast \in Addrs
    /\ Unassigned \notin Slots
  BY NodeConstants DEF Addrs, Slots, COORD_ADDR, Unassigned, Broadcast

Calls == Msgs \X {0, -1}

Steps == [n : Nodes, tx : SUBSET Packets, cb : SUBSET Calls, gone : BOOLEAN]

\* What every node satisfies whatever its environment does: a packet is
\* stored wherever one may be re-sent, and a wait has its timer running.
NodeInv(n) ==
    /\ n \in Nodes
    /\ Busy(n) \/ n.ack # Off => n.pend \in Packets
    /\ n.state = "WaitAck" => n.ack # Off

StepInv(r) == r \in Steps /\ NodeInv(r.n)

\* Going on with a node, packets and callbacks of the right types gives a step
\* record.
LEMMA ThenType ==
    ASSUME NEW r \in Steps, NEW n \in Nodes, NEW P \in SUBSET Packets, NEW C \in SUBSET Calls
    PROVE  /\ Then(r, n, P, C) \in Steps
           /\ Then(r, n, P, C).n = n
           /\ Then(r, n, P, C).gone = r.gone
  BY Zenon DEF Then, Steps

\* The same for the invariant of a step: the node must satisfy NodeInv.
LEMMA ThenStep ==
    ASSUME NEW r \in Steps, NEW n, NodeInv(n), NEW P \in SUBSET Packets, NEW C \in SUBSET Calls
    PROVE  /\ StepInv(Then(r, n, P, C))
           /\ Then(r, n, P, C).n = n
           /\ Then(r, n, P, C).gone = r.gone
  BY ThenType DEF StepInv, NodeInv

\* A send callback is invoked for a message, with 0 or -1.
LEMMA InvokeCalls ==
    ASSUME NEW n \in Nodes, NEW rc \in {0, -1}
    PROVE  Invoke(n, rc) \in SUBSET Calls
  BY DEF Invoke, Nodes, Calls

\* Whether the node is registered agrees with what dereg_cb has said of the
\* node n0 the step began with.
Accounted(r, n0) == (r.n.state = "Unregistered") <=> (n0.state = "Unregistered" \/ r.gone)

\* What a piece of a step turning r into q keeps.  A registered node is lost
\* only with dereg_cb, whatever its timers.
Keeps(r, q) ==
    /\ StepInv(q)
    /\ q.n.uuid = r.n.uuid
    /\ r.gone => q.gone
    /\ q.n.state = "Unregistered" => r.n.state = "Unregistered" \/ q.gone
    /\ TimersMatch(r.n) => TimersMatch(q.n) /\ \A n0 : Accounted(r, n0) => Accounted(q, n0)

\* Doing nothing keeps everything.
LEMMA KeepsRefl ==
    ASSUME NEW r, StepInv(r)
    PROVE  Keeps(r, r)
  BY Zenon DEF Keeps

\* Operations one after the other keep what each of them keeps.
LEMMA KeepsTrans ==
    ASSUME NEW r, NEW q, NEW u, Keeps(r, q), Keeps(q, u)
    PROVE  Keeps(r, u)
  BY Zenon DEF Keeps

\* A step begins with the node as it is.
LEMMA BeginInv ==
    ASSUME NEW n, NodeInv(n)
    PROVE  StepInv(Begin(n)) /\ Begin(n).n = n /\ Begin(n).gone = FALSE
<1>1. n \in Nodes
  BY Zenon DEF NodeInv
<1>. QED
  BY <1>1, Zenon DEF Begin, StepInv, Steps

\* The values timers and states are set to.
LEMMA FieldTypes ==
    /\ Off \in Timers /\ 0 \in Timers /\ ACK_TICKS \in Timers
    /\ "Unregistered" \in NodeStates /\ "Registered" \in NodeStates
    /\ "SendPending" \in NodeStates /\ "WaitAck" \in NodeStates
  BY NodeConstants, Zenon DEF Timers, NodeStates

\* tinymac_tx_pending: the released packet is timed or its validity cancelled.
LEMMA TxPendingKeeps ==
    ASSUME NEW r, StepInv(r)
    PROVE  Keeps(r, TxPending(r)) /\ TxPending(r).gone = r.gone
<1> DEFINE n == r.n
           a == [n EXCEPT !.state = "WaitAck", !.ack = ACK_TICKS]
           b == [n EXCEPT !.state = "Registered", !.val = Off]
<1>1. r \in Steps /\ n \in Nodes
  BY Zenon DEF StepInv, NodeInv
<1>2. CASE n.state # "SendPending"
  BY <1>2, KeepsRefl, Zenon DEF TxPending
<1>3. CASE n.state = "SendPending" /\ n.pend.ar
  <2>1. n.pend \in Packets
    BY <1>3, Zenon DEF StepInv, NodeInv, Busy
  <2>2. a \in Nodes
    BY <1>1, FieldTypes, Zenon DEF Nodes
  <2>3. NodeInv(a) /\ a.uuid = n.uuid /\ a.state = "WaitAck"
    BY <1>1, <2>1, <2>2, NodeConstants DEF Nodes, NodeInv, Off
  <2>4. TimersMatch(n) => TimersMatch(a)
    BY <1>1, <1>3, NodeConstants DEF Nodes, TimersMatch, Busy, Off
  <2>5. TxPending(r) = Then(r, a, {n.pend}, {})
    BY <1>3, Zenon DEF TxPending
  <2>6. StepInv(TxPending(r)) /\ TxPending(r).n = a /\ TxPending(r).gone = r.gone
    BY <1>1, <2>1, <2>3, <2>5, ThenStep
  <2>. QED
    BY <1>3, <2>3, <2>4, <2>6, Zenon DEF Keeps, Accounted
<1>4. CASE n.state = "SendPending" /\ ~n.pend.ar
  <2>1. n.pend \in Packets
    BY <1>4, Zenon DEF StepInv, NodeInv, Busy
  <2>2. b \in Nodes
    BY <1>1, FieldTypes, Zenon DEF Nodes
  <2>3. NodeInv(b) /\ b.uuid = n.uuid /\ b.state = "Registered"
    BY <1>1, <2>1, <2>2, NodeConstants, Zenon DEF Nodes, NodeInv
  <2>4. TimersMatch(n) => TimersMatch(b)
    BY <1>1, <1>4, Zenon DEF Nodes, TimersMatch, Busy
  <2>5. TxPending(r) = Then(r, b, {n.pend}, Invoke(n, 0))
    BY <1>4, Zenon DEF TxPending
  <2>6. Invoke(n, 0) \in SUBSET Calls
    BY <1>1, InvokeCalls, Zenon
  <2>7. StepInv(TxPending(r)) /\ TxPending(r).n = b /\ TxPending(r).gone = r.gone
    BY <1>1, <2>1, <2>3, <2>5, <2>6, ThenStep
  <2>. QED
    BY <1>4, <2>3, <2>4, <2>7, Zenon DEF Keeps, Accounted
<1>. QED
  BY <1>2, <1>3, <1>4, Zenon

\* The acknowledgement case of tinymac_recv_cb: both timers are cancelled.
LEMMA RxAckKeeps ==
    ASSUME NEW r, StepInv(r), NEW seq
    PROVE  Keeps(r, RxAck(r, seq)) /\ RxAck(r, seq).gone = r.gone
<1> DEFINE n == r.n
           a == [n EXCEPT !.state = "Registered", !.ack = Off, !.val = Off]
<1>1. r \in Steps /\ n \in Nodes
  BY Zenon DEF StepInv, NodeInv
<1>2. CASE ~(n.state = "WaitAck" /\ seq = n.pend.seq)
  BY <1>2, KeepsRefl, Zenon DEF RxAck
<1>3. CASE n.state = "WaitAck" /\ seq = n.pend.seq
  <2>1. a \in Nodes
    BY <1>1, Zenon DEF Nodes, NodeStates, Timers
  <2>2. NodeInv(a) /\ a.uuid = n.uuid /\ a.state = "Registered" /\ TimersMatch(a)
    BY <1>1, <2>1, Zenon DEF Nodes, NodeInv, TimersMatch, Busy
  <2>3. Invoke(n, 0) \in SUBSET Calls
    BY <1>1, InvokeCalls, Zenon
  <2>4. RxAck(r, seq) = Then(r, a, {}, Invoke(n, 0))
    BY <1>3, Zenon DEF RxAck
  <2>5. StepInv(RxAck(r, seq)) /\ RxAck(r, seq).n = a /\ RxAck(r, seq).gone = r.gone
    BY <1>1, <2>2, <2>3, <2>4, ThenStep
  <2>. QED
    BY <1>3, <2>2, <2>5, Zenon DEF Keeps, Accounted
<1>. QED
  BY <1>2, <1>3, Zenon

\* tinymac_deregister_node leaves a well-formed node with the same uuid.
LEMMA DeregisterStep ==
    ASSUME NEW r \in Steps, r.n \in Nodes, r.n.ack # Off => r.n.pend \in Packets
    PROVE  /\ StepInv(Deregister(r))
           /\ Deregister(r).n.uuid = r.n.uuid
           /\ Deregister(r).n.state = "Unregistered"
           /\ Deregister(r).n.ack = r.n.ack
           /\ Deregister(r).n.val = r.n.val
           /\ Deregister(r).gone
<1> DEFINE a == [r.n EXCEPT !.state = "Unregistered"]
<1>2. a \in Nodes
  BY Zenon DEF Nodes, NodeStates
<1>3. /\ NodeInv(a) /\ a.uuid = r.n.uuid /\ a.state = "Unregistered"
      /\ a.ack = r.n.ack /\ a.val = r.n.val
  BY <1>2, Zenon DEF Nodes, NodeInv, Busy
<1>4. Deregister(r) \in Steps /\ Deregister(r).n = a /\ Deregister(r).gone
  BY <1>2, Zenon DEF Deregister, Steps
<1>. QED
  BY <1>3, <1>4, Zenon DEF StepInv

\* The three nodes tinymac_ack_timeout can leave are well formed.
LEMMA AckTimeoutNodes ==
    ASSUME NEW n \in Nodes
    PROVE  /\ n.retries # 0 => [n EXCEPT !.retries = @ - 1, !.state = "SendPending"] \in Nodes
           /\ n.retries # 0 => [n EXCEPT !.retries = @ - 1, !.ack = ACK_TICKS] \in Nodes
           /\ [n EXCEPT !.retries = 255, !.val = Off] \in Nodes
<1>1. ASSUME NEW k \in 0 .. 255
      PROVE  /\ [n EXCEPT !.retries = k, !.state = "SendPending"] \in Nodes
             /\ [n EXCEPT !.retries = k, !.ack = ACK_TICKS] \in Nodes
             /\ [n EXCEPT !.retries = k, !.val = Off] \in Nodes
  <2>1. [n EXCEPT !.retries = k, !.state = "SendPending"] \in Nodes
    BY FieldTypes, Zenon DEF Nodes
  <2>2. [n EXCEPT !.retries = k, !.ack = ACK_TICKS] \in Nodes
    BY FieldTypes, Zenon DEF Nodes
  <2>3. [n EXCEPT !.retries = k, !.val = Off] \in Nodes
    BY FieldTypes, Zenon DEF Nodes
  <2>. QED
    BY <2>1, <2>2, <2>3, Zenon
<1>2. n.retries \in 0 .. 255
  BY Zenon DEF Nodes
<1>3. n.retries # 0 => n.retries - 1 \in 0 .. 255
  BY <1>2
<1>4. 255 \in 0 .. 255
  OBVIOUS
<1>5. [n EXCEPT !.retries = 255, !.val = Off] \in Nodes
  BY <1>1, <1>4, Zenon
<1>. QED
  BY <1>1, <1>3, <1>5, Zenon

\* tinymac_ack_timeout, when due: deferred, re-sent with a new timer, or given
\* up with no timer left.
LEMMA DespatchAckKeeps ==
    ASSUME NEW r, StepInv(r)
    PROVE  Keeps(r, DespatchAck(r)) /\ DespatchAck(r).n.ack # 0
<1> DEFINE n == [r.n EXCEPT !.ack = Off]
           a == [n EXCEPT !.retries = @ - 1, !.state = "SendPending"]
           b == [n EXCEPT !.retries = @ - 1, !.ack = ACK_TICKS]
           c == [n EXCEPT !.retries = 255, !.val = Off]
           q == DespatchAck(r)
<1>1. r \in Steps /\ r.n \in Nodes
  BY Zenon DEF StepInv, NodeInv
<1>2. CASE r.n.ack # 0
  BY <1>2, KeepsRefl, Zenon DEF DespatchAck
<1>3. ASSUME r.n.ack = 0 PROVE q = AckTimeout(r) /\ r.n.pend \in Packets
  BY <1>3 DEF DespatchAck, StepInv, NodeInv, Off
<1>4. /\ n \in Nodes /\ n.ack = Off /\ n.uuid = r.n.uuid /\ n.pend = r.n.pend
      /\ n.state = r.n.state /\ n.sleepy = r.n.sleepy /\ n.val = r.n.val
      /\ n.retries = r.n.retries /\ n.cb = r.n.cb
  BY <1>1 DEF Nodes, Timers
<1>5. TimersMatch(r.n) /\ r.n.ack = 0 => r.n.state = "WaitAck"
  BY <1>1 DEF TimersMatch, Busy, Off, Nodes, NodeStates
<1>6. CASE r.n.ack = 0 /\ n.retries # 0 /\ n.sleepy
  <2>1. a \in Nodes
    BY <1>4, <1>6, AckTimeoutNodes, Zenon
  <2>2. a.uuid = r.n.uuid /\ a.ack = Off /\ a.state = "SendPending"
        /\ a.pend = r.n.pend /\ a.val = r.n.val /\ a.sleepy = r.n.sleepy
    BY <1>4, Zenon DEF Nodes
  <2>3. NodeInv(a)
    BY <1>3, <1>6, <2>1, <2>2, Zenon DEF NodeInv
  <2>4. TimersMatch(r.n) => TimersMatch(a)
    BY <1>5, <1>4, <1>6, <2>2, Zenon DEF TimersMatch, Busy
  <2>5. q = Then(r, a, {}, {})
    BY <1>3, <1>6, Zenon DEF AckTimeout
  <2>6. StepInv(q) /\ q.n = a /\ q.gone = r.gone
    BY <1>1, <2>3, <2>5, ThenStep
  <2>. QED
    BY <1>5, <1>6, <2>2, <2>4, <2>6 DEF Keeps, Accounted, Off
<1>7. CASE r.n.ack = 0 /\ n.retries # 0 /\ ~n.sleepy
  <2>1. b \in Nodes
    BY <1>4, <1>7, AckTimeoutNodes, Zenon
  <2>2. b.uuid = r.n.uuid /\ b.ack = ACK_TICKS /\ b.state = r.n.state
        /\ b.pend = r.n.pend /\ b.val = r.n.val /\ b.sleepy = r.n.sleepy
    BY <1>4, Zenon DEF Nodes
  <2>3. NodeInv(b)
    BY <1>3, <1>7, <2>1, <2>2, NodeConstants DEF NodeInv, Off
  <2>4. TimersMatch(r.n) => TimersMatch(b)
    BY <1>5, <1>4, <1>7, <2>2, NodeConstants DEF TimersMatch, Busy, Off
  <2>5. q = Then(r, b, {n.pend}, {})
    BY <1>3, <1>7, Zenon DEF AckTimeout
  <2>6. n.pend \in Packets
    BY <1>3, <1>4, <1>7, Zenon
  <2>7. StepInv(q) /\ q.n = b /\ q.gone = r.gone
    BY <1>1, <2>3, <2>5, <2>6, ThenStep
  <2>. QED
    BY <2>2, <2>4, <2>7, NodeConstants DEF Keeps, Accounted
<1>8. CASE r.n.ack = 0 /\ n.retries = 0
  <2> DEFINE u == Then(r, c, {}, Invoke(n, -1))
  <2>1. c \in Nodes
    BY <1>4, AckTimeoutNodes, Zenon
  <2>2. c.uuid = r.n.uuid /\ c.ack = Off /\ c.state = r.n.state
        /\ c.pend = r.n.pend /\ c.val = Off
    BY <1>4, Zenon DEF Nodes
  <2>3. Invoke(n, -1) \in SUBSET Calls
    BY <1>4, InvokeCalls, Zenon
  <2>4. q = Deregister(u)
    BY <1>3, <1>8, Zenon DEF AckTimeout
  <2>5. u \in Steps /\ u.n = c
    BY <1>1, <2>1, <2>3, ThenType
  <2> HIDE DEF u, c, q
  <2>6. StepInv(q) /\ q.n.uuid = r.n.uuid /\ q.n.state = "Unregistered"
        /\ q.n.ack = Off /\ q.n.val = Off /\ q.gone
    BY <2>1, <2>2, <2>4, <2>5, DeregisterStep, Zenon
  <2>. QED
    BY <2>6 DEF q, Keeps, Accounted, TimersMatch, Busy, Off
<1>. QED
  BY <1>2, <1>4, <1>6, <1>7, <1>8, Zenon

\* tinymac_validity_timeout, when due: no timer is left.
LEMMA DespatchValidityKeeps ==
    ASSUME NEW r, StepInv(r), r.n.ack # 0
    PROVE  /\ Keeps(r, DespatchValidity(r))
           /\ DespatchValidity(r).n.ack # 0 /\ DespatchValidity(r).n.val # 0
<1> DEFINE n == r.n
           a == [n EXCEPT !.val = Off, !.state = "Registered", !.ack = Off]
           q == DespatchValidity(r)
<1>1. r \in Steps /\ n \in Nodes
  BY Zenon DEF StepInv, NodeInv
<1>2. CASE n.val # 0
  BY <1>2, KeepsRefl, Zenon DEF DespatchValidity
<1>3. CASE n.val = 0
  <2>1. a \in Nodes
    BY <1>1, Zenon DEF Nodes, NodeStates, Timers
  <2>2. NodeInv(a) /\ a.uuid = n.uuid /\ a.state = "Registered" /\ TimersMatch(a)
        /\ a.ack = Off /\ a.val = Off
    BY <1>1, <2>1, Zenon DEF Nodes, NodeInv, TimersMatch, Busy
  <2>3. Invoke(n, -1) \in SUBSET Calls
    BY <1>1, InvokeCalls, Zenon
  <2>4. q = Then(r, a, {}, Invoke(n, -1))
    BY <1>3, Zenon DEF DespatchValidity, ValidityTimeout
  <2>5. StepInv(q) /\ q.n = a /\ q.gone = r.gone
    BY <1>1, <2>2, <2>3, <2>4, ThenStep
  <2>6. TimersMatch(n) => n.state # "Unregistered"
    BY <1>3, Zenon DEF TimersMatch, Busy, Off
  <2>. QED
    BY <2>2, <2>5, <2>6 DEF Keeps, Accounted, Off
<1>. QED
  BY <1>2, <1>3, Zenon

\* The heartbeat check drops only idle nodes, which have no timers.
LEMMA CheckHeartbeatKeeps ==
    ASSUME NEW r, StepInv(r)
    PROVE  Keeps(r, CheckHeartbeat(r))
<1> DEFINE q == CheckHeartbeat(r)
<1>1. r \in Steps /\ r.n \in Nodes /\ (r.n.ack # Off => r.n.pend \in Packets)
  BY Zenon DEF StepInv, NodeInv
<1>2. CASE q = r
  BY <1>2, KeepsRefl, Zenon
<1>3. CASE q = Deregister(r) /\ r.n.state = "Registered"
  <2>1. StepInv(q) /\ q.n.uuid = r.n.uuid /\ q.n.state = "Unregistered"
        /\ q.n.ack = r.n.ack /\ q.n.val = r.n.val /\ q.gone
    BY <1>1, <1>3, DeregisterStep, Zenon
  <2>. QED
    BY <1>3, <2>1, Zenon DEF Keeps, Accounted, TimersMatch, Busy
<1>. QED
  BY <1>2, <1>3, Zenon DEF CheckHeartbeat

\* After despatch no running timer is due, so none is counted below zero.
LEMMA AdvanceClockKeeps ==
    ASSUME NEW r, StepInv(r), r.n.ack # 0, r.n.val # 0
    PROVE  Keeps(r, AdvanceClock(r))
<1> DEFINE n == r.n
           age == IF n.age < HeartbeatLimit(n) THEN n.age + 1 ELSE n.age
           a == [n EXCEPT !.ack = Elapse(n.ack), !.val = Elapse(n.val), !.age = age]
           q == AdvanceClock(r)
<1>1. r \in Steps /\ n \in Nodes
  BY Zenon DEF StepInv, NodeInv
<1>2. Elapse(n.ack) \in Timers /\ (Elapse(n.ack) = Off <=> n.ack = Off)
  BY <1>1 DEF Nodes, Timers, Elapse, Off
<1>3. Elapse(n.val) \in Timers /\ (Elapse(n.val) = Off <=> n.val = Off)
  BY <1>1 DEF Nodes, Timers, Elapse, Off
<1>4. age \in Nat
  BY <1>1 DEF Nodes
<1> HIDE DEF age
<1>5. a \in Nodes
  BY <1>1, <1>2, <1>3, <1>4, Zenon DEF Nodes
<1>6. /\ a.ack = Elapse(n.ack) /\ a.val = Elapse(n.val) /\ a.state = n.state
      /\ a.pend = n.pend /\ a.sleepy = n.sleepy /\ a.uuid = n.uuid
  BY <1>1, Zenon DEF Nodes
<1>7. NodeInv(a)
  BY <1>2, <1>5, <1>6, Zenon DEF StepInv, NodeInv, Busy
<1>8. TimersMatch(n) => TimersMatch(a)
  BY <1>2, <1>3, <1>6, Zenon DEF TimersMatch, Busy
<1>9. q = Then(r, a, {}, {})
  BY Zenon DEF AdvanceClock, age
<1>10. StepInv(q) /\ q.n = a /\ q.gone = r.gone
  BY <1>1, <1>7, <1>9, ThenStep
<1>. QED
  BY <1>6, <1>8, <1>10, Zenon DEF Keeps, Accounted

\* A node's share of tinymac_tick_handler: check, despatch, advance.
LEMMA NodeTickKeeps ==
    ASSUME NEW n, NodeInv(n)
    PROVE  Keeps(Begin(n), NodeTick(n))
<1> DEFINE r0 == Begin(n)
           r1 == CheckHeartbeat(r0)
           r2 == DespatchAck(r1)
           r3 == DespatchValidity(r2)
           r4 == AdvanceClock(r3)
<1>1. StepInv(r0)
  BY BeginInv, Zenon
<1>2. Keeps(r0, r1) /\ StepInv(r1)
  BY <1>1, CheckHeartbeatKeeps, Zenon DEF Keeps
<1>3. Keeps(r1, r2) /\ StepInv(r2) /\ r2.n.ack # 0
  BY <1>2, DespatchAckKeeps, Zenon DEF Keeps
<1>4. Keeps(r2, r3) /\ StepInv(r3) /\ r3.n.ack # 0 /\ r3.n.val # 0
  BY <1>3, DespatchValidityKeeps, Zenon DEF Keeps
<1>5. Keeps(r3, r4)
  BY <1>4, AdvanceClockKeeps, Zenon
<1>6. NodeTick(n) = r4
  BY Zenon DEF NodeTick
<1> HIDE DEF r0, r1, r2, r3, r4
<1>7. Keeps(r0, r2)
  BY <1>2, <1>3, KeepsTrans, Zenon
<1>8. Keeps(r0, r3)
  BY <1>4, <1>7, KeepsTrans, Zenon
<1>9. Keeps(r0, r4)
  BY <1>5, <1>8, KeepsTrans, Zenon
<1>. QED
  BY <1>6, <1>9, Zenon DEF r0

\* tinymac_tx_packet: refused, deferred with a validity period, sent with an
\* acknowledgement timer, or sent and forgotten.
LEMMA TxPacketKeeps ==
    ASSUME NEW n, NodeInv(n), NEW p \in Packets, NEW v \in Nat, NEW cb \in Msgs \cup {NoMsg}
    PROVE  Keeps(Begin(n), TxPacket(n, p, v, cb)) /\ TxPacket(n, p, v, cb).gone = FALSE
<1> DEFINE r == Begin(n)
           q == TxPacket(n, p, v, cb)
           stored == [n EXCEPT !.pend = p, !.cb = cb, !.retries = MAX_RETRIES]
           a == [stored EXCEPT !.state = "SendPending", !.val = Seconds(v)]
           b == [stored EXCEPT !.state = "WaitAck", !.ack = ACK_TICKS]
<1>1. r \in Steps /\ StepInv(r) /\ r.n = n /\ r.gone = FALSE /\ n \in Nodes
  BY BeginInv, Zenon DEF StepInv, NodeInv
<1>2. MAX_RETRIES \in 0 .. 255
  BY NodeConstants
<1>3. stored \in Nodes
  BY <1>1, <1>2, Zenon DEF Nodes
<1>9. /\ stored.pend = p /\ stored.uuid = n.uuid
      /\ stored.ack = n.ack /\ stored.val = n.val /\ stored.sleepy = n.sleepy
  BY <1>1, Zenon DEF Nodes
<1>4. Seconds(v) \in Nat
  BY NodeConstants DEF Seconds
<1> HIDE DEF r, stored
<1>5. CASE n.state # "Registered"
  BY <1>1, <1>5, KeepsRefl, Zenon DEF TxPacket, TxPacketAccepts, r
<1>6. CASE n.state = "Registered" /\ n.sleepy
  <2>1. a \in Nodes
    <3>1. Seconds(v) \in Timers
      BY <1>4, Zenon DEF Timers
    <3>. QED
      BY <1>3, <3>1, FieldTypes, Zenon DEF Nodes
  <2>2. /\ a.pend = p /\ a.uuid = n.uuid /\ a.state = "SendPending"
        /\ a.ack = n.ack /\ a.val = Seconds(v) /\ a.sleepy
    BY <1>3, <1>6, <1>9, Zenon DEF Nodes
  <2> HIDE DEF a
  <2>7. a.val # Off
    BY <1>4, <2>2 DEF Off
  <2>3. NodeInv(a) /\ (TimersMatch(n) => TimersMatch(a))
    BY <1>6, <2>1, <2>2, <2>7, Zenon DEF NodeInv, TimersMatch, Busy
  <2>4. q = Then(r, a, {}, {})
    BY <1>6, Zenon DEF TxPacket, TxPacketAccepts, r, stored, a
  <2>5. StepInv(q) /\ q.n = a /\ q.gone = r.gone
    BY <1>1, <2>3, <2>4, ThenStep
  <2>. QED
    BY <1>1, <1>6, <2>2, <2>3, <2>5, Zenon DEF Keeps, Accounted, r
<1>7. CASE n.state = "Registered" /\ ~n.sleepy /\ p.ar
  <2>1. b \in Nodes
    BY <1>3, FieldTypes, Zenon DEF Nodes
  <2>2. /\ b.pend = p /\ b.uuid = n.uuid /\ b.state = "WaitAck"
        /\ b.ack = ACK_TICKS /\ b.val = n.val /\ b.sleepy = n.sleepy
    BY <1>3, <1>9, Zenon DEF Nodes
  <2>3. NodeInv(b) /\ (TimersMatch(n) => TimersMatch(b))
    BY <1>7, <2>1, <2>2, NodeConstants DEF NodeInv, TimersMatch, Busy, Off
  <2>4. q = Then(r, b, {p}, {})
    BY <1>7, Zenon DEF TxPacket, TxPacketAccepts, r, stored
  <2>5. StepInv(q) /\ q.n = b /\ q.gone = r.gone
    BY <1>1, <2>3, <2>4, ThenStep
  <2>. QED
    BY <1>1, <1>7, <2>2, <2>3, <2>5, Zenon DEF Keeps, Accounted, r
<1>8. CASE n.state = "Registered" /\ ~n.sleepy /\ ~p.ar
  <2>1. q = Then(r, n, {p}, {})
    BY <1>8, Zenon DEF TxPacket, TxPacketAccepts, r
  <2>2. StepInv(q) /\ q.n = n /\ q.gone = r.gone
    BY <1>1, <2>1, ThenStep
  <2>. QED
    BY <1>1, <2>2, Zenon DEF Keeps, Accounted, r
<1>. QED
  BY <1>5, <1>6, <1>7, <1>8, Zenon

\* The header a sender builds is a packet.
LEMMA PacketType ==
    ASSUME NEW type \in Types, NEW net \in NetIds, NEW dest \in Addrs, NEW src \in Addrs,
           NEW seq \in Seqs, NEW ar \in BOOLEAN, NEW body \in Bodies
    PROVE  Packet(type, net, dest, src, seq, ar, body) \in Packets
  BY Zenon DEF Packet, Packets

\* tinymac_tx_ack changes the node only as tinymac_tx_pending does.
LEMMA TxAckKeeps ==
    ASSUME NEW r, StepInv(r), NEW net \in NetIds, NEW src \in Addrs, NEW addr \in Addrs,
           NEW seq \in Seqs
    PROVE  Keeps(r, TxAck(r, net, src, addr, seq)) /\ TxAck(r, net, src, addr, seq).gone = r.gone
<1> DEFINE k == Packet("Ack", net, addr, src, seq, FALSE, NoBody)
           ack == [k EXCEPT !.dp = (r.n.state = "SendPending")]
           q == Then(r, r.n, {ack}, {})
<1>1. k \in Packets
  BY PacketType, Zenon DEF Types, Bodies
<1> HIDE DEF k
<1>2. ack \in Packets
  BY <1>1, Zenon DEF Packets
<1>3. r \in Steps /\ NodeInv(r.n)
  BY Zenon DEF StepInv
<1>4. StepInv(q) /\ q.n = r.n /\ q.gone = r.gone
  BY <1>2, <1>3, ThenStep
<1>5. TxAck(r, net, src, addr, seq) = TxPending(q)
  BY Zenon DEF TxAck, k
<1> HIDE DEF q
<1>6. Keeps(q, TxPending(q)) /\ TxPending(q).gone = q.gone
  BY <1>4, TxPendingKeeps, Zenon
<1>. QED
  BY <1>4, <1>5, <1>6, Zenon DEF Keeps, Accounted

\* What tinymac_recv_cb does for a known sender.
LEMMA HeardKeeps ==
    ASSUME NEW n, NodeInv(n), NEW p \in Packets, NEW net \in NetIds, NEW addr \in Addrs
    PROVE  Keeps(Begin(n), Heard(n, p, net, addr)) /\ Heard(n, p, net, addr).gone = FALSE
<1> DEFINE a == [n EXCEPT !.age = 0]
           r == Begin(a)
           q == IF p.ar THEN TxAck(r, net, addr, p.src, p.seq) ELSE r
<1>1. a \in Nodes
  BY Zenon DEF NodeInv, Nodes
<1>2. NodeInv(a) /\ a.uuid = n.uuid /\ a.state = n.state /\ (TimersMatch(n) => TimersMatch(a))
  BY <1>1, Zenon DEF NodeInv, Nodes, TimersMatch, Busy
<1>3. StepInv(r) /\ r.n = a /\ r.gone = FALSE
  BY <1>2, BeginInv, Zenon
<1>4. StepInv(Begin(n)) /\ Begin(n).n = n /\ Begin(n).gone = FALSE
  BY BeginInv, Zenon
<1>5. Keeps(Begin(n), r)
  BY <1>2, <1>3, <1>4, Zenon DEF Keeps, Accounted
<1> HIDE DEF r
<1>6. p.src \in Addrs /\ p.seq \in Seqs
  BY Zenon DEF Packets
<1>7. Keeps(r, q) /\ q.gone = FALSE
  BY <1>3, <1>6, TxAckKeeps, KeepsRefl
<1>8. Heard(n, p, net, addr) = TxPending(q)
  BY Zenon DEF Heard, r
<1> HIDE DEF q
<1>9. StepInv(q)
  BY <1>7, Zenon DEF Keeps
<1>10. Keeps(q, TxPending(q)) /\ TxPending(q).gone = FALSE
  BY <1>7, <1>9, TxPendingKeeps, Zenon
<1>11. Keeps(Begin(n), q)
  BY <1>5, <1>7, KeepsTrans, Zenon
<1>. QED
  BY <1>8, <1>10, <1>11, KeepsTrans, Zenon

----------------------------------------------------------------------------
(* Whom packets are for.  Whatever the environment does, all that a slot   *)
(* keeps and sends is for the slot's own address.                          *)

\* Whether the stored packet may still be sent.
Outstanding(n) == Busy(n) \/ n.ack # Off

\* A piece of a step turning r into q sends nothing but the stored packet.
Carries(r, q) ==
    /\ q.n.pend = r.n.pend
    /\ Outstanding(q.n) => Outstanding(r.n)
    /\ \A p \in q.tx : p \in r.tx \/ (Outstanding(r.n) /\ p = r.n.pend)

\* Pieces one after the other send no more than each of them.
LEMMA CarriesTrans ==
    ASSUME NEW r, NEW q, NEW u, Carries(r, q), Carries(q, u)
    PROVE  Carries(r, u)
  BY Zenon DEF Carries

\* Going on with a node that keeps the stored packet, and sending that packet
\* or nothing.
LEMMA CarriesThen ==
    ASSUME NEW r, NEW a, NEW P, NEW C, a.pend = r.n.pend,
           Outstanding(a) => Outstanding(r.n),
           \A p \in P : Outstanding(r.n) /\ p = r.n.pend
    PROVE  Carries(r, Then(r, a, P, C))
<1>1. Then(r, a, P, C).n = a /\ Then(r, a, P, C).tx = r.tx \cup P
  BY Zenon DEF Then
<1>. QED
  BY <1>1, Zenon DEF Carries

\* tinymac_tx_pending.
LEMMA TxPendingCarries ==
    ASSUME NEW r, StepInv(r)
    PROVE  Carries(r, TxPending(r)) /\ TxPending(r).n.state # "SendPending"
<1> DEFINE n == r.n
           a == [n EXCEPT !.state = "WaitAck", !.ack = ACK_TICKS]
           b == [n EXCEPT !.state = "Registered", !.val = Off]
<1>1. n \in Nodes
  BY Zenon DEF StepInv, NodeInv
<1>2. CASE n.state # "SendPending"
  BY <1>2, Zenon DEF TxPending, Carries
<1>3. CASE n.state = "SendPending" /\ n.pend.ar
  <2>1. TxPending(r) = Then(r, a, {n.pend}, {})
    BY <1>3, Zenon DEF TxPending
  <2>2. a.pend = n.pend /\ a.state = "WaitAck"
    BY <1>1, Zenon DEF Nodes
  <2>3. Outstanding(n)
    BY <1>3, Zenon DEF Outstanding, Busy
  <2> HIDE DEF a
  <2>4. Then(r, a, {n.pend}, {}).n = a
    BY Zenon DEF Then
  <2>. QED
    BY <2>1, <2>2, <2>3, <2>4, CarriesThen, Zenon
<1>4. CASE n.state = "SendPending" /\ ~n.pend.ar
  <2>1. TxPending(r) = Then(r, b, {n.pend}, Invoke(n, 0))
    BY <1>4, Zenon DEF TxPending
  <2>2. b.pend = n.pend /\ b.state = "Registered"
    BY <1>1, Zenon DEF Nodes
  <2>3. Outstanding(n)
    BY <1>4, Zenon DEF Outstanding, Busy
  <2> HIDE DEF b
  <2>4. Then(r, b, {n.pend}, Invoke(n, 0)).n = b
    BY Zenon DEF Then
  <2>. QED
    BY <2>1, <2>2, <2>3, <2>4, CarriesThen, Zenon
<1>. QED
  BY <1>2, <1>3, <1>4, Zenon

\* The acknowledgement case of tinymac_recv_cb.
LEMMA RxAckCarries ==
    ASSUME NEW r, StepInv(r), NEW seq
    PROVE  Carries(r, RxAck(r, seq))
<1> DEFINE n == r.n
           a == [n EXCEPT !.state = "Registered", !.ack = Off, !.val = Off]
<1>1. a.pend = n.pend /\ a.state = "Registered" /\ a.ack = Off
  BY Zenon DEF StepInv, NodeInv, Nodes
<1>2. ~Outstanding(a)
  BY <1>1, Zenon DEF Outstanding, Busy
<1>3. CASE ~(n.state = "WaitAck" /\ seq = n.pend.seq)
  BY <1>3, Zenon DEF RxAck, Carries
<1>4. CASE n.state = "WaitAck" /\ seq = n.pend.seq
  <2>1. RxAck(r, seq) = Then(r, a, {}, Invoke(n, 0))
    BY <1>4, Zenon DEF RxAck
  <2> HIDE DEF a
  <2>. QED
    BY <1>1, <1>2, <2>1, CarriesThen, Zenon
<1>. QED
  BY <1>3, <1>4, Zenon

\* tinymac_deregister_node sends nothing.
LEMMA DeregisterCarries ==
    ASSUME NEW r, r.n \in Nodes
    PROVE  Carries(r, Deregister(r))
<1> DEFINE a == [r.n EXCEPT !.state = "Unregistered"]
<1>1. a.pend = r.n.pend /\ a.state = "Unregistered" /\ a.ack = r.n.ack
  BY Zenon DEF Nodes
<1>2. Deregister(r).n = a /\ Deregister(r).tx = r.tx
  BY Zenon DEF Deregister
<1> HIDE DEF a
<1>. QED
  BY <1>1, <1>2, Zenon DEF Carries, Outstanding, Busy

\* tinymac_ack_timeout, when due.
LEMMA DespatchAckCarries ==
    ASSUME NEW r, StepInv(r)
    PROVE  Carries(r, DespatchAck(r))
<1> DEFINE n == [r.n EXCEPT !.ack = Off]
           a == [n EXCEPT !.retries = @ - 1, !.state = "SendPending"]
           b == [n EXCEPT !.retries = @ - 1, !.ack = ACK_TICKS]
           c == [n EXCEPT !.retries = 255, !.val = Off]
           q == DespatchAck(r)
<1>1. r.n \in Nodes
  BY Zenon DEF StepInv, NodeInv
<1>2. n \in Nodes /\ n.pend = r.n.pend /\ n.ack = Off /\ n.state = r.n.state
  BY <1>1 DEF Nodes, Timers
<1>3. a.pend = n.pend /\ b.pend = n.pend /\ c.pend = n.pend /\ c.ack = Off /\ c.state = n.state
  BY <1>2, Zenon DEF Nodes
<1>4. c \in Nodes
  BY <1>2, AckTimeoutNodes, Zenon
<1>5. CASE r.n.ack # 0
  BY <1>5, Zenon DEF DespatchAck, Carries
<1>6. CASE r.n.ack = 0
  <2>1. Outstanding(r.n)
    BY <1>6 DEF Outstanding, Off
  <2>2. q = AckTimeout(r)
    BY <1>6, Zenon DEF DespatchAck
  <2>3. CASE n.retries # 0 /\ n.sleepy
    <3>1. q = Then(r, a, {}, {})
      BY <2>2, <2>3, Zenon DEF AckTimeout
    <3> HIDE DEF a
    <3>. QED
      BY <1>2, <1>3, <2>1, <3>1, CarriesThen, Zenon
  <2>4. CASE n.retries # 0 /\ ~n.sleepy
    <3>1. q = Then(r, b, {n.pend}, {})
      BY <2>2, <2>4, Zenon DEF AckTimeout
    <3> HIDE DEF b
    <3>. QED
      BY <1>2, <1>3, <2>1, <3>1, CarriesThen, Zenon
  <2>5. CASE n.retries = 0
    <3> DEFINE u == Then(r, c, {}, Invoke(n, -1))
    <3>1. q = Deregister(u)
      BY <2>2, <2>5, Zenon DEF AckTimeout
    <3> HIDE DEF c
    <3>2. Carries(r, u)
      BY <1>2, <1>3, <2>1, CarriesThen, Zenon
    <3>3. u.n = c
      BY Zenon DEF Then
    <3> HIDE DEF u
    <3>. QED
      BY <1>4, <3>1, <3>2, <3>3, DeregisterCarries, CarriesTrans, Zenon
  <2>. QED
    BY <2>3, <2>4, <2>5, Zenon
<1>. QED
  BY <1>5, <1>6, Zenon

\* tinymac_validity_timeout, when due.
LEMMA DespatchValidityCarries ==
    ASSUME NEW r, StepInv(r)
    PROVE  Carries(r, DespatchValidity(r))
<1> DEFINE a == [r.n EXCEPT !.val = Off, !.state = "Registered", !.ack = Off]
<1>1. a.pend = r.n.pend /\ a.state = "Registered" /\ a.ack = Off
  BY Zenon DEF StepInv, NodeInv, Nodes
<1>2. ~Outstanding(a)
  BY <1>1, Zenon DEF Outstanding, Busy
<1>3. CASE r.n.val # 0
  BY <1>3, Zenon DEF DespatchValidity, Carries
<1>4. CASE r.n.val = 0
  <2>1. DespatchValidity(r) = Then(r, a, {}, Invoke(r.n, -1))
    BY <1>4, Zenon DEF DespatchValidity, ValidityTimeout
  <2> HIDE DEF a
  <2>. QED
    BY <1>1, <1>2, <2>1, CarriesThen, Zenon
<1>. QED
  BY <1>3, <1>4, Zenon

\* The clock.
LEMMA AdvanceClockCarries ==
    ASSUME NEW r, StepInv(r)
    PROVE  Carries(r, AdvanceClock(r))
<1> DEFINE n == r.n
           age == IF n.age < HeartbeatLimit(n) THEN n.age + 1 ELSE n.age
           a == [n EXCEPT !.ack = Elapse(n.ack), !.val = Elapse(n.val), !.age = age]
<1> HIDE DEF age
<1>1. a.pend = n.pend /\ a.state = n.state /\ a.ack = Elapse(n.ack)
  BY Zenon DEF StepInv, NodeInv, Nodes
<1>2. Outstanding(a) => Outstanding(n)
  BY <1>1, Zenon DEF Outstanding, Busy, Elapse
<1>3. AdvanceClock(r) = Then(r, a, {}, {})
  BY Zenon DEF AdvanceClock, age
<1> HIDE DEF a
<1>. QED
  BY <1>1, <1>2, <1>3, CarriesThen, Zenon

\* A node's share of the tick.
LEMMA NodeTickCarries ==
    ASSUME NEW n, NodeInv(n)
    PROVE  Carries(Begin(n), NodeTick(n))
<1> DEFINE r0 == Begin(n)
           r1 == CheckHeartbeat(r0)
           r2 == DespatchAck(r1)
           r3 == DespatchValidity(r2)
           r4 == AdvanceClock(r3)
<1>1. StepInv(r0)
  BY BeginInv, Zenon
<1>2. Carries(r0, r1) /\ StepInv(r1)
  <2>1. StepInv(r1)
    BY <1>1, CheckHeartbeatKeeps, Zenon DEF Keeps
  <2>2. r0.n \in Nodes
    BY <1>1, Zenon DEF StepInv, NodeInv
  <2> HIDE DEF r0
  <2>3. Carries(r0, r0)
    BY Zenon DEF Carries
  <2>. QED
    BY <2>1, <2>2, <2>3, DeregisterCarries, Zenon DEF CheckHeartbeat
<1>3. Carries(r1, r2) /\ StepInv(r2) /\ r2.n.ack # 0
  BY <1>2, DespatchAckCarries, DespatchAckKeeps, Zenon DEF Keeps
<1>4. Carries(r2, r3) /\ StepInv(r3)
  BY <1>3, DespatchValidityCarries, DespatchValidityKeeps, Zenon DEF Keeps
<1>5. Carries(r3, r4)
  BY <1>4, AdvanceClockCarries, Zenon
<1>6. NodeTick(n) = r4
  BY Zenon DEF NodeTick
<1> HIDE DEF r1, r2, r3, r4
<1>7. Carries(r0, r2)
  BY <1>2, <1>3, CarriesTrans, Zenon
<1>8. Carries(r0, r3)
  BY <1>4, <1>7, CarriesTrans, Zenon
<1>. QED
  BY <1>5, <1>6, <1>8, CarriesTrans, Zenon

\* What slot s stores for sending is for address s.
Mail(n, s) == Outstanding(n) => n.pend.dest = s /\ n.pend.type # "Ack"

\* A step of slot s without acknowledgements, ...
Plain(r, s) == Mail(r.n, s) /\ \A p \in r.tx : p.dest = s /\ p.type # "Ack"

\* ... and one whose acknowledgements tell the truth.
Honest(r, s) ==
    /\ Mail(r.n, s)
    /\ \A p \in r.tx : p.dest = s
    /\ \A p \in r.tx : p.type = "Ack" => (p.dp <=> \E q \in r.tx : q.type # "Ack")

\* Carrying packets sends no acknowledgement.
LEMMA CarriesPlain ==
    ASSUME NEW r, NEW q, NEW s, Plain(r, s), Carries(r, q)
    PROVE  Plain(q, s) /\ Honest(q, s)
  BY Zenon DEF Plain, Honest, Mail, Carries

\* What tinymac_tx_pending puts on the air.
LEMMA TxPendingSends ==
    ASSUME NEW r
    PROVE  /\ r.n.state = "SendPending" => TxPending(r).tx = r.tx \cup {r.n.pend}
           /\ r.n.state # "SendPending" => TxPending(r) = r
<1>1. CASE r.n.state # "SendPending"
  BY <1>1, Zenon DEF TxPending
<1>2. ASSUME NEW a, NEW P, NEW C PROVE Then(r, a, P, C).tx = r.tx \cup P
  BY Zenon DEF Then
<1>3. CASE r.n.state = "SendPending" /\ r.n.pend.ar
  BY <1>2, <1>3 DEF TxPending
<1>4. CASE r.n.state = "SendPending" /\ ~r.n.pend.ar
  BY <1>2, <1>4 DEF TxPending
<1>. QED
  BY <1>1, <1>3, <1>4, Zenon

\* tinymac_recv_cb for a known sender: the data pending flag of the
\* acknowledgement is set exactly when the deferred packet follows it.
LEMMA HeardHonest ==
    ASSUME NEW n, NodeInv(n), NEW s, Mail(n, s), NEW p \in Packets, p.src = s, NEW net \in NetIds,
           NEW addr \in Addrs
    PROVE  /\ Honest(Heard(n, p, net, addr), s)
           /\ ~p.ar => Plain(Heard(n, p, net, addr), s)
<1> DEFINE a == [n EXCEPT !.age = 0]
           r == Begin(a)
<1>1. a \in Nodes /\ a.state = n.state /\ a.pend = n.pend /\ a.ack = n.ack
  BY ZenonT(30) DEF NodeInv, Nodes
<1>2. NodeInv(a) /\ Mail(a, s)
  BY <1>1, Zenon DEF NodeInv, Mail, Outstanding, Busy
<1> HIDE DEF a
<1>3. StepInv(r) /\ r.n = a /\ r.tx = {}
  BY <1>2, BeginInv, Zenon DEF Begin
<1> HIDE DEF r
<1>4. Plain(r, s)
  BY <1>2, <1>3, Zenon DEF Plain
<1>5. CASE ~p.ar
  <2>1. Heard(n, p, net, addr) = TxPending(r)
    BY <1>5, Zenon DEF Heard, r, a
  <2>. QED
    BY <1>3, <1>4, <2>1, TxPendingCarries, CarriesPlain, Zenon
<1>6. CASE p.ar
  <2> DEFINE k == Packet("Ack", net, p.src, addr, p.seq, FALSE, NoBody)
             ack == [k EXCEPT !.dp = (r.n.state = "SendPending")]
             u == Then(r, r.n, {ack}, {})
             v == TxPending(u)
  <2>1. k \in Packets
    <3>1. p.src \in Addrs /\ p.seq \in Seqs
      BY Zenon DEF Packets
    <3>. QED
      BY <3>1, PacketType, Zenon DEF Types, Bodies
  <2>2. k.dest = s /\ k.type = "Ack"
    BY Zenon DEF Packet
  <2> HIDE DEF k
  <2>3. /\ ack \in Packets /\ ack.dest = s /\ ack.type = "Ack"
        /\ ack.dp <=> r.n.state = "SendPending"
    BY <2>1, <2>2, Zenon DEF Packets
  <2>4. Heard(n, p, net, addr) = TxPending(v)
    BY <1>6, Zenon DEF Heard, TxAck, k, r, a
  <2> HIDE DEF ack
  <2>5. StepInv(u) /\ u.n = a /\ u.tx = {ack}
    BY <1>2, <1>3, <2>3, ThenStep, Zenon DEF Then, StepInv
  <2> HIDE DEF u
  <2>6. Carries(u, v) /\ v.n.state # "SendPending"
    BY <2>5, TxPendingCarries, Zenon
  <2>7. Heard(n, p, net, addr) = v
    BY <2>4, <2>6, TxPendingSends, Zenon
  <2>8. Mail(v.n, s)
    BY <1>2, <2>5, <2>6, Zenon DEF Carries, Mail
  <2>9. CASE a.state = "SendPending"
    <3>1. v.tx = {ack, a.pend}
      BY <2>5, <2>9, TxPendingSends, Zenon
    <3>2. a.pend.dest = s /\ a.pend.type # "Ack" /\ ack.dp
      BY <1>2, <1>3, <2>3, <2>9, Zenon DEF Mail, Outstanding, Busy
    <3> HIDE DEF v
    <3>. QED
      BY <1>6, <2>3, <2>7, <2>8, <3>1, <3>2, Zenon DEF Honest
  <2>10. CASE a.state # "SendPending"
    <3>1. v.tx = {ack} /\ ~ack.dp
      BY <1>3, <2>3, <2>5, <2>10, TxPendingSends, Zenon
    <3> HIDE DEF v
    <3>. QED
      BY <1>6, <2>3, <2>7, <2>8, <3>1, Zenon DEF Honest
  <2>. QED
    BY <2>9, <2>10, Zenon
<1>. QED
  BY <1>5, <1>6, Zenon

\* What comes of a packet for an idle peer: sent and forgotten, kept until the
\* peer is heard, or sent and kept until it is acknowledged.
Takes(n, r, p, m) ==
    \/ ~n.sleepy /\ ~p.ar /\ r.n = n /\ r.tx = {p}
    \/ /\ r.n.cb = m /\ r.n.pend = p /\ r.n.retries = MAX_RETRIES
       /\ \/ n.sleepy /\ r.n.state = "SendPending" /\ r.tx = {}
          \/ ~n.sleepy /\ p.ar /\ r.n.state = "WaitAck" /\ r.tx = {p}

\* tinymac_tx_packet does one of the three.
LEMMA TxPacketTakes ==
    ASSUME NEW n \in Nodes, n.state = "Registered", NEW p, NEW v, NEW m
    PROVE  Takes(n, TxPacket(n, p, v, m), p, m)
<1> DEFINE r == TxPacket(n, p, v, m)
           t == [n EXCEPT !.pend = p, !.cb = m, !.retries = MAX_RETRIES]
           a == [t EXCEPT !.state = "SendPending", !.val = Seconds(v)]
           b == [t EXCEPT !.state = "WaitAck", !.ack = ACK_TICKS]
<1>1. /\ a.cb = m /\ a.pend = p /\ a.retries = MAX_RETRIES /\ a.state = "SendPending"
      /\ b.cb = m /\ b.pend = p /\ b.retries = MAX_RETRIES /\ b.state = "WaitAck"
  BY Zenon DEF Nodes
<1>2. /\ n.sleepy => r = Then(Begin(n), a, {}, {})
      /\ ~n.sleepy /\ p.ar => r = Then(Begin(n), b, {p}, {})
      /\ ~n.sleepy /\ ~p.ar => r = Then(Begin(n), n, {p}, {})
  BY Zenon DEF TxPacket, TxPacketAccepts
<1> HIDE DEF a, b, r
<1>4. CASE n.sleepy
  <2>1. r.n = a /\ r.tx = {}
    BY <1>2, <1>4 DEF Then, Begin
  <2>. QED
    BY <1>1, <1>4, <2>1, Zenon DEF r, Takes
<1>5. CASE ~n.sleepy /\ p.ar
  <2>1. r.n = b /\ r.tx = {p}
    BY <1>2, <1>5 DEF Then, Begin
  <2>. QED
    BY <1>1, <1>5, <2>1, Zenon DEF r, Takes
<1>6. CASE ~n.sleepy /\ ~p.ar
  <2>1. r.n = n /\ r.tx = {p}
    BY <1>2, <1>6 DEF Then, Begin
  <2>. QED
    BY <1>6, <2>1, Zenon DEF r, Takes
<1>. QED
  BY <1>4, <1>5, <1>6, Zenon

\* tinymac_tx_packet for the slot's own address.
LEMMA TxPacketPlain ==
    ASSUME NEW n \in Nodes, NEW s, Mail(n, s), NEW p, p.dest = s, p.type # "Ack", NEW v, NEW m
    PROVE  Plain(TxPacket(n, p, v, m), s)
<1> DEFINE r == TxPacket(n, p, v, m)
<1>1. CASE n.state # "Registered"
  <2>1. r = Begin(n)
    BY <1>1, Zenon DEF TxPacket, TxPacketAccepts
  <2>. QED
    BY <2>1 DEF Begin, Plain
<1>2. CASE n.state = "Registered"
  <2>1. Takes(n, r, p, m)
    BY <1>2, TxPacketTakes, Zenon
  <2> HIDE DEF r
  <2>2. Plain(r, s)
    BY <2>1, Zenon DEF Takes, Plain, Mail
  <2>. QED
    BY <2>2, Zenon DEF r
<1>. QED
  BY <1>1, <1>2, Zenon
=============================================================================
