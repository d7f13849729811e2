------------------------ MODULE CoordDeliveryProofs ------------------------
(***************************************************************************)
(* Proofs about what the coordinator does with the packets it has taken:   *)
(* no retry too many, no callback too many or too early, and, all in all,  *)
(* the service the application relies on (MacService).                     *)
(***************************************************************************)
EXTENDS CoordRefinement, TinyMacCoordProofs

----------------------------------------------------------------------------
(* One node.  m is in flight for n when n is busy and m is its callback.   *)

\* The stored packet is the one whose callback is stored.
Loaded(n) == Busy(n) => n.cb \in Msgs /\ n.pend.body = n.cb /\ n.retries <= MAX_RETRIES

\* Transmissions left.
Tries(n) == n.retries + (IF n.state = "SendPending" THEN 1 ELSE 0)

\* Whether the step has sent something of the application's.
Sent(r) == \E p \in r.tx : p.body \in Msgs

Count(r) == IF Sent(r) THEN 1 ELSE 0

\* The four things a step r of a node n may come to: nothing was in flight, ...
Vacant(n, r) ==
    /\ ~Busy(n) /\ ~Busy(r.n) /\ r.cb = {} /\ ~Sent(r)
    /\ r.gone => n.state # "Unregistered"

\* ... what was in flight still is, ...
Held(n, r) ==
    /\ Busy(n) /\ Busy(r.n) /\ r.n.cb = n.cb /\ r.n.pend = n.pend
    /\ r.cb = {} /\ r.gone = FALSE
    /\ r.n.retries <= MAX_RETRIES
    /\ Tries(r.n) + Count(r) = Tries(n)
    /\ r.n.state = "WaitAck" => Sent(r) \/ n.state = "WaitAck"
    /\ Sent(r) => r.n.state = "WaitAck"

\* ... it has been delivered, ...
Delivered(n, r) ==
    /\ Busy(n) /\ ~Busy(r.n) /\ r.cb = {<<n.cb, 0>>} /\ r.gone = FALSE
    /\ Sent(r) \/ n.state = "WaitAck"
    /\ Count(r) <= Tries(n)

\* ... or it has failed, for one of the two reasons there are.
Failed(n, r) ==
    /\ Busy(n) /\ ~Busy(r.n) /\ r.cb = {<<n.cb, -1>>} /\ ~Sent(r)
    /\ (n.state = "WaitAck" /\ n.retries = 0) \/ (n.sleepy /\ n.val = 0)

Fate(n, r) ==
    /\ \A p \in r.tx : p.body \in Msgs => Busy(n) /\ p.body = n.cb
    /\ Vacant(n, r) \/ Held(n, r) \/ Delivered(n, r) \/ Failed(n, r)

\* The retries are numbers.
LEMMA RetryTypes ==
    /\ MAX_RETRIES \in Nat
    /\ MAX_RETRIES <= MAX_RETRIES
    /\ NoMsg \notin Msgs
    /\ \A n \in Nodes : n.retries \in Nat /\ Tries(n) \in Nat
    /\ \A r : Count(r) \in Nat
<1>1. MAX_RETRIES \in Nat /\ MAX_RETRIES <= MAX_RETRIES /\ NoMsg \notin Msgs
  BY NodeConstants
<1>2. \A n \in Nodes : n.retries \in 0 .. 255
  BY Zenon DEF Nodes
<1>3. \A k \in 0 .. 255 : k \in Nat /\ k + 0 \in Nat /\ k + 1 \in Nat
  OBVIOUS
<1>4. \A n \in Nodes : Tries(n) \in Nat
  BY <1>2, <1>3, Zenon DEF Tries
<1>5. \A r : Count(r) \in Nat
  BY DEF Count
<1>. QED
  BY <1>1, <1>2, <1>3, <1>4, <1>5, Zenon

\* Nothing has come of a step that has not begun.
LEMMA BeginFate ==
    ASSUME NEW n \in Nodes, Loaded(n), NEW a \in Nodes, a.state = n.state, a.cb = n.cb,
           a.pend = n.pend, a.retries = n.retries
    PROVE  Fate(n, Begin(a)) /\ Begin(a).n = a /\ Begin(a).tx = {}
<1> DEFINE r == Begin(a)
<1>1. r.n = a /\ r.tx = {} /\ r.cb = {} /\ r.gone = FALSE
  BY Zenon DEF Begin
<1> HIDE DEF r
<1>2. ~Sent(r) /\ Count(r) = 0
  BY <1>1, Zenon DEF Sent, Count
<1>3. Tries(n) \in Int /\ Tries(a) = Tries(n)
  BY DEF Tries, Nodes
<1>4. CASE Busy(n)
  <2>1. Busy(a)
    BY <1>4, Zenon DEF Busy
  <2>2. Held(n, r)
    BY <1>1, <1>2, <1>3, <1>4, <2>1 DEF Held, Loaded
  <2>. QED
    BY <1>1, <2>2, Zenon DEF Fate, r
<1>5. CASE ~Busy(n)
  <2>1. Vacant(n, r)
    BY <1>1, <1>2, <1>5, Zenon DEF Vacant, Busy
  <2>. QED
    BY <1>1, <2>1, Zenon DEF Fate, r
<1>. QED
  BY <1>4, <1>5, Zenon

\* tinymac_tx_pending uses up one try, or delivers what asks for no
\* acknowledgement.
LEMMA TxPendingFate ==
    ASSUME NEW n \in Nodes, Loaded(n), NEW r, StepInv(r), Fate(n, r)
    PROVE  Fate(n, TxPending(r))
<1> DEFINE o == r.n
           a == [o EXCEPT !.state = "WaitAck", !.ack = ACK_TICKS]
           b == [o EXCEPT !.state = "Registered", !.val = Off]
           q == TxPending(r)
<1>1. r \in Steps /\ o \in Nodes
  BY Zenon DEF StepInv, NodeInv
<1>2. CASE o.state # "SendPending"
  BY <1>2, Zenon DEF TxPending
<1>3. CASE o.state = "SendPending"
  <2>1. Busy(o) /\ Held(n, r)
    BY <1>3, Zenon DEF Fate, Vacant, Delivered, Failed, Busy
  <2>2. /\ Busy(n) /\ o.cb = n.cb /\ o.pend = n.pend /\ r.cb = {} /\ r.gone = FALSE
        /\ o.retries <= MAX_RETRIES /\ ~Sent(r) /\ Count(r) = 0
    BY <1>3, <2>1, Zenon DEF Held, Count
  <2>3. n.cb \in Msgs /\ n.pend.body = n.cb /\ n.cb # NoMsg
    BY <2>2, NodeConstants DEF Loaded
  <2>4. Tries(o) = o.retries + 1 /\ Tries(n) = o.retries + 1 /\ o.retries \in Nat
    BY <1>1, <1>3, <2>1, <2>2 DEF Held, Tries, Nodes
  <2>5. /\ a.state = "WaitAck" /\ a.cb = o.cb /\ a.pend = o.pend /\ a.retries = o.retries
        /\ b.state = "Registered"
    BY <1>1, Zenon DEF Nodes
  <2>6. CASE o.pend.ar
    <3>1. q = Then(r, a, {o.pend}, {})
      BY <1>3, <2>6, Zenon DEF TxPending
    <3> HIDE DEF a, o, q
    <3>2. q.n = a /\ q.tx = r.tx \cup {o.pend} /\ q.cb = {} /\ q.gone = FALSE
      BY <2>2, <3>1, Zenon DEF Then
    <3>3. Sent(q) /\ Count(q) = 1
      BY <2>2, <2>3, <3>2, Zenon DEF Sent, Count
    <3>4. Busy(q.n) /\ Tries(q.n) = o.retries
      BY <2>4, <2>5, <3>2 DEF Busy, Tries
    <3>5. Held(n, q)
      BY <2>2, <2>4, <2>5, <3>2, <3>3, <3>4, Zenon DEF Held
    <3>6. \A p \in q.tx : p.body \in Msgs => Busy(n) /\ p.body = n.cb
      BY <2>2, <2>3, <3>2, Zenon DEF Fate
    <3>. QED
      BY <3>5, <3>6, Zenon DEF Fate, q
  <2>7. CASE ~o.pend.ar
    <3>1. q = Then(r, b, {o.pend}, Invoke(o, 0))
      BY <1>3, <2>7, Zenon DEF TxPending
    <3> HIDE DEF b, o, q
    <3>2. q.n = b /\ q.tx = r.tx \cup {o.pend} /\ q.cb = {<<n.cb, 0>>} /\ q.gone = FALSE
      BY <2>2, <2>3, <3>1, Zenon DEF Then, Invoke
    <3>3. Sent(q) /\ Count(q) = 1
      BY <2>2, <2>3, <3>2, Zenon DEF Sent, Count
    <3>4. ~Busy(q.n)
      BY <2>5, <3>2, Zenon DEF Busy
    <3>5. Delivered(n, q)
      BY <2>2, <2>4, <3>2, <3>3, <3>4 DEF Delivered
    <3>6. \A p \in q.tx : p.body \in Msgs => Busy(n) /\ p.body = n.cb
      BY <2>2, <2>3, <3>2, Zenon DEF Fate
    <3>. QED
      BY <3>5, <3>6, Zenon DEF Fate, q
  <2>. QED
    BY <2>6, <2>7, Zenon
<1>. QED
  BY <1>2, <1>3, Zenon

\* An acknowledgement completes what has been sent, and nothing else.
LEMMA RxAckFate ==
    ASSUME NEW n \in Nodes, Loaded(n), NEW r, StepInv(r), Fate(n, r), NEW seq
    PROVE  Fate(n, RxAck(r, seq))
<1> DEFINE o == r.n
           a == [o EXCEPT !.state = "Registered", !.ack = Off, !.val = Off]
           q == RxAck(r, seq)
<1>1. r \in Steps /\ o \in Nodes
  BY Zenon DEF StepInv, NodeInv
<1>2. CASE ~(o.state = "WaitAck" /\ seq = o.pend.seq)
  BY <1>2, Zenon DEF RxAck
<1>3. CASE o.state = "WaitAck" /\ seq = o.pend.seq
  <2>1. Busy(o) /\ Held(n, r)
    BY <1>3, Zenon DEF Fate, Vacant, Delivered, Failed, Busy
  <2>2. /\ Busy(n) /\ o.cb = n.cb /\ r.cb = {} /\ r.gone = FALSE
        /\ Sent(r) \/ n.state = "WaitAck"
    BY <1>3, <2>1, Zenon DEF Held
  <2>3. n.cb # NoMsg
    BY <2>2, NodeConstants, Zenon DEF Loaded
  <2>4. Count(r) <= Tries(n)
    BY <1>1, <1>3, <2>1 DEF Held, Tries, Count, Nodes
  <2>5. a.state = "Registered"
    BY <1>1, Zenon DEF Nodes
  <2>6. q = Then(r, a, {}, Invoke(o, 0))
    BY <1>3, Zenon DEF RxAck
  <2> HIDE DEF a, o, q
  <2>7. q.n = a /\ q.tx = r.tx /\ q.cb = {<<n.cb, 0>>} /\ q.gone = FALSE
    BY <2>2, <2>3, <2>6, Zenon DEF Then, Invoke
  <2>8. (Sent(q) <=> Sent(r)) /\ Count(q) = Count(r) /\ ~Busy(q.n)
    BY <2>5, <2>7, Zenon DEF Sent, Count, Busy
  <2>9. Delivered(n, q)
    BY <2>2, <2>4, <2>7, <2>8, Zenon DEF Delivered
  <2>. QED
    BY <2>7, <2>9, Zenon DEF Fate, q
<1>. QED
  BY <1>2, <1>3, Zenon

\* tinymac_tx_ack adds an acknowledgement, which carries no message.
LEMMA TxAckFate ==
    ASSUME NEW n \in Nodes, Loaded(n), NEW r, StepInv(r), Fate(n, r),
           NEW net \in NetIds, NEW src \in Addrs, NEW addr \in Addrs, NEW seq \in Seqs
    PROVE  Fate(n, TxAck(r, net, src, addr, seq))
<1> DEFINE k == Packet("Ack", net, addr, src, seq, FALSE, NoBody)
           ack == [k EXCEPT !.dp = (r.n.state = "SendPending")]
           q == Then(r, r.n, {ack}, {})
<1>1. k \in Packets /\ k.body = NoBody
  <2>1. "Ack" \in Types /\ NoBody \in Bodies /\ FALSE \in BOOLEAN
    BY Zenon DEF Types, Bodies
  <2>2. k \in Packets
    BY <2>1, PacketType, Zenon
  <2>. QED
    BY <2>2, Zenon DEF Packet
<1>2. (r.n.state = "SendPending") \in BOOLEAN
  BY Zenon
<1> HIDE DEF k
<1>3. ack \in Packets /\ ack.body = NoBody
  BY <1>1, <1>2, Zenon DEF Packets
<1>4. TxAck(r, net, src, addr, seq) = TxPending(q)
  BY Zenon DEF TxAck, k
<1> HIDE DEF ack
<1>5. StepInv(q) /\ q.n = r.n
  <2>1. r \in Steps /\ NodeInv(r.n) /\ {ack} \in SUBSET Packets /\ {} \in SUBSET Calls
    BY <1>3, Zenon DEF StepInv
  <2>. QED
    BY <2>1, ThenStep, Zenon
<1>6. q.tx = r.tx \cup {ack} /\ q.cb = r.cb /\ q.gone = r.gone
  BY Zenon DEF Then
<1> HIDE DEF q
<1>7. NoBody \notin Msgs
  BY MessagesAreData, Zenon
<1>8. (Sent(q) <=> Sent(r)) /\ Count(q) = Count(r)
  BY <1>3, <1>6, <1>7, Zenon DEF Sent, Count
<1>9. Fate(n, q)
  BY <1>3, <1>5, <1>6, <1>7, <1>8, Zenon DEF Fate, Vacant, Held, Delivered, Failed
<1>. QED
  BY <1>4, <1>5, <1>9, TxPendingFate, Zenon

\* Hearing from a node releases what is held for it, once.
LEMMA HeardFate ==
    ASSUME NEW n, NodeInv(n), Loaded(n), NEW p \in Packets, NEW net \in NetIds, NEW addr \in Addrs
    PROVE  Fate(n, Heard(n, p, net, addr))
<1> DEFINE a == [n EXCEPT !.age = 0]
           r == Begin(a)
           q == IF p.ar THEN TxAck(r, net, addr, p.src, p.seq) ELSE r
<1>1. n \in Nodes /\ a \in Nodes /\ NodeInv(a)
  BY DEF NodeInv, Nodes, Busy
<1>2. a.state = n.state /\ a.cb = n.cb /\ a.pend = n.pend /\ a.retries = n.retries
  BY <1>1, Zenon DEF Nodes
<1>3. Heard(n, p, net, addr) = TxPending(q)
  BY Zenon DEF Heard
<1> HIDE DEF a
<1>4. Fate(n, r) /\ StepInv(r)
  BY <1>1, <1>2, BeginFate, BeginInv, Zenon
<1> HIDE DEF r
<1>5. p.src \in Addrs /\ p.seq \in Seqs
  BY Zenon DEF Packets
<1>6. Fate(n, q) /\ StepInv(q)
  BY <1>1, <1>4, <1>5, TxAckFate, TxAckKeeps, Zenon DEF Keeps
<1> HIDE DEF q
<1>. QED
  BY <1>1, <1>3, <1>6, TxPendingFate, Zenon

\* A node that lapses has nothing in flight.
LEMMA CheckHeartbeatFate ==
    ASSUME NEW n, NodeInv(n), Loaded(n)
    PROVE  LET r == CheckHeartbeat(Begin(n)) IN
           Fate(n, r) /\ r.tx = {} /\ (Busy(n) => r.n = n)
<1> DEFINE b == Begin(n)
           r == CheckHeartbeat(b)
<1>1. n \in Nodes
  BY Zenon DEF NodeInv
<1>2. Fate(n, b) /\ b.n = n /\ b.tx = {} /\ b.cb = {}
  BY <1>1, BeginFate, Zenon DEF Begin
<1> HIDE DEF b
<1>3. CASE ~(b.n.state = "Registered" /\ b.n.age >= HeartbeatLimit(b.n))
  BY <1>2, <1>3, Zenon DEF CheckHeartbeat, b
<1>4. CASE b.n.state = "Registered" /\ b.n.age >= HeartbeatLimit(b.n)
  <2>1. r = Deregister(b)
    BY <1>4, Zenon DEF CheckHeartbeat
  <2>2. r.n = [b.n EXCEPT !.state = "Unregistered"] /\ r.tx = b.tx /\ r.cb = b.cb
    BY <2>1 DEF Deregister
  <2>3. r.n.state = "Unregistered"
    BY <1>1, <1>2, <2>2, Zenon DEF Nodes
  <2> HIDE DEF r
  <2>4. ~Busy(n) /\ ~Busy(r.n) /\ ~Sent(r)
    BY <1>2, <1>4, <2>2, <2>3, Zenon DEF Busy, Sent
  <2>5. Vacant(n, r)
    BY <1>2, <1>4, <2>2, <2>4, Zenon DEF Vacant
  <2>. QED
    BY <1>2, <2>2, <2>4, <2>5, Zenon DEF Fate, r, b
<1>. QED
  BY <1>3, <1>4, Zenon

\* tinymac_ack_timeout defers the packet, sends it again and uses up a try, or
\* gives it up when none is left.
LEMMA DespatchAckFate ==
    ASSUME NEW n \in Nodes, Loaded(n), TimersMatch(n), NEW r, StepInv(r), TimersMatch(r.n),
           Fate(n, r), r.tx = {}, Busy(n) => r.n = n
    PROVE  LET q == DespatchAck(r) IN
           Fate(n, q) /\ (Busy(q.n) => q.n.val = n.val /\ (n.val # Off => n.sleepy /\ ~Sent(q)))
<1> DEFINE o == r.n
           c == [o EXCEPT !.ack = Off]
           d == [c EXCEPT !.retries = @ - 1, !.state = "SendPending"]
           e == [c EXCEPT !.retries = @ - 1, !.ack = ACK_TICKS]
           f == [c EXCEPT !.retries = 255, !.val = Off]
           q == DespatchAck(r)
<1>1. r \in Steps /\ o \in Nodes
  BY Zenon DEF StepInv, NodeInv
<1>2. ~Sent(r)
  BY Zenon DEF Sent
<1>3. Busy(n) /\ n.val # Off => n.sleepy
  BY Zenon DEF TimersMatch, Busy
<1>4. CASE o.ack # 0
  <2>1. q = r
    BY <1>4, Zenon DEF DespatchAck
  <2>2. Busy(o) => Busy(n)
    BY Zenon DEF Fate, Vacant, Held, Delivered, Failed
  <2>. QED
    BY <1>2, <1>3, <2>1, <2>2, Zenon
<1>5. CASE o.ack = 0
  <2>1. o.state = "WaitAck" /\ Busy(o) /\ Held(n, r)
    BY <1>1, <1>5 DEF TimersMatch, Busy, Nodes, NodeStates, Off, Fate, Vacant, Delivered, Failed
  <2>2. Busy(n) /\ o = n /\ r.cb = {} /\ r.gone = FALSE /\ Count(r) = 0
    BY <1>2, <2>1, Zenon DEF Held, Count
  <2>3. /\ n.cb \in Msgs /\ n.cb # NoMsg /\ n.pend.body = n.cb /\ n.retries <= MAX_RETRIES
        /\ n.retries \in Nat /\ Tries(n) = n.retries
    BY <2>1, <2>2, NodeConstants DEF Loaded, Tries, Nodes
  <2>4. /\ c \in Nodes /\ c.state = "WaitAck" /\ c.retries = n.retries /\ c.sleepy = n.sleepy
        /\ c.pend = n.pend /\ c.cb = n.cb /\ c.val = n.val
    BY <1>1, <2>1, <2>2, FieldTypes DEF Nodes
  <2>5. q = CASE c.retries # 0 /\ c.sleepy -> Then(r, d, {}, {})
              [] c.retries # 0 /\ ~c.sleepy -> Then(r, e, {c.pend}, {})
              [] c.retries = 0 -> Deregister(Then(r, f, {}, Invoke(c, -1)))
    BY <1>5, Zenon DEF DespatchAck, AckTimeout
  <2> HIDE DEF c, o, q
  <2>6. CASE c.retries # 0 /\ c.sleepy
    <3>1. /\ d.state = "SendPending" /\ d.retries = n.retries - 1 /\ d.cb = n.cb
          /\ d.pend = n.pend /\ d.val = n.val
      BY <2>4, Zenon DEF Nodes
    <3> HIDE DEF d
    <3>2. q.n = d /\ q.tx = {} /\ q.cb = {} /\ q.gone = FALSE
      BY <2>2, <2>5, <2>6, Zenon DEF Then
    <3>3. ~Sent(q) /\ Count(q) = 0 /\ Busy(q.n) /\ Tries(q.n) = n.retries
      BY <2>3, <3>1, <3>2 DEF Sent, Count, Busy, Tries
    <3>4. Held(n, q)
      BY <2>2, <2>3, <3>1, <3>2, <3>3, NodeConstants DEF Held
    <3>. QED
      BY <2>2, <1>3, <3>1, <3>2, <3>3, <3>4, Zenon DEF Fate, q
  <2>7. CASE c.retries # 0 /\ ~c.sleepy
    <3>1. /\ e.state = "WaitAck" /\ e.retries = n.retries - 1 /\ e.cb = n.cb
          /\ e.pend = n.pend /\ e.val = n.val
      BY <2>4, Zenon DEF Nodes
    <3> HIDE DEF e
    <3>2. q.n = e /\ q.tx = {n.pend} /\ q.cb = {} /\ q.gone = FALSE
      BY <2>2, <2>4, <2>5, <2>7, Zenon DEF Then
    <3>3. Sent(q) /\ Count(q) = 1 /\ Busy(q.n) /\ Tries(q.n) = n.retries - 1
      BY <2>3, <3>1, <3>2 DEF Sent, Count, Busy, Tries
    <3>4. Held(n, q)
      BY <2>2, <2>3, <3>1, <3>2, <3>3, NodeConstants DEF Held
    <3>5. n.val = Off
      BY <1>3, <2>2, <2>4, <2>7, Zenon
    <3>. QED
      BY <2>2, <2>3, <3>1, <3>2, <3>4, <3>5, Zenon DEF Fate, q
  <2>8. CASE c.retries = 0
    <3>1. q = Deregister(Then(r, f, {}, Invoke(c, -1)))
      BY <2>5, <2>8, Zenon
    <3>2. f \in Nodes
      BY <2>4, AckTimeoutNodes, Zenon
    <3> HIDE DEF f
    <3>3. q.n.state = "Unregistered" /\ q.tx = {} /\ q.cb = {<<n.cb, -1>>}
      BY <2>2, <2>3, <2>4, <3>1, <3>2 DEF Deregister, Then, Invoke, Nodes
    <3>4. ~Sent(q) /\ ~Busy(q.n)
      BY <3>3, Zenon DEF Sent, Busy
    <3>5. Failed(n, q)
      BY <2>1, <2>2, <2>4, <2>8, <3>3, <3>4, Zenon DEF Failed
    <3>. QED
      BY <3>3, <3>4, <3>5, Zenon DEF Fate, q
  <2>. QED
    BY <2>3, <2>4, <2>6, <2>7, <2>8, Zenon
<1>. QED
  BY <1>4, <1>5, Zenon

\* tinymac_validity_timeout fails a packet whose validity period has run out.
LEMMA DespatchValidityFate ==
    ASSUME NEW n \in Nodes, Loaded(n), NEW r, StepInv(r), TimersMatch(r.n), Fate(n, r),
           Busy(r.n) => r.n.val = n.val /\ (n.val # Off => n.sleepy /\ ~Sent(r))
    PROVE  Fate(n, DespatchValidity(r))
<1> DEFINE o == r.n
           a == [o EXCEPT !.val = Off, !.state = "Registered", !.ack = Off]
           q == DespatchValidity(r)
<1>1. r \in Steps /\ o \in Nodes
  BY Zenon DEF StepInv, NodeInv
<1>2. CASE o.val # 0
  BY <1>2, Zenon DEF DespatchValidity
<1>3. CASE o.val = 0
  <2>1. Busy(o) /\ Held(n, r)
    BY <1>3 DEF TimersMatch, Busy, Off, Fate, Vacant, Delivered, Failed
  <2>2. /\ Busy(n) /\ o.cb = n.cb /\ r.cb = {} /\ n.val = 0 /\ n.sleepy /\ ~Sent(r)
    BY <1>3, <2>1 DEF Held, Off
  <2>3. n.cb # NoMsg
    BY <2>2, NodeConstants DEF Loaded
  <2>4. a.state = "Registered"
    BY <1>1, Zenon DEF Nodes
  <2>5. q = Then(r, a, {}, Invoke(o, -1))
    BY <1>3, Zenon DEF DespatchValidity, ValidityTimeout
  <2> HIDE DEF a, o, q
  <2>6. q.n = a /\ q.tx = r.tx /\ q.cb = {<<n.cb, -1>>}
    BY <2>2, <2>3, <2>5, Zenon DEF Then, Invoke
  <2>7. ~Sent(q) /\ ~Busy(q.n)
    BY <2>2, <2>4, <2>6, Zenon DEF Sent, Busy
  <2>8. Failed(n, q)
    BY <2>2, <2>6, <2>7, Zenon DEF Failed
  <2>. QED
    BY <2>6, <2>8, Zenon DEF Fate, q
<1>. QED
  BY <1>2, <1>3, Zenon

\* Time passing settles nothing by itself.
LEMMA AdvanceClockFate ==
    ASSUME NEW n \in Nodes, NEW r, StepInv(r), Fate(n, r)
    PROVE  Fate(n, AdvanceClock(r))
<1> DEFINE o == r.n
           a == [o EXCEPT !.ack = Elapse(o.ack), !.val = Elapse(o.val),
                          !.age = IF o.age < HeartbeatLimit(o) THEN o.age + 1 ELSE o.age]
           q == AdvanceClock(r)
<1>1. o \in Nodes
  BY Zenon DEF StepInv, NodeInv
<1>2. a.state = o.state /\ a.cb = o.cb /\ a.pend = o.pend /\ a.retries = o.retries
  BY <1>1, Zenon DEF Nodes
<1>3. q = Then(r, a, {}, {})
  BY Zenon DEF AdvanceClock
<1> HIDE DEF a, q
<1>4. q.n = a /\ q.tx = r.tx /\ q.cb = r.cb /\ q.gone = r.gone
  BY <1>3, Zenon DEF Then
<1>5. (Sent(q) <=> Sent(r)) /\ Count(q) = Count(r) /\ (Busy(q.n) <=> Busy(o)) /\ Tries(q.n) = Tries(o)
  BY <1>2, <1>4, Zenon DEF Sent, Count, Busy, Tries
<1>. QED
  BY <1>2, <1>4, <1>5, Zenon DEF Fate, Vacant, Held, Delivered, Failed, q

\* One node's share of the tick.
LEMMA NodeTickFate ==
    ASSUME NEW n, NodeInv(n), TimersMatch(n), Loaded(n)
    PROVE  Fate(n, NodeTick(n))
<1> DEFINE r0 == Begin(n)
           r1 == CheckHeartbeat(r0)
           r2 == DespatchAck(r1)
           r3 == DespatchValidity(r2)
           r4 == AdvanceClock(r3)
<1>1. StepInv(r0) /\ r0.n = n /\ n \in Nodes
  BY BeginInv, Zenon DEF NodeInv
<1>2. NodeTick(n) = r4
  BY Zenon DEF NodeTick
<1>3. Fate(n, r1) /\ r1.tx = {} /\ (Busy(n) => r1.n = n)
  BY CheckHeartbeatFate, Zenon
<1> HIDE DEF r0
<1>4. StepInv(r1) /\ TimersMatch(r1.n)
  BY <1>1, CheckHeartbeatKeeps, Zenon DEF Keeps
<1> HIDE DEF r1
<1>5. Fate(n, r2) /\ (Busy(r2.n) => r2.n.val = n.val /\ (n.val # Off => n.sleepy /\ ~Sent(r2)))
  BY <1>1, <1>3, <1>4, DespatchAckFate, Zenon
<1>6. StepInv(r2) /\ TimersMatch(r2.n) /\ r2.n.ack # 0
  BY <1>4, DespatchAckKeeps, Zenon DEF Keeps
<1> HIDE DEF r2
<1>7. Fate(n, r3)
  BY <1>1, <1>5, <1>6, DespatchValidityFate, Zenon
<1>8. StepInv(r3)
  BY <1>6, DespatchValidityKeeps, Zenon DEF Keeps
<1> HIDE DEF r3
<1>9. Fate(n, r4)
  BY <1>1, <1>7, <1>8, AdvanceClockFate, Zenon
<1>. QED
  BY <1>2, <1>9, Zenon

----------------------------------------------------------------------------
(* All the nodes. *)

\* What is in flight for a node is pending, and nothing is in flight for two.
OneHolder ==
    /\ \A s \in Slots : Loaded(nodes[s])
    /\ \A s \in Slots : Busy(nodes[s]) => sends[nodes[s].cb] = "pending"
    /\ \A s, t \in Slots : Busy(nodes[s]) /\ Busy(nodes[t]) /\ nodes[s].cb = nodes[t].cb => s = t
    /\ \A m \in Msgs : sends[m] # "spurious"

DeliveryInv == OneHolder /\ RetryBudget /\ DeliveredWasSent

\* A step of every node that comes to what it may, and other packets without
\* messages.
Fated(R, extra) ==
    /\ \A s \in Slots : Fate(nodes[s], R[s])
    /\ \A p \in extra : p.body \notin Msgs

DeliveredBy(R) == {s \in Slots : Delivered(nodes[s], R[s])}

FailedBy(R) == {s \in Slots : Failed(nodes[s], R[s])}

\* The callbacks for a message come from the node it is in flight for.
LEMMA CallbacksOf ==
    ASSUME OneHolder, NEW R, NEW extra, Fated(R, extra), NEW m \in Msgs
    PROVE  /\ \A s \in DeliveredBy(R) : nodes[s].cb = m => Callbacks(R, m) = {<<s, 0>>}
           /\ \A s \in FailedBy(R) : nodes[s].cb = m => Callbacks(R, m) = {<<s, -1>>}
           /\ (\A s \in DeliveredBy(R) \cup FailedBy(R) : nodes[s].cb # m) => Callbacks(R, m) = {}
           /\ DeliveredBy(R) \cap FailedBy(R) = {}
<1>1. ASSUME NEW s \in Slots, NEW rc \in {0, -1}, <<m, rc>> \in R[s].cb
      PROVE  /\ nodes[s].cb = m /\ Busy(nodes[s])
             /\ rc = 0 => s \in DeliveredBy(R)
             /\ rc = -1 => s \in FailedBy(R)
  <2>1. Vacant(nodes[s], R[s]) \/ Held(nodes[s], R[s]) \/ Delivered(nodes[s], R[s])
        \/ Failed(nodes[s], R[s])
    BY Zenon DEF Fated, Fate
  <2>2. CASE Delivered(nodes[s], R[s])
    BY <1>1, <2>2 DEF Delivered, DeliveredBy
  <2>3. CASE Failed(nodes[s], R[s])
    BY <1>1, <2>3 DEF Failed, FailedBy
  <2>. QED
    BY <1>1, <2>1, <2>2, <2>3, Zenon DEF Vacant, Held
<1>2. /\ \A s \in DeliveredBy(R) : s \in Slots /\ Busy(nodes[s]) /\ R[s].cb = {<<nodes[s].cb, 0>>}
      /\ \A s \in FailedBy(R) : s \in Slots /\ Busy(nodes[s]) /\ R[s].cb = {<<nodes[s].cb, -1>>}
  BY Zenon DEF DeliveredBy, FailedBy, Delivered, Failed
<1>3. DeliveredBy(R) \cap FailedBy(R) = {}
  <2>1. ASSUME NEW s \in DeliveredBy(R), s \in FailedBy(R) PROVE FALSE
    <3>1. {<<nodes[s].cb, 0>>} = {<<nodes[s].cb, -1>>}
      BY <1>2, <2>1, Zenon
    <3>2. <<nodes[s].cb, 0>> = <<nodes[s].cb, -1>>
      BY <3>1, Zenon
    <3>. QED
      BY <3>2
  <2>. QED
    BY <2>1, Zenon
<1>4. \A s, t \in Slots : Busy(nodes[s]) /\ Busy(nodes[t]) /\ nodes[s].cb = nodes[t].cb => s = t
  BY Zenon DEF OneHolder
<1>5. \A c : c \in Callbacks(R, m) <=>
               \E s \in Slots, rc \in {0, -1} : c = <<s, rc>> /\ <<m, rc>> \in R[s].cb
  BY DEF Callbacks
<1>6. ASSUME NEW s \in DeliveredBy(R), nodes[s].cb = m
      PROVE  Callbacks(R, m) = {<<s, 0>>}
  <2>1. <<s, 0>> \in Callbacks(R, m)
    BY <1>2, <1>5, <1>6, Zenon
  <2>2. ASSUME NEW c \in Callbacks(R, m) PROVE c = <<s, 0>>
    <3>1. PICK t \in Slots, rc \in {0, -1} : c = <<t, rc>> /\ <<m, rc>> \in R[t].cb
      BY <1>5, Zenon
    <3>2. t = s
      BY <1>1, <1>2, <1>4, <1>6, <3>1, Zenon
    <3>3. rc # -1
      BY <1>1, <1>3, <3>1, <3>2, Zenon
    <3>. QED
      BY <3>1, <3>2, <3>3, Zenon
  <2>. QED
    BY <2>1, <2>2, Zenon
<1>7. ASSUME NEW s \in FailedBy(R), nodes[s].cb = m
      PROVE  Callbacks(R, m) = {<<s, -1>>}
  <2>1. <<s, -1>> \in Callbacks(R, m)
    BY <1>2, <1>5, <1>7, Zenon
  <2>2. ASSUME NEW c \in Callbacks(R, m) PROVE c = <<s, -1>>
    <3>1. PICK t \in Slots, rc \in {0, -1} : c = <<t, rc>> /\ <<m, rc>> \in R[t].cb
      BY <1>5, Zenon
    <3>2. t = s
      BY <1>1, <1>2, <1>4, <1>7, <3>1, Zenon
    <3>3. rc # 0
      BY <1>1, <1>3, <3>1, <3>2, Zenon
    <3>. QED
      BY <3>1, <3>2, <3>3, Zenon
  <2>. QED
    BY <2>1, <2>2, Zenon
<1>8. ASSUME \A s \in DeliveredBy(R) \cup FailedBy(R) : nodes[s].cb # m
      PROVE  Callbacks(R, m) = {}
  BY <1>1, <1>5, <1>8, Zenon
<1>. QED
  BY <1>3, <1>6, <1>7, <1>8, Zenon

\* What the application learns: the fate of the packets settled, and no more.
LEMMA SendsAfter ==
    ASSUME OneHolder, NEW R, NEW extra, Fated(R, extra), Apply(R, extra), NEW m \in Msgs
    PROVE  /\ (\E s \in DeliveredBy(R) : nodes[s].cb = m) => sends'[m] = "delivered"
           /\ (\E s \in FailedBy(R) : nodes[s].cb = m) => sends'[m] = "failed"
           /\ (\A s \in DeliveredBy(R) \cup FailedBy(R) : nodes[s].cb # m) => sends'[m] = sends[m]
<1>1. sends'[m] = Outcome(sends[m], Callbacks(R, m))
  BY Zenon DEF Apply, Perform
<1>2. \A s \in DeliveredBy(R) \cup FailedBy(R) :
         s \in Slots /\ (nodes[s].cb = m => sends[m] = "pending")
  BY Zenon DEF DeliveredBy, FailedBy, Delivered, Failed, OneHolder
<1>3. ASSUME NEW s, NEW t, {<<s, 0>>} = {<<t, -1>>}
      PROVE  FALSE
  <2>1. <<s, 0>> = <<t, -1>>
    BY <1>3, Zenon
  <2>. QED
    BY <2>1
<1>4. ASSUME NEW s \in DeliveredBy(R), nodes[s].cb = m
      PROVE  sends'[m] = "delivered"
  <2>1. Callbacks(R, m) = {<<s, 0>>} /\ sends[m] = "pending" /\ s \in Slots
    BY <1>2, <1>4, CallbacksOf, Zenon
  <2>2. ~ \E t \in Slots : Callbacks(R, m) = {<<t, -1>>}
    BY <1>3, <2>1, Zenon
  <2>3. Callbacks(R, m) # {} /\ \E t \in Slots : Callbacks(R, m) = {<<t, 0>>}
    BY <2>1, Zenon
  <2>. QED
    BY <1>1, <2>1, <2>2, <2>3, Zenon DEF Outcome
<1>5. ASSUME NEW s \in FailedBy(R), nodes[s].cb = m
      PROVE  sends'[m] = "failed"
  <2>1. Callbacks(R, m) = {<<s, -1>>} /\ sends[m] = "pending" /\ s \in Slots
    BY <1>2, <1>5, CallbacksOf, Zenon
  <2>2. ~ \E t \in Slots : Callbacks(R, m) = {<<t, 0>>}
    BY <1>3, <2>1, Zenon
  <2>3. Callbacks(R, m) # {} /\ \E t \in Slots : Callbacks(R, m) = {<<t, -1>>}
    BY <2>1, Zenon
  <2>. QED
    BY <1>1, <2>1, <2>2, <2>3, Zenon DEF Outcome
<1>6. ASSUME \A s \in DeliveredBy(R) \cup FailedBy(R) : nodes[s].cb # m
      PROVE  sends'[m] = sends[m]
  BY <1>1, <1>6, CallbacksOf, Zenon DEF Outcome
<1>. QED
  BY <1>4, <1>5, <1>6, Zenon

\* A message is on the air when the node it is in flight for has sent it.
LEMMA OnAir ==
    ASSUME NEW R, NEW extra, Fated(R, extra), Apply(R, extra), NEW m \in Msgs
    PROVE  (\E p \in tx' : p.body = m) <=>
           (\E s \in Slots : Busy(nodes[s]) /\ nodes[s].cb = m /\ Sent(R[s]))
<1>1. \A p : p \in tx' <=> p \in extra \/ \E s \in Slots : p \in R[s].tx
  BY Zenon DEF Apply, Perform
<1>2. \A s \in Slots : \A p \in R[s].tx :
          p.body \in Msgs => Busy(nodes[s]) /\ p.body = nodes[s].cb
  BY Zenon DEF Fated, Fate
<1>3. \A p \in extra : p.body \notin Msgs
  BY Zenon DEF Fated
<1>4. ASSUME NEW p \in tx', p.body = m
      PROVE  \E s \in Slots : Busy(nodes[s]) /\ nodes[s].cb = m /\ Sent(R[s])
  BY <1>1, <1>2, <1>3, <1>4, Zenon DEF Sent
<1>5. ASSUME NEW s \in Slots, nodes[s].cb = m, Sent(R[s])
      PROVE  \E p \in tx' : p.body = m
  BY <1>1, <1>2, <1>5, Zenon DEF Sent
<1>. QED
  BY <1>4, <1>5, Zenon

\* Copies are counted for the node a message is in flight for.
LEMMA CopiesAfter ==
    ASSUME CoordInv, DeliveryInv, NEW R, NEW extra, Fated(R, extra), Apply(R, extra),
           NEW m \in Msgs
    PROVE  /\ \A s \in Slots : Busy(nodes[s]) /\ nodes[s].cb = m =>
                  /\ copies'[m] = copies[m] + Count(R[s])
                  /\ copies[m] + Tries(nodes[s]) = MAX_RETRIES + 1
                  /\ copies[m] \in Nat /\ Tries(nodes[s]) \in Nat
           /\ (\A s \in Slots : ~(Busy(nodes[s]) /\ nodes[s].cb = m)) => copies'[m] = copies[m]
<1>1. copies'[m] = Copies(copies[m], m, tx') /\ copies[m] \in Nat
  BY DEF Apply, Perform, CoordInv, TypeOK
<1>2. ASSUME NEW s \in Slots, Busy(nodes[s]), nodes[s].cb = m
      PROVE  /\ copies'[m] = copies[m] + Count(R[s])
             /\ copies[m] + Tries(nodes[s]) = MAX_RETRIES + 1
             /\ Tries(nodes[s]) \in Nat
  <2>5. nodes[s] \in Nodes
    BY Zenon DEF CoordInv, NodeInv
  <2>1. Tries(nodes[s]) \in Nat
    BY <2>5, RetryTypes, Zenon
  <2>2. copies[m] + Tries(nodes[s]) = MAX_RETRIES + 1
    <3>1. nodes[s].retries \in Nat
      BY <2>5, RetryTypes, Zenon
    <3>2. m # NoMsg
      BY NodeConstants, Zenon
    <3>. QED
      BY <1>1, <1>2, <3>1, <3>2, NodeConstants DEF DeliveryInv, RetryBudget, Tries
  <2>3. copies[m] < MaxCopies
    BY <1>1, <2>1, <2>2, NodeConstants DEF MaxCopies
  <2>4. (\E p \in tx' : p.body = m) <=> Sent(R[s])
    BY <1>2, OnAir DEF DeliveryInv, OneHolder
  <2>. QED
    BY <1>1, <2>1, <2>2, <2>3, <2>4 DEF Copies, Count
<1>3. ASSUME \A s \in Slots : ~(Busy(nodes[s]) /\ nodes[s].cb = m)
      PROVE  copies'[m] = copies[m]
  BY <1>1, <1>3, OnAir, Zenon DEF Copies
<1>. QED
  BY <1>1, <1>2, <1>3, Zenon

\* Settling keeps the invariant: the books of a packet still in flight balance,
\* and those of a settled one are closed.
LEMMA SettlingInv ==
    ASSUME CoordInv, DeliveryInv, NEW R, Good(R), NEW extra, Fated(R, extra), Apply(R, extra)
    PROVE  /\ DeliveryInv'
           /\ \A s \in Slots :
                 /\ s \in DeliveredBy(R) \cup FailedBy(R) => Busy(nodes[s]) /\ ~Busy(nodes'[s])
                 /\ s \notin DeliveredBy(R) \cup FailedBy(R) =>
                       /\ Busy(nodes'[s]) <=> Busy(nodes[s])
                       /\ Busy(nodes[s]) => nodes'[s].cb = nodes[s].cb
<1>1. \A s \in Slots : nodes'[s] = R[s].n
  BY Zenon DEF Apply, Perform
<1>2. ASSUME NEW s \in Slots
      PROVE  /\ s \in DeliveredBy(R) \cup FailedBy(R) => Busy(nodes[s]) /\ ~Busy(nodes'[s])
             /\ s \notin DeliveredBy(R) \cup FailedBy(R) =>
                   /\ Busy(nodes'[s]) <=> Busy(nodes[s])
                   /\ Busy(nodes[s]) => nodes'[s].cb = nodes[s].cb
             /\ Busy(nodes'[s]) => Held(nodes[s], R[s])
  BY <1>1, Zenon DEF Fated, Fate, DeliveredBy, FailedBy, Vacant, Held, Delivered, Failed
<1>3. OneHolder
  BY Zenon DEF DeliveryInv
<1>4. ASSUME NEW s \in Slots, Busy(nodes'[s])
      PROVE  /\ Busy(nodes[s]) /\ nodes'[s].cb = nodes[s].cb /\ nodes[s].cb \in Msgs
             /\ Loaded(nodes'[s])
             /\ sends'[nodes[s].cb] = "pending"
             /\ copies'[nodes[s].cb] + Tries(nodes'[s]) = MAX_RETRIES + 1
  <2> DEFINE n == nodes[s]  o == nodes'[s]  m == nodes[s].cb
  <2>1. /\ Busy(n) /\ o.cb = n.cb /\ o.pend = n.pend /\ o.retries <= MAX_RETRIES
        /\ Tries(o) + Count(R[s]) = Tries(n)
    BY <1>1, <1>2, <1>4, Zenon DEF Held
  <2>2. Loaded(n)
    BY <1>3, Zenon DEF OneHolder
  <2>3. m \in Msgs /\ Loaded(o)
    BY <2>1, <2>2, Zenon DEF Loaded
  <2>4. s \notin DeliveredBy(R) \cup FailedBy(R)
    BY <1>2, <1>4, Zenon
  <2>5. \A t \in DeliveredBy(R) \cup FailedBy(R) : nodes[t].cb # m
    BY <2>1, <2>4, <1>2, <1>3, Zenon DEF OneHolder, DeliveredBy, FailedBy
  <2>6. sends'[m] = sends[m] /\ sends[m] = "pending"
    BY <1>3, <2>1, <2>3, <2>5, SendsAfter, Zenon DEF OneHolder
  <2>7. /\ copies'[m] = copies[m] + Count(R[s]) /\ copies[m] + Tries(n) = MAX_RETRIES + 1
        /\ copies[m] \in Nat /\ Tries(n) \in Nat
    BY <2>1, <2>3, CopiesAfter, Zenon
  <2>8. Tries(o) \in Nat /\ Count(R[s]) \in Nat /\ MAX_RETRIES \in Nat
    <3>1. o \in Nodes
      BY <1>1, Zenon DEF Good, StepInv, NodeInv
    <3>. QED
      BY <3>1, RetryTypes, Zenon
  <2> HIDE DEF n, o, m
  <2>9. copies'[m] + Tries(o) = MAX_RETRIES + 1
    BY <2>1, <2>7, <2>8
  <2>. QED
    BY <2>1, <2>3, <2>6, <2>9, Zenon DEF n, o, m
<1>5. OneHolder'
  <2>1. ASSUME NEW s \in Slots PROVE Loaded(nodes'[s])
    BY <1>4, Zenon DEF Loaded
  <2>2. ASSUME NEW s \in Slots, Busy(nodes'[s]) PROVE sends'[nodes'[s].cb] = "pending"
    BY <1>4, <2>2, Zenon
  <2>3. ASSUME NEW s \in Slots, NEW t \in Slots, Busy(nodes'[s]), Busy(nodes'[t]),
               nodes'[s].cb = nodes'[t].cb
        PROVE  s = t
    BY <1>3, <1>4, <2>3, Zenon DEF OneHolder
  <2>4. ASSUME NEW m \in Msgs PROVE sends'[m] # "spurious"
    BY <1>3, SendsAfter, Zenon DEF OneHolder
  <2>. QED
    BY <2>1, <2>2, <2>3, <2>4, Zenon DEF OneHolder, Loaded, Busy
<1>6. RetryBudget'
  <2> SUFFICES ASSUME NEW s \in Slots, Busy(nodes'[s])
               PROVE  copies'[nodes'[s].cb] + nodes'[s].retries
                        + (IF nodes'[s].state = "SendPending" THEN 1 ELSE 0) = MAX_RETRIES + 1
    BY Zenon DEF RetryBudget, Busy
  <2> DEFINE n == nodes[s]  o == nodes'[s]  m == nodes[s].cb
  <2>1. o.cb = m /\ m \in Msgs /\ copies'[m] + Tries(o) = MAX_RETRIES + 1
    BY <1>4, Zenon
  <2>2. o.retries \in Nat
    <3>1. NodeInv(R[s].n)
      BY <1>1, Zenon DEF Good, StepInv
    <3>2. o \in Nodes
      BY <1>1, <3>1, Zenon DEF NodeInv
    <3>. QED
      BY <3>2, RetryTypes, Zenon
  <2>3. copies'[m] \in Nat
    <3>1. Busy(n)
      BY <1>4, Zenon
    <3>. QED
      BY <2>1, <3>1, CopiesAfter DEF Count
  <2> HIDE DEF n, o, m
  <2>4. copies'[m] + o.retries + (IF o.state = "SendPending" THEN 1 ELSE 0) = MAX_RETRIES + 1
    BY <2>1, <2>2, <2>3 DEF Tries
  <2>. QED
    BY <2>1, <2>4, Zenon DEF n, o, m
<1>7. DeliveredWasSent'
  <2> SUFFICES ASSUME NEW m \in Msgs, sends'[m] = "delivered"
               PROVE  copies'[m] \in 1 .. MAX_RETRIES + 1
    BY Zenon DEF DeliveredWasSent
  <2>1. CASE \E s \in DeliveredBy(R) : nodes[s].cb = m
    <3>1. PICK s \in Slots : Delivered(nodes[s], R[s]) /\ nodes[s].cb = m
      BY <2>1, Zenon DEF DeliveredBy
    <3> DEFINE n == nodes[s]
    <3>2. Busy(n) /\ (Sent(R[s]) \/ n.state = "WaitAck") /\ Count(R[s]) <= Tries(n)
      BY <3>1, Zenon DEF Delivered
    <3>3. /\ copies'[m] = copies[m] + Count(R[s]) /\ copies[m] + Tries(n) = MAX_RETRIES + 1
          /\ copies[m] \in Nat /\ Tries(n) \in Nat
      BY <3>1, <3>2, CopiesAfter, Zenon
    <3>4. n.retries <= MAX_RETRIES /\ n.retries \in Nat
      <4>1. n \in Nodes
        BY Zenon DEF CoordInv, NodeInv
      <4>2. Loaded(n)
        BY <1>3, Zenon DEF OneHolder
      <4>. QED
        BY <3>2, <4>1, <4>2, RetryTypes, Zenon DEF Loaded
    <3>5. n.state = "WaitAck" => Tries(n) <= MAX_RETRIES
      BY <3>4 DEF Tries
    <3>6. Count(R[s]) \in Nat /\ (Sent(R[s]) => Count(R[s]) = 1)
      BY Zenon DEF Count
    <3> HIDE DEF n
    <3>. QED
      BY <3>2, <3>3, <3>5, <3>6, NodeConstants
  <2>2. CASE \E s \in FailedBy(R) : nodes[s].cb = m
    BY <1>3, <2>2, SendsAfter, Zenon
  <2>3. CASE \A s \in DeliveredBy(R) \cup FailedBy(R) : nodes[s].cb # m
    <3>1. sends[m] = "delivered"
      BY <1>3, <2>3, SendsAfter, Zenon
    <3>2. \A s \in Slots : ~(Busy(nodes[s]) /\ nodes[s].cb = m)
      BY <1>3, <3>1, Zenon DEF OneHolder
    <3>3. copies'[m] = copies[m]
      BY <3>2, CopiesAfter, Zenon
    <3>. QED
      BY <3>1, <3>3, Zenon DEF DeliveryInv, DeliveredWasSent
  <2>. QED
    BY <2>1, <2>2, <2>3, Zenon
<1>. QED
  BY <1>2, <1>5, <1>6, <1>7, Zenon DEF DeliveryInv

----------------------------------------------------------------------------
(* The service. *)

Inflight(n) == IF Busy(n) THEN n.cb ELSE NoMsg

\* A step reports a failure only for the reasons FailureJustified gives.
Justified ==
    \A m \in Msgs : sends[m] = "pending" /\ sends'[m] = "failed" =>
        \/ copies[m] = MAX_RETRIES + 1
        \/ \E s \in Slots : nodes[s].cb = m /\ nodes[s].sleepy /\ nodes[s].val = 0

ServiceStep == [Service!Next]_(Service!vars)

\* A failure is reported by the node the message was in flight for.
LEMMA SettlingJustified ==
    ASSUME CoordInv, DeliveryInv, NEW R, NEW extra, Fated(R, extra), Apply(R, extra)
    PROVE  Justified
<1> SUFFICES ASSUME NEW m \in Msgs, sends[m] = "pending", sends'[m] = "failed"
             PROVE  \/ copies[m] = MAX_RETRIES + 1
                    \/ \E s \in Slots : nodes[s].cb = m /\ nodes[s].sleepy /\ nodes[s].val = 0
  BY Zenon DEF Justified
<1>1. PICK s \in FailedBy(R) : nodes[s].cb = m
  BY SendsAfter, Zenon DEF DeliveryInv
<1>2. s \in Slots /\ Busy(nodes[s])
      /\ ((nodes[s].state = "WaitAck" /\ nodes[s].retries = 0) \/ (nodes[s].sleepy /\ nodes[s].val = 0))
  BY Zenon DEF FailedBy, Failed
<1>3. copies[m] + Tries(nodes[s]) = MAX_RETRIES + 1 /\ copies[m] \in Nat
  BY <1>1, <1>2, CopiesAfter, Zenon
<1>4. CASE nodes[s].state = "WaitAck" /\ nodes[s].retries = 0
  <2>1. Tries(nodes[s]) = 0
    BY <1>4 DEF Tries
  <2>. QED
    BY <1>3, <2>1
<1>. QED
  BY <1>1, <1>2, <1>4, Zenon

\* What a settling step changes of what the service shows.
LEMMA SettlingShows ==
    ASSUME CoordInv, DeliveryInv, NEW R, Good(R), NEW extra, Fated(R, extra), Apply(R, extra)
    PROVE  LET D == DeliveredBy(R)  F == FailedBy(R) IN
           /\ [s \in Slots |-> Inflight(nodes'[s])] =
                 [s \in Slots |-> IF s \in D \cup F THEN NoMsg ELSE Inflight(nodes[s])]
           /\ sends' = [m \in Msgs |->
                          CASE \E s \in D : Inflight(nodes[s]) = m -> "delivered"
                            [] \E s \in F : Inflight(nodes[s]) = m -> "failed"
                            [] OTHER -> sends[m]]
           /\ D \cap F = {} /\ D \cup F \subseteq Slots
           /\ \A s \in D \cup F : Inflight(nodes[s]) \in Msgs /\ Inflight(nodes[s]) # NoMsg
<1> DEFINE D == DeliveredBy(R)
           F == FailedBy(R)
<1>1. D \cup F \subseteq Slots
  BY Zenon DEF DeliveredBy, FailedBy
<1>2. \A s \in D \cup F : Busy(nodes[s]) /\ ~Busy(nodes'[s])
  BY <1>1, SettlingInv, Zenon
<1>3. \A s \in Slots \ (D \cup F) :
          (Busy(nodes'[s]) <=> Busy(nodes[s])) /\ (Busy(nodes[s]) => nodes'[s].cb = nodes[s].cb)
  BY SettlingInv, Zenon
<1>4. \A s \in D \cup F : /\ Inflight(nodes[s]) = nodes[s].cb /\ nodes[s].cb \in Msgs
                          /\ nodes[s].cb # NoMsg
  BY <1>1, <1>2, NodeConstants DEF DeliveryInv, OneHolder, Loaded, Inflight
<1>5. D \cap F = {}
  <2>1. ASSUME NEW s \in D, s \in F PROVE FALSE
    <3>1. nodes[s].cb \in Msgs
      BY <1>4, Zenon
    <3>. QED
      BY <2>1, <3>1, CallbacksOf, Zenon DEF DeliveryInv
  <2>. QED
    BY <2>1, Zenon
<1>6. \A s \in Slots :
          Inflight(nodes'[s]) = IF s \in D \cup F THEN NoMsg ELSE Inflight(nodes[s])
  BY <1>2, <1>3, Zenon DEF Inflight
<1>7. sends' = [m \in Msgs |-> sends'[m]]
  BY Zenon DEF Apply, Perform
<1>8. ASSUME NEW m \in Msgs
      PROVE  sends'[m] = CASE \E s \in D : Inflight(nodes[s]) = m -> "delivered"
                           [] \E s \in F : Inflight(nodes[s]) = m -> "failed"
                           [] OTHER -> sends[m]
  <2>1. /\ (\E s \in D : nodes[s].cb = m) => sends'[m] = "delivered"
        /\ (\E s \in F : nodes[s].cb = m) => sends'[m] = "failed"
        /\ (\A s \in D \cup F : nodes[s].cb # m) => sends'[m] = sends[m]
    BY SendsAfter, Zenon DEF DeliveryInv
  <2>2. ~((\E s \in D : nodes[s].cb = m) /\ (\E s \in F : nodes[s].cb = m))
    BY <2>1, Zenon
  <2> HIDE DEF D, F
  <2>. QED
    BY <1>4, <2>1, <2>2, Zenon
<1> HIDE DEF D, F
<1>9. sends' = [m \in Msgs |->
                  CASE \E s \in D : Inflight(nodes[s]) = m -> "delivered"
                    [] \E s \in F : Inflight(nodes[s]) = m -> "failed"
                    [] OTHER -> sends[m]]
  BY <1>7, <1>8, Zenon
<1>10. [s \in Slots |-> Inflight(nodes'[s])] =
          [s \in Slots |-> IF s \in D \cup F THEN NoMsg ELSE Inflight(nodes[s])]
  BY <1>6, Zenon
<1>. QED
  BY <1>1, <1>4, <1>5, <1>9, <1>10, Zenon DEF D, F

\* A node in flight is one the application knows.
LEMMA BusyIsLive ==
    ASSUME OrderlyInv, NEW s \in Slots, Inflight(nodes[s]) # NoMsg
    PROVE  s \in live
  BY Zenon DEF OrderlyInv, AppKnowsRegistry, Inflight, Busy

\* Receiving and ticking settle packets and give nodes up, as the service may.
LEMMA SettlingStep ==
    ASSUME CoordInv, OrderlyInv, DeliveryInv, NEW R, Good(R), NEW extra, Fated(R, extra),
           Apply(R, extra), live' = live \ Gone(R)
    PROVE  ServiceStep
<1> DEFINE D == DeliveredBy(R)
           F == FailedBy(R)
           G == Gone(R)
<1>1. /\ [s \in Slots |-> Inflight(nodes'[s])] =
            [s \in Slots |-> IF s \in D \cup F THEN NoMsg ELSE Inflight(nodes[s])]
      /\ sends' = [m \in Msgs |->
                     CASE \E s \in D : Inflight(nodes[s]) = m -> "delivered"
                       [] \E s \in F : Inflight(nodes[s]) = m -> "failed"
                       [] OTHER -> sends[m]]
      /\ D \cap F = {} /\ D \cup F \subseteq Slots
      /\ \A s \in D \cup F : Inflight(nodes[s]) # NoMsg
  BY SettlingShows, Zenon
<1>2. \A s \in D \cup F : s \in live
  BY <1>1, BusyIsLive, Zenon
<1>3. ASSUME NEW s \in G
      PROVE  s \in Slots /\ s \in live /\ (Inflight(nodes[s]) = NoMsg \/ s \in F)
  <2>1. s \in Slots /\ R[s].gone
    BY Zenon DEF Gone
  <2>2. Vacant(nodes[s], R[s]) \/ Failed(nodes[s], R[s])
    BY <2>1, Zenon DEF Fated, Fate, Held, Delivered
  <2>3. nodes[s].state # "Unregistered"
    BY <2>1, <2>2, Zenon DEF Vacant, Failed, Busy
  <2>4. s \in live
    BY <2>1, <2>3, Zenon DEF OrderlyInv, AppKnowsRegistry
  <2>. QED
    BY <2>1, <2>2, <2>4, Zenon DEF Vacant, FailedBy, Inflight
<1> HIDE DEF D, F, G
<1>4. Service!Settle(D, F, G)
  <2> DEFINE I == [s \in Slots |-> IF Busy(nodes[s]) THEN nodes[s].cb ELSE NoMsg]
  <2>1. I = [s \in Slots |-> Inflight(nodes[s])] /\ I' = [s \in Slots |-> Inflight(nodes'[s])]
    BY Zenon DEF Inflight, Busy
  <2>2. \A s \in Slots : I[s] = Inflight(nodes[s])
    BY <2>1, Zenon
  <2> HIDE DEF I
  <2>3. D \cup F \subseteq {s \in live : I[s] # NoMsg} /\ D \cap F = {}
    BY <1>1, <1>2, <2>2, Zenon
  <2>4. G \subseteq live /\ \A s \in G : I[s] = NoMsg \/ s \in F
    BY <1>3, <2>2, Zenon
  <2>5. live' = live \ G
    BY Zenon DEF G
  <2>6. I' = [s \in Slots |-> IF s \in D \cup F THEN NoMsg ELSE I[s]]
    BY <1>1, <2>1, <2>2, Zenon
  <2>7. sends' = [m \in Msgs |-> CASE \E s \in D : I[s] = m -> "delivered"
                                   [] \E s \in F : I[s] = m -> "failed"
                                   [] OTHER -> sends[m]]
    BY <1>1, <2>2
  <2>. QED
    BY <2>3, <2>4, <2>5, <2>6, <2>7, Zenon DEF Service!Settle, I
<1>5. D \in SUBSET Slots /\ F \in SUBSET Slots /\ G \in SUBSET Slots
  BY <1>1, <1>3, Zenon
<1>6. Service!Next
  BY <1>4, <1>5, Zenon DEF Service!Next
<1>. QED
  BY <1>6, Zenon DEF ServiceStep

----------------------------------------------------------------------------
(* One lemma per action of the orderly coordinator. *)

DeliveryStep == DeliveryInv' /\ ServiceStep /\ Justified

\* A step that settles packets and gives nodes up keeps everything.
LEMMA Settled ==
    ASSUME CoordInv, OrderlyInv, DeliveryInv, NEW R, Good(R), NEW extra, Fated(R, extra),
           Apply(R, extra), live' = live \ Gone(R)
    PROVE  DeliveryStep
  BY SettlingInv, SettlingStep, SettlingJustified, Zenon DEF DeliveryStep

\* What the coordinator itself puts on the air carries no message.
LEMMA OwnPackets ==
    ASSUME CoordInv
    PROVE  /\ \A sync \in BOOLEAN : Beacon(sync).body \notin Msgs
           /\ \A dest \in Addrs, u \in Uuids \cup {NoUuid}, addr \in Addrs, st \in Status :
                Response(dest, u, addr, st).body \notin Msgs
<1>1. ASSUME NEW sync \in BOOLEAN PROVE Beacon(sync).body \notin Msgs
  <2> DEFINE pending == IF sync THEN {s \in Slots : nodes[s].state = "SendPending"} ELSE {}
             body == [sync |-> sync, permit |-> permit_attach, pending |-> pending]
  <2>1. pending \in SUBSET Addrs
    BY AddrTypes, Zenon
  <2> HIDE DEF pending
  <2>2. body \in Beacons
    BY <2>1, Zenon DEF Beacons, CoordInv, TypeOK
  <2> HIDE DEF body
  <2>3. Beacon(sync).body = body
    BY Zenon DEF Beacon, Packet, body, pending
  <2>. QED
    BY <2>2, <2>3, MessagesAreData, Zenon
<1>2. ASSUME NEW dest \in Addrs, NEW u \in Uuids \cup {NoUuid}, NEW addr \in Addrs, NEW st \in Status
      PROVE  Response(dest, u, addr, st).body \notin Msgs
  <2> DEFINE body == [uuid |-> u, addr |-> addr, status |-> st]
  <2>1. body \in RegistrationResponses
    BY Zenon DEF RegistrationResponses
  <2>2. Response(dest, u, addr, st).body = body
    BY Zenon DEF Response, Packet
  <2>. QED
    BY <2>1, <2>2, MessagesAreData, Zenon
<1>. QED
  BY <1>1, <1>2, Zenon

\* A call begins with nothing done or the sender of the packet heard.
LEMMA OpeningFate ==
    ASSUME CoordInv, DeliveryInv, NEW p \in ClientPackets, NEW R, Opening(R, p), NEW s \in Slots
    PROVE  Fate(nodes[s], R[s])
<1>1. NodeInv(nodes[s]) /\ nodes[s] \in Nodes /\ Loaded(nodes[s])
  BY Zenon DEF CoordInv, NodeInv, DeliveryInv, OneHolder
<1>2. Fate(nodes[s], Begin(nodes[s]))
  BY <1>1, BeginFate, Zenon
<1>3. CASE R = Idle
  BY <1>2, <1>3, Zenon DEF Idle
<1>4. CASE p.src \in Slots /\ R = [Idle EXCEPT ![p.src] = Heard(nodes[p.src], p, net_id, COORD_ADDR)]
  <2>1. p \in Packets /\ net_id \in NetIds /\ COORD_ADDR \in Addrs
    BY ClientPacketTypes, AddrTypes, Zenon DEF CoordInv, TypeOK
  <2>2. Fate(nodes[s], Heard(nodes[s], p, net_id, COORD_ADDR))
    BY <1>1, <2>1, HeardFate, Zenon
  <2>3. R[s] = Begin(nodes[s]) \/ R[s] = Heard(nodes[s], p, net_id, COORD_ADDR)
    BY <1>4, Zenon DEF Idle
  <2>. QED
    BY <1>2, <2>2, <2>3, Zenon
<1>. QED
  BY <1>3, <1>4, Zenon DEF Opening

\* The tick.
LEMMA TickDelivery ==
    ASSUME CoordInv, OrderlyInv, DeliveryInv, TickHandler
    PROVE  DeliveryStep
<1> DEFINE R == [s \in Slots |-> NodeTick(nodes[s])]
           extra == IF (slot + 1) % BEACON_PERIOD = BEACON_OFFSET THEN {Beacon(TRUE)} ELSE {}
<1>1. Good(R)
  BY NodeTickKeeps, Zenon DEF CoordInv, Good, Keeps, StepInv
<1>2. \A s \in Slots : Fate(nodes[s], R[s])
  BY NodeTickFate, Zenon DEF CoordInv, OrderlyInv, TimersMatchState, DeliveryInv, OneHolder
<1>3. \A p \in extra : p.body \notin Msgs
  BY OwnPackets, Zenon
<1>4. Apply(R, extra) /\ live' = live \ Gone(R)
  BY Zenon DEF TickHandler
<1> HIDE DEF R, extra
<1>. QED
  BY <1>1, <1>2, <1>3, <1>4, Settled, Zenon DEF Fated

\* The step of a slot that is registered.
LEMMA RegisterFate ==
    ASSUME NEW n, NodeInv(n), Quiet(n), NEW body \in RegistrationRequests
    PROVE  Fate(n, Register(Begin(n), body)) /\ Register(Begin(n), body).cb = {}
<1> DEFINE b == Begin(n)
           q == Register(b, body)
<1>1. StepInv(b) /\ b.n = n /\ b.gone = FALSE /\ b.tx = {} /\ b.cb = {}
  BY BeginInv, Zenon DEF Begin
<1> HIDE DEF b
<1>2. q.n.state = "Registered" /\ q.gone = FALSE
  BY <1>1, RegisterStep, Zenon
<1>3. q.tx = {} /\ q.cb = {}
  BY <1>1, Zenon DEF Register, Then
<1> HIDE DEF q
<1>4. ~Sent(q) /\ ~Busy(q.n) /\ ~Busy(n)
  BY <1>2, <1>3, Zenon DEF Sent, Busy, Quiet
<1>5. Vacant(n, q)
  BY <1>2, <1>3, <1>4, Zenon DEF Vacant
<1>. QED
  BY <1>3, <1>5, Zenon DEF Fate, q, b

\* A registration settles nothing: the slot it goes to has nothing in flight.
LEMMA RegistrationDelivery ==
    ASSUME CoordInv, OrderlyInv, DeliveryInv, NEW p \in ClientPackets, Orderly(p),
           NEW R, Opening(R, p), RxRegistrationRequest(R, p)
    PROVE  DeliveryStep
<1> DEFINE s == SlotFor(p.body.uuid)
           resp == {Response(Broadcast, p.body.uuid, s, "Success")}
           full == {Response(Broadcast, p.body.uuid, Unassigned, "NetworkFull")}
           q == Register(R[s], p.body)
           Q == [R EXCEPT ![s] = q]
<1>1. p.type = "RegistrationRequest" /\ p.body \in RegistrationRequests /\ p.body.uuid \in Uuids
  <2>1. p.type = "RegistrationRequest" /\ net_id \in NetIds /\ dseq \in Seqs
    BY Zenon DEF RxRegistrationRequest, CoordInv, TypeOK
  <2>2. p.body \in RegistrationRequests
    BY <2>1, ClientPacketTypes, Zenon
  <2>. QED
    BY <2>1, <2>2, Zenon DEF RegistrationRequests
<1>2. R = Idle
  BY <1>1, ClientRequests, AddrTypes, Zenon DEF Opening
<1>3. Good(R) /\ Gone(R) = {} /\ \A t \in Slots : Fate(nodes[t], R[t])
  BY SoundGood, OpeningFate, Zenon DEF Opening, Gone, CoordInv
<1>4. CASE s = 0
  <2>1. Apply(R, full) /\ live' = live
    BY <1>4, Zenon DEF RxRegistrationRequest
  <2>2. \A x \in full : x.body \notin Msgs
    BY <1>1, OwnPackets, AddrTypes, Zenon DEF Status
  <2>3. live' = live \ Gone(R)
    BY <1>3, <2>1, Zenon
  <2> HIDE DEF full
  <2>. QED
    BY <1>3, <2>1, <2>2, <2>3, Settled, Zenon DEF Fated
<1>5. CASE s # 0
  <2>1. s \in Slots
    BY <1>5, SlotForDevice, Zenon
  <2>2. Apply(Q, resp) /\ live' = live \cup {s}
    BY <1>5, <2>1, <1>3, Zenon DEF RxRegistrationRequest, Good
  <2>3. Quiet(nodes[s]) /\ NodeInv(nodes[s]) /\ R[s] = Begin(nodes[s])
    BY <1>1, <1>2, <1>5, <2>1, Zenon DEF Orderly, CoordInv, Idle
  <2>4. Fate(nodes[s], q) /\ q.cb = {} /\ StepInv(q)
    <3> DEFINE n == nodes[s]
               r == Begin(n)
               body == p.body
    <3>1. Quiet(n) /\ NodeInv(n) /\ StepInv(r) /\ body \in RegistrationRequests
      BY <1>1, <2>3, BeginInv, Zenon
    <3>2. q = Register(r, body)
      BY <2>3, Zenon
    <3> HIDE DEF n, body, q
    <3>3. Fate(n, Register(r, body)) /\ Register(r, body).cb = {}
      BY <3>1, RegisterFate, Zenon
    <3> HIDE DEF r
    <3>4. StepInv(Register(r, body))
      BY <3>1, RegisterStep, Zenon
    <3>. QED
      BY <3>2, <3>3, <3>4, Zenon DEF n
  <2>6. \A x \in resp : x.body \notin Msgs
    <3>1. s \in Addrs /\ Broadcast \in Addrs /\ "Success" \in Status
      BY <2>1, AddrTypes, Zenon DEF Status
    <3>. QED
      BY <1>1, <3>1, OwnPackets, Zenon
  <2>7. \A t \in Slots : R[t].cb = {}
    BY <1>2, Zenon DEF Idle, Begin
  <2> HIDE DEF q, resp, s
  <2>8. Good(Q) /\ \A t \in Slots : Fate(nodes[t], Q[t]) /\ Q[t].cb = {}
    BY <1>3, <2>1, <2>4, <2>7, Zenon DEF Good, StepInv
  <2> HIDE DEF Q
  <2>9. Fated(Q, resp)
    BY <2>6, <2>8, Zenon DEF Fated
  <2>10. DeliveryInv' /\ Justified
    BY <2>2, <2>8, <2>9, SettlingInv, SettlingJustified, Zenon
  <2>11. DeliveredBy(Q) = {} /\ FailedBy(Q) = {}
    BY <2>8, Zenon DEF DeliveredBy, FailedBy, Delivered, Failed
  <2>12. ServiceStep
    <3> DEFINE I == [t \in Slots |-> IF Busy(nodes[t]) THEN nodes[t].cb ELSE NoMsg]
    <3>1. I = [t \in Slots |-> Inflight(nodes[t])] /\ I' = [t \in Slots |-> Inflight(nodes'[t])]
      BY Zenon DEF Inflight, Busy
    <3>2. \A t \in Slots : /\ Busy(nodes'[t]) <=> Busy(nodes[t])
                           /\ Busy(nodes[t]) => nodes'[t].cb = nodes[t].cb
      BY <2>2, <2>8, <2>9, <2>11, SettlingInv, Zenon
    <3>3. I' = I
      BY <3>1, <3>2, Zenon DEF Inflight
    <3>4. sends' = sends
      <4>1. \A m \in Msgs : sends'[m] = sends[m]
        BY <2>2, <2>9, <2>11, SendsAfter, Zenon DEF DeliveryInv
      <4>2. sends' = [m \in Msgs |-> sends'[m]] /\ sends = [m \in Msgs |-> sends[m]]
        BY <2>2, Zenon DEF Apply, Perform, CoordInv, TypeOK
      <4>. QED
        BY <4>1, <4>2, Zenon
    <3> HIDE DEF I
    <3>5. Service!NodeRegistered(s)
      BY <2>2, <3>3, <3>4, Zenon DEF Service!NodeRegistered, I
    <3>. QED
      BY <2>1, <3>5, Zenon DEF ServiceStep, Service!Next
  <2>. QED
    BY <2>10, <2>12, Zenon DEF DeliveryStep
<1>. QED
  BY <1>4, <1>5, Zenon

\* A deregistration request is answered and the slot freed: in an orderly
\* environment nothing was in flight for it.
LEMMA DeregistrationDelivery ==
    ASSUME CoordInv, OrderlyInv, DeliveryInv, NEW p \in ClientPackets, Orderly(p),
           NEW R, Opening(R, p), RxDeregistrationRequest(R, p)
    PROVE  DeliveryStep
<1> DEFINE s == p.src
           r == R[s]
           resp == Response(s, p.body.uuid, Unassigned, "Success")
           a == TxPacket(r.n, resp, 0, NoMsg)
           b == Then(r, a.n, a.tx, {})
           q == Deregister(b)
           Q == [R EXCEPT ![s] = q]
<1>1. p.type = "DeregistrationRequest" /\ p.body.uuid \in Uuids
  BY ClientPacketTypes, Zenon DEF RxDeregistrationRequest, CoordInv, TypeOK, DeregistrationRequests
<1>2. /\ Good(R) /\ (\A t \in Slots : R[t].gone = FALSE) /\ Gone(R) = {}
      /\ \A t \in Slots : Fate(nodes[t], R[t])
  BY SoundGood, OpeningFate, Zenon DEF Opening, Gone, CoordInv
<1>3. CASE ~(Known(s) /\ nodes[s].uuid = p.body.uuid)
  <2>1. Apply(R, {}) /\ live' = live \ Gone(R)
    BY <1>2, <1>3, Zenon DEF RxDeregistrationRequest
  <2>. QED
    BY <1>2, <2>1, Settled, Zenon DEF Fated
<1>4. CASE Known(s) /\ nodes[s].uuid = p.body.uuid
  <2>1. s \in Slots /\ nodes[s].state = "Registered"
    BY <1>1, <1>4, Zenon DEF Known, Orderly, Quiet
  <2>2. Apply(Q, {}) /\ live' = live \ {s}
    BY <1>4, Zenon DEF RxDeregistrationRequest
  <2>3. resp \in Packets /\ resp.body \notin Msgs
    <3>1. s \in Addrs /\ "Success" \in Status
      BY <2>1, AddrTypes, Zenon DEF Status
    <3>. QED
      BY <1>1, <3>1, AddrTypes, CoordPackets, OwnPackets, Zenon
  <2>4. StepInv(r) /\ r \in Steps /\ NodeInv(r.n)
    BY <1>2, <2>1, Zenon DEF Good, StepInv
  <2>5. r.cb = {} /\ ~Sent(r) /\ ~Busy(nodes[s])
    <3>1. ~Busy(nodes[s])
      BY <2>1, Zenon DEF Busy
    <3>2. Fate(nodes[s], r)
      BY <1>2, <2>1, Zenon
    <3>. QED
      BY <3>1, <3>2, Zenon DEF Fate, Vacant, Held, Delivered, Failed
  <2> HIDE DEF resp
  <2>6. Keeps(Begin(r.n), a)
    BY <2>3, <2>4, TxPacketKeeps, Zenon
  <2>7. NodeInv(a.n) /\ a.tx \in SUBSET Packets
    BY <2>6, Zenon DEF Keeps, StepInv, Steps
  <2>8. a.tx \subseteq {resp}
    BY Zenon DEF TxPacket, Then, Begin
  <2> HIDE DEF a
  <2>9. StepInv(b) /\ b.n = a.n /\ b.tx = r.tx \cup a.tx /\ b.cb = {}
    <3>1. {} \in SUBSET Calls
      BY Zenon
    <3>2. b.tx = r.tx \cup a.tx /\ b.cb = {}
      BY <2>5, Zenon DEF Then
    <3> HIDE DEF r
    <3>3. StepInv(b) /\ b.n = a.n
      BY <2>4, <2>7, <3>1, ThenStep, Zenon
    <3>. QED
      BY <3>2, <3>3, Zenon
  <2> HIDE DEF b
  <2>10. StepInv(q) /\ q.n.state = "Unregistered" /\ q.gone /\ q.tx = b.tx /\ q.cb = {}
    <3>1. b \in Steps /\ b.n \in Nodes /\ (b.n.ack # Off => b.n.pend \in Packets)
      BY <2>9, Zenon DEF StepInv, NodeInv
    <3>2. StepInv(q) /\ q.n.state = "Unregistered" /\ q.gone
      BY <3>1, DeregisterStep, Zenon
    <3>3. q.tx = b.tx /\ q.cb = {}
      BY <2>9, Zenon DEF Deregister
    <3>. QED
      BY <3>2, <3>3, Zenon
  <2> HIDE DEF q
  <2>11. Fate(nodes[s], q)
    <3>1. \A x \in q.tx : x.body \notin Msgs
      <4>1. \A x \in r.tx : x.body \notin Msgs
        BY <2>5, Zenon DEF Sent
      <4> HIDE DEF r
      <4>. QED
        BY <2>3, <2>8, <2>9, <2>10, <4>1, Zenon
    <3>2. ~Sent(q) /\ ~Busy(q.n)
      BY <2>10, <3>1, Zenon DEF Sent, Busy
    <3>3. Vacant(nodes[s], q)
      BY <2>1, <2>5, <2>10, <3>2, Zenon DEF Vacant
    <3>. QED
      BY <3>1, <3>3, Zenon DEF Fate
  <2> HIDE DEF r, s
  <2>12. Good(Q) /\ (\A t \in Slots : Fate(nodes[t], Q[t])) /\ Gone(Q) = {s}
    BY <1>2, <2>1, <2>10, <2>11, Zenon DEF Good, StepInv, Gone
  <2> HIDE DEF Q
  <2>. QED
    BY <2>2, <2>12, Settled, Zenon DEF Fated
<1>. QED
  BY <1>3, <1>4, Zenon

\* The receive callback.
LEMMA HandleDelivery ==
    ASSUME CoordInv, OrderlyInv, DeliveryInv, NEW p \in ClientPackets, Orderly(p),
           NEW R, Opening(R, p), Handle(R, p)
    PROVE  DeliveryStep
<1>1. /\ Good(R) /\ (\A t \in Slots : R[t].gone = FALSE) /\ Gone(R) = {}
      /\ \A t \in Slots : Fate(nodes[t], R[t])
  BY SoundGood, OpeningFate, Zenon DEF Opening, Gone, CoordInv
<1>2. CASE RxAcknowledgement(R, p)
  <2> DEFINE q == RxAck(R[p.src], p.seq)
             Q == IF Known(p.src) THEN [R EXCEPT ![p.src] = q] ELSE R
  <2>1. Apply(Q, {}) /\ live' = live
    BY <1>2, Zenon DEF RxAcknowledgement
  <2>2. Good(Q) /\ (\A t \in Slots : Fate(nodes[t], Q[t])) /\ Gone(Q) = {}
    <3>1. CASE ~Known(p.src)
      BY <1>1, <3>1, Zenon
    <3>2. CASE Known(p.src)
      <4>1. /\ p.src \in Slots /\ StepInv(R[p.src]) /\ Fate(nodes[p.src], R[p.src])
            /\ R[p.src].gone = FALSE
        BY <1>1, <3>2, Zenon DEF Known, Good
      <4>2. nodes[p.src] \in Nodes /\ Loaded(nodes[p.src])
        BY <4>1, Zenon DEF CoordInv, NodeInv, DeliveryInv, OneHolder
      <4>3. Fate(nodes[p.src], q) /\ StepInv(q) /\ q.gone = FALSE
        BY <4>1, <4>2, RxAckFate, RxAckKeeps, Zenon DEF Keeps
      <4>4. Q = [R EXCEPT ![p.src] = q]
        BY <3>2, Zenon
      <4> HIDE DEF q, Q
      <4>. QED
        BY <1>1, <4>1, <4>3, <4>4, Zenon DEF Good, StepInv, Gone
    <3>. QED
      BY <3>1, <3>2, Zenon
  <2> HIDE DEF Q
  <2>3. live' = live \ Gone(Q)
    BY <2>1, <2>2, Zenon
  <2>. QED
    BY <2>1, <2>2, <2>3, Settled, Zenon DEF Fated
<1>3. CASE RxBeaconRequest(R, p)
  <2>1. Apply(R, {Beacon(FALSE)}) /\ live' = live \ Gone(R)
    BY <1>1, <1>3, Zenon DEF RxBeaconRequest
  <2>2. Fated(R, {Beacon(FALSE)})
    BY <1>1, OwnPackets, Zenon DEF Fated
  <2>. QED
    BY <1>1, <2>1, <2>2, Settled, Zenon
<1>4. CASE RxRegistrationRequest(R, p)
  BY <1>4, RegistrationDelivery, Zenon
<1>5. CASE RxDeregistrationRequest(R, p)
  BY <1>5, DeregistrationDelivery, Zenon
<1>6. CASE RxOther(R, p)
  <2>1. Apply(R, {}) /\ live' = live \ Gone(R)
    BY <1>1, <1>6, Zenon DEF RxOther
  <2>. QED
    BY <1>1, <2>1, Settled, Zenon DEF Fated
<1>. QED
  BY <1>2, <1>3, <1>4, <1>5, <1>6, Zenon DEF Handle

\* Whoever the packet comes from.
LEMMA RecvDelivery ==
    ASSUME CoordInv, OrderlyInv, DeliveryInv, NEW p \in ClientPackets, Orderly(p), RecvCb(p)
    PROVE  DeliveryStep
<1>1. CASE RecvUnassigned(p)
  BY <1>1, RecvOpening, HandleDelivery, Zenon DEF RecvUnassigned
<1>2. CASE RecvKnown(p)
  BY <1>2, RecvOpening, HandleDelivery, Zenon DEF RecvKnown, Known
<1>3. CASE RecvUnknown(p)
  <2> DEFINE resp == Response(p.src, NoUuid, Unassigned, "AddressInvalid")
  <2>1. Apply(Idle, {resp}) /\ live' = live
    BY <1>3, Zenon DEF RecvUnknown
  <2>2. resp.body \notin Msgs
    <3>1. p.src \in Addrs /\ "AddressInvalid" \in Status
      BY ClientPacketTypes, Zenon DEF Packets, Status, CoordInv, TypeOK
    <3>. QED
      BY <3>1, AddrTypes, OwnPackets, Zenon
  <2>3. Good(Idle) /\ live' = live \ Gone(Idle) /\ \A t \in Slots : Fate(nodes[t], Idle[t])
    BY <2>1, IdleSound, SoundGood, RecvOpening, OpeningFate, Zenon DEF Gone, CoordInv
  <2> HIDE DEF resp
  <2>. QED
    BY <2>1, <2>2, <2>3, Settled, Zenon DEF Fated
<1>. QED
  BY <1>1, <1>2, <1>3, Zenon DEF RecvCb

\* A message that no node has.
NotPending(m) == sends[m] # "pending"

\* A packet taken for an idle node of the registry is the service's to settle,
\* or forgotten at once.
LEMMA TakingDelivery ==
    ASSUME CoordInv, OrderlyInv, DeliveryInv, NEW s \in Slots, NEW m \in Msgs, NEW told,
           NotPending(m),
           ~Busy(nodes[s]), nodes[s].state # "Unregistered",
           live' = live, \A t \in Slots \ {s} : nodes'[t] = nodes[t],
           sends' = [sends EXCEPT ![m] = told],
           \A k \in Msgs \ {m} : copies'[k] = copies[k],
           \/ told = "unconfirmed" /\ nodes'[s] = nodes[s]
           \/ /\ told = "pending" /\ Busy(nodes'[s]) /\ Loaded(nodes'[s])
              /\ nodes'[s].cb = m /\ nodes'[s].retries = MAX_RETRIES
              /\ copies'[m] = IF nodes'[s].state = "SendPending" THEN 0 ELSE 1
    PROVE  DeliveryStep
<1>1. sends \in [Msgs -> SendStatus] /\ copies \in [Msgs -> 0 .. MaxCopies]
  BY Zenon DEF CoordInv, TypeOK
<1>2. sends'[m] = told /\ \A k \in Msgs \ {m} : sends'[k] = sends[k]
  BY <1>1, Zenon
<1>3. \A t \in Slots : Busy(nodes[t]) => nodes[t].cb \in Msgs \ {m}
  BY Zenon DEF DeliveryInv, OneHolder, Loaded, NotPending
<1>4. s \in live /\ Inflight(nodes[s]) = NoMsg
  BY Zenon DEF OrderlyInv, AppKnowsRegistry, Inflight
<1>5. Justified
  BY <1>2, Zenon DEF Justified
<1>6. OneHolder'
  <2>1. \A t \in Slots : Loaded(nodes'[t])
    BY Zenon DEF DeliveryInv, OneHolder
  <2>2. \A t \in Slots : Busy(nodes'[t]) => sends'[nodes'[t].cb] = "pending"
    BY <1>2, <1>3 DEF DeliveryInv, OneHolder
  <2>3. \A t, u \in Slots :
           Busy(nodes'[t]) /\ Busy(nodes'[u]) /\ nodes'[t].cb = nodes'[u].cb => t = u
    <3>1. \A t, u \in Slots : Busy(nodes[t]) /\ Busy(nodes[u]) /\ nodes[t].cb = nodes[u].cb => t = u
      BY Zenon DEF DeliveryInv, OneHolder
    <3>2. nodes'[s] = nodes[s] \/ nodes'[s].cb = m
      BY Zenon
    <3>. QED
      BY <1>3, <3>1, <3>2
  <2>4. \A k \in Msgs : sends'[k] # "spurious"
    BY <1>2 DEF DeliveryInv, OneHolder
  <2>. QED
    BY <2>1, <2>2, <2>3, <2>4, Zenon DEF OneHolder, Loaded, Busy
<1>7. RetryBudget'
  <2>1. ASSUME NEW t \in Slots, Busy(nodes'[t]), nodes'[t] = nodes[t]
        PROVE  copies'[nodes'[t].cb] + nodes'[t].retries
                  + (IF nodes'[t].state = "SendPending" THEN 1 ELSE 0) = MAX_RETRIES + 1
    <3>1. Busy(nodes[t]) /\ nodes[t].cb \in Msgs \ {m} /\ nodes[t].cb # NoMsg
      BY <1>3, <2>1, RetryTypes, Zenon
    <3>. QED
      BY <2>1, <3>1, Zenon DEF DeliveryInv, RetryBudget
  <2>2. ASSUME Busy(nodes'[s]), nodes'[s] # nodes[s]
        PROVE  copies'[nodes'[s].cb] + nodes'[s].retries
                  + (IF nodes'[s].state = "SendPending" THEN 1 ELSE 0) = MAX_RETRIES + 1
    <3>1. MAX_RETRIES \in Nat
      BY RetryTypes, Zenon
    <3>2. nodes'[s].cb = m /\ nodes'[s].retries = MAX_RETRIES
          /\ copies'[m] = IF nodes'[s].state = "SendPending" THEN 0 ELSE 1
      BY <2>2, Zenon
    <3>3. 0 + MAX_RETRIES + 1 = MAX_RETRIES + 1 /\ 1 + MAX_RETRIES + 0 = MAX_RETRIES + 1
      BY <3>1
    <3>. QED
      BY <3>2, <3>3, Zenon
  <2>3. \A t \in Slots : Busy(nodes'[t]) =>
           copies'[nodes'[t].cb] + nodes'[t].retries
                  + (IF nodes'[t].state = "SendPending" THEN 1 ELSE 0) = MAX_RETRIES + 1
    BY <2>1, <2>2, Zenon
  <2>. QED
    BY <2>3, Zenon DEF RetryBudget, Busy
<1>8. DeliveredWasSent'
  <2>1. \A k \in Msgs : sends'[k] = "delivered" => k # m
    BY <1>2, Zenon
  <2>2. \A k \in Msgs : sends'[k] = "delivered" => copies'[k] \in 1 .. MAX_RETRIES + 1
    BY <1>2, <2>1, Zenon DEF DeliveryInv, DeliveredWasSent
  <2>. QED
    BY <2>2, Zenon DEF DeliveredWasSent
<1>9. Service!Take(s, m) \/ Service!SendUnconfirmed(s, m)
  <2> DEFINE I == [t \in Slots |-> IF Busy(nodes[t]) THEN nodes[t].cb ELSE NoMsg]
  <2>1. I[s] = NoMsg
    BY <1>4, Zenon DEF Inflight
  <2>2. I' = [t \in Slots |-> Inflight(nodes'[t])] /\ I = [t \in Slots |-> Inflight(nodes[t])]
    BY Zenon DEF Inflight, Busy
  <2> HIDE DEF I
  <2>3. CASE told = "unconfirmed" /\ nodes'[s] = nodes[s]
    <3>1. I' = I
      BY <2>2, <2>3, Zenon
    <3>. QED
      BY <1>4, <2>1, <2>3, <3>1, Zenon DEF Service!SendUnconfirmed, I, NotPending
  <2>4. CASE told = "pending" /\ Busy(nodes'[s]) /\ nodes'[s].cb = m
    <3>1. Inflight(nodes'[s]) = m
      BY <2>4, Zenon DEF Inflight
    <3>2. I' = [I EXCEPT ![s] = m]
      BY <2>2, <3>1, Zenon
    <3>. QED
      BY <1>4, <2>1, <2>4, <3>2, Zenon DEF Service!Take, I, NotPending
  <2>. QED
    BY <2>3, <2>4, Zenon
<1>10. Service!Next
  BY <1>9, Zenon DEF Service!Next
<1>. QED
  BY <1>5, <1>6, <1>7, <1>8, <1>10, Zenon DEF DeliveryStep, DeliveryInv, ServiceStep

\* tinymac_send takes a message for an idle node, sends it and forgets it, or
\* refuses it without a trace.
LEMMA SendDelivery ==
    ASSUME CoordInv, OrderlyInv, DeliveryInv, AppSend(TRUE)
    PROVE  DeliveryStep
<1>1. PICK s \in Slots, ar \in BOOLEAN, m \in Msgs, v \in Validities : Send(s, ar, m, v, TRUE)
  BY Zenon DEF AppSend
<1> DEFINE n == nodes[s]
           p == Packet("Data", net_id, s, COORD_ADDR, NextSeq, ar, m)
           w == IF v = 0 THEN n.heartbeat ELSE v
           r == TxPacket(n, p, w, m)
           q == [n |-> r.n, tx |-> r.tx, cb |-> {}, gone |-> FALSE]
           told == IF ~TxPacketAccepts(n) THEN sends[m]
                   ELSE IF ar \/ n.sleepy THEN "pending" ELSE "unconfirmed"
           R == [Idle EXCEPT ![s] = q]
           status == [sends EXCEPT ![m] = told]
           counts == [copies EXCEPT ![m] = IF TxPacketAccepts(n) THEN 0 ELSE @]
<1>2. /\ Perform(R, {}, status, counts) /\ live' = live
      /\ NotPending(m) /\ n.state # "Unregistered"
  BY <1>1, Zenon DEF Send, NotPending
<1>3. n \in Nodes /\ NodeInv(n) /\ Loaded(n)
  BY Zenon DEF CoordInv, NodeInv, DeliveryInv, OneHolder
<1>4. p.body = m /\ (p.ar <=> ar)
  BY Zenon DEF Packet
<1>5. sends \in [Msgs -> SendStatus] /\ copies \in [Msgs -> 0 .. MaxCopies]
  BY Zenon DEF CoordInv, TypeOK
<1>6. CASE ~TxPacketAccepts(n)
  <2>1. r = Begin(n)
    BY <1>6, Zenon DEF TxPacket, TxPacketAccepts
  <2> HIDE DEF r
  <2>2. q = Begin(n)
    BY <2>1, Zenon DEF Begin
  <2>3. R = Idle /\ status = sends /\ counts = copies
    <3>1. Idle[s] = Begin(n) /\ Idle = [t \in Slots |-> Idle[t]]
      BY Zenon DEF Idle
    <3> HIDE DEF q
    <3>2. R = Idle
      BY <2>2, <3>1, Zenon
    <3>. QED
      BY <1>5, <1>6, <3>2, Zenon
  <2>4. Apply(Idle, {})
    BY <1>2, <2>3, Zenon DEF Apply
  <2>5. Good(Idle) /\ Gone(Idle) = {} /\ \A t \in Slots : Fate(nodes[t], Idle[t])
    <3>1. ASSUME NEW t \in Slots PROVE Fate(nodes[t], Idle[t])
      <4>1. nodes[t] \in Nodes /\ Loaded(nodes[t])
        BY Zenon DEF CoordInv, NodeInv, DeliveryInv, OneHolder
      <4>. QED
        BY <4>1, BeginFate, Zenon DEF Idle
    <3>. QED
      BY <3>1, IdleSound, SoundGood, Zenon DEF Gone, CoordInv
  <2>. QED
    BY <1>2, <2>4, <2>5, Settled, Zenon DEF Fated
<1>7. CASE TxPacketAccepts(n)
  <2> HIDE DEF p, w
  <2>1. n.state = "Registered" /\ ~Busy(n)
    BY <1>7, Zenon DEF TxPacketAccepts, Busy
  <2>2. Takes(n, r, p, m)
    BY <1>3, <2>1, TxPacketTakes, Zenon
  <2>3. counts[m] = 0 /\ \A k \in Msgs \ {m} : counts[k] = copies[k]
    BY <1>5, <1>7, Zenon
  <2>4. told = IF ar \/ n.sleepy THEN "pending" ELSE "unconfirmed"
    BY <1>7, Zenon
  <2> HIDE DEF r, told, counts
  <2>5. nodes'[s] = r.n /\ \A t \in Slots \ {s} : nodes'[t] = nodes[t]
    BY <1>2, Zenon DEF Perform, Idle, Begin
  <2>6. tx' = r.tx
    <3>1. \A t \in Slots : R[t].tx = IF t = s THEN r.tx ELSE {}
      BY Zenon DEF Idle, Begin
    <3> HIDE DEF R
    <3>2. tx' = UNION {R[t].tx : t \in Slots}
      BY <1>2, Zenon DEF Perform
    <3>. QED
      BY <3>1, <3>2, Zenon
  <2>7. sends' = [sends EXCEPT ![m] = told]
    <3>1. \A t \in Slots : R[t].cb = {}
      BY Zenon DEF Idle, Begin
    <3> HIDE DEF R
    <3>2. \A k \in Msgs : Callbacks(R, k) = {}
      BY <3>1, Zenon DEF Callbacks
    <3>3. \A k \in Msgs : sends'[k] = status[k]
      BY <1>2, <3>2, Zenon DEF Perform, Outcome
    <3>4. sends' = [k \in Msgs |-> sends'[k]] /\ status = [k \in Msgs |-> status[k]]
      BY <1>2, <1>5, Zenon DEF Perform
    <3> HIDE DEF status
    <3>5. sends' = status
      BY <3>3, <3>4, Zenon
    <3>. QED
      BY <3>5, Zenon DEF status
  <2>8. /\ copies'[m] = IF r.tx = {} THEN 0 ELSE 1
        /\ \A k \in Msgs \ {m} : copies'[k] = copies[k]
    <3>1. \A k \in Msgs : copies'[k] = Copies(counts[k], k, r.tx)
      BY <1>2, <2>6, Zenon DEF Perform
    <3>2. \A x \in r.tx : x.body = m
      BY <1>4, <2>2, Zenon DEF Takes
    <3>3. 0 < MaxCopies
      BY NodeConstants DEF MaxCopies
    <3>4. \A k \in Msgs \ {m} : copies'[k] = copies[k]
      BY <2>3, <3>1, <3>2 DEF Copies
    <3>5. copies'[m] = Copies(0, m, r.tx)
      BY <2>3, <3>1, Zenon
    <3>6. r.tx # {} <=> \E x \in r.tx : x.body = m
      BY <3>2, Zenon
    <3>. QED
      BY <3>3, <3>4, <3>5, <3>6 DEF Copies
  <2>9. CASE r.n = n /\ ~n.sleepy /\ ~p.ar
    BY <1>2, <1>4, <2>1, <2>4, <2>5, <2>7, <2>8, <2>9, TakingDelivery, Zenon
  <2>10. CASE /\ r.n.cb = m /\ r.n.pend = p /\ r.n.retries = MAX_RETRIES
              /\ \/ n.sleepy /\ r.n.state = "SendPending" /\ r.tx = {}
                 \/ ~n.sleepy /\ p.ar /\ r.n.state = "WaitAck" /\ r.tx = {p}
    <3>1. Busy(r.n) /\ Loaded(r.n)
      <4>1. MAX_RETRIES <= MAX_RETRIES
        BY RetryTypes, Zenon
      <4>2. Busy(r.n) /\ r.n.cb = m /\ r.n.pend = p /\ r.n.retries = MAX_RETRIES
        BY <2>10, Zenon DEF Busy
      <4>. QED
        BY <1>4, <4>1, <4>2, Zenon DEF Loaded
    <3>2. told = "pending" /\ copies'[m] = IF r.n.state = "SendPending" THEN 0 ELSE 1
      BY <1>4, <2>4, <2>8, <2>10, Zenon
    <3>. QED
      BY <1>2, <2>1, <2>5, <2>7, <2>8, <2>10, <3>1, <3>2, TakingDelivery, Zenon
  <2>. QED
    BY <2>2, <2>9, <2>10, Zenon DEF Takes
<1>. QED
  BY <1>6, <1>7, Zenon

\* tinymac_permit_attach, like a step of something else, touches no packet.
LEMMA IdleDelivery ==
    ASSUME DeliveryInv, UNCHANGED <<nodes, sends, copies, live>>
    PROVE  DeliveryStep
<1>1. DeliveryInv'
  BY Zenon DEF DeliveryInv, OneHolder, Loaded, Busy, RetryBudget, DeliveredWasSent
<1>2. UNCHANGED Service!vars
  BY Zenon DEF Service!vars, Busy
<1>3. Justified
  BY Zenon DEF Justified
<1>. QED
  BY <1>1, <1>2, <1>3, Zenon DEF DeliveryStep, ServiceStep

\* At the start nothing is in flight and nobody is registered.
LEMMA InitDelivery ==
    ASSUME Init
    PROVE  DeliveryInv /\ Service!Init
<1>1. \A s \in Slots : ~Busy(nodes[s])
  BY Zenon DEF Init, InitNode, Busy
<1>2. \A m \in Msgs : sends[m] = "idle"
  BY Zenon DEF Init
<1>3. DeliveryInv
  BY <1>1, <1>2, Zenon DEF DeliveryInv, OneHolder, Loaded, RetryBudget, DeliveredWasSent
<1>4. [s \in Slots |-> IF Busy(nodes[s]) THEN nodes[s].cb ELSE NoMsg] = [s \in Slots |-> NoMsg]
  BY <1>1, Zenon
<1>5. live = {} /\ sends = [m \in Msgs |-> "idle"]
  BY Zenon DEF Init
<1>. QED
  BY <1>3, <1>4, <1>5, Zenon DEF Service!Init

\* Every step of the orderly coordinator keeps what is promised about packets
\* and is a step of the service, or none.
LEMMA OrderlyDelivery ==
    ASSUME CoordInv, OrderlyInv, DeliveryInv, [OrderlyNext]_vars
    PROVE  DeliveryStep
<1>1. CASE AppSend(TRUE)
  BY <1>1, SendDelivery, Zenon
<1>2. ASSUME NEW permit \in BOOLEAN, PermitAttach(permit) PROVE DeliveryStep
  BY <1>2, IdleDelivery, Zenon DEF PermitAttach
<1>3. ASSUME NEW p \in ClientPackets, Orderly(p), RecvCb(p) PROVE DeliveryStep
  BY <1>3, RecvDelivery, Zenon
<1>4. CASE TickHandler
  BY <1>4, TickDelivery, Zenon
<1>5. CASE UNCHANGED vars
  BY <1>5, IdleDelivery, Zenon DEF vars
<1>. QED
  BY <1>1, <1>2, <1>3, <1>4, <1>5, Zenon DEF OrderlyNext

\* For any number of slots, devices, messages and retries, the orderly
\* coordinator implements the service its application relies on: each packet
\* tinymac_send takes is settled at most once, by the node it was for, and no
\* node is given up with a packet in flight.
THEOREM CoordImplementsService == OrderlySpec => ImplementsService
<1> DEFINE Inv == CoordInv /\ OrderlyInv /\ DeliveryInv
<1>1. Init => Inv /\ Service!Init
  BY InitInv, InitDelivery, Zenon
<1>2. Inv /\ [OrderlyNext]_vars => Inv' /\ [Service!Next]_(Service!vars)
  BY OrderlyNextInv, OrderlyDelivery, Zenon DEF DeliveryStep, ServiceStep
<1> HIDE DEF Inv
<1>. QED
  BY <1>1, <1>2, PTL DEF OrderlySpec, ImplementsService, Service!Spec

\* Over any mixture of deferrals, timeouts and re-sends, what has been sent of
\* a packet in flight and what is left to send add up.
THEOREM CoordRetryBudget == OrderlySpec => []RetryBudget
<1> DEFINE Inv == CoordInv /\ OrderlyInv /\ DeliveryInv
<1>1. Init => Inv
  BY InitInv, InitDelivery, Zenon
<1>2. Inv /\ [OrderlyNext]_vars => Inv'
  BY OrderlyNextInv, OrderlyDelivery, Zenon DEF DeliveryStep
<1>3. Inv => RetryBudget
  BY Zenon DEF DeliveryInv
<1> HIDE DEF Inv
<1>. QED
  BY <1>1, <1>2, <1>3, PTL DEF OrderlySpec

\* What is reported delivered went on the air, and no oftener than the retries
\* allow.
THEOREM CoordDeliveredWasSent == OrderlySpec => []DeliveredWasSent
<1> DEFINE Inv == CoordInv /\ OrderlyInv /\ DeliveryInv
<1>1. Init => Inv
  BY InitInv, InitDelivery, Zenon
<1>2. Inv /\ [OrderlyNext]_vars => Inv'
  BY OrderlyNextInv, OrderlyDelivery, Zenon DEF DeliveryStep
<1>3. Inv => DeliveredWasSent
  BY Zenon DEF DeliveryInv
<1> HIDE DEF Inv
<1>. QED
  BY <1>1, <1>2, <1>3, PTL DEF OrderlySpec

\* What is reported failed has used up its retries, or its validity period at
\* a sleepy node.
THEOREM CoordFailureJustified == OrderlySpec => FailureJustified
<1> DEFINE Inv == CoordInv /\ OrderlyInv /\ DeliveryInv
<1>1. Init => Inv
  BY InitInv, InitDelivery, Zenon
<1>2. Inv /\ [OrderlyNext]_vars => Inv' /\ Justified
  BY OrderlyNextInv, OrderlyDelivery, Zenon DEF DeliveryStep
<1> HIDE DEF Inv
<1>3. Inv /\ [OrderlyNext]_vars => Inv' /\ [Justified]_vars
  BY <1>2, Zenon
<1>. QED
  BY <1>1, <1>3, PTL DEF OrderlySpec, FailureJustified, Justified
=============================================================================
