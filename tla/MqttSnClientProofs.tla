------------------------- MODULE MqttSnClientProofs -------------------------
(***************************************************************************)
(* Proofs about the MQTT-SN client, for any topic table, any number of     *)
(* retries and any timing, whatever the gateway answers and when.          *)
(***************************************************************************)
EXTENDS MqttSnClient, TLAPS, WellFoundedInduction

----------------------------------------------------------------------------
(* The inductive invariant. *)

Waiting == {"Connecting", "Busy", "Disconnecting"}

TopicRequests == {"REGISTER", "SUBSCRIBE"}

\* Busy with a topic of the table: the counter is one ahead of it.
Registers(c) ==
    /\ c.message.type \in TopicRequests /\ c.message.id \in Topics /\ c.message.topic = 0
    /\ c.count = c.message.id + 1
    /\ ~c.is_registered

\* Busy with a message of the application.
Publishes(c) == c.message.type = "PUBLISH" /\ c.message.id \in MsgIds /\ c.is_registered

\* What holds of the client all through a call of the handler.  A retry comes
\* no later than a ping would.
Sound(c) ==
    /\ c \in Contexts
    /\ c.state \in Waiting <=> c.t_retry # Off
    /\ c.t_retry <= c.next_ping
    /\ c.state = "Connected" => c.is_registered
    /\ c.state = "Registering" => ~c.is_registered
    /\ c.state = "Connecting" => c.message.type = "CONNECT"
    /\ c.state = "Disconnecting" => c.message.type = "DISCONNECT"
    /\ c.state = "Busy" => Registers(c) \/ Publishes(c)
    /\ \A i \in Topics : c.topic_ids[i] \in {0, TopicId[i]}

\* The topics that have been gone through.
Behind(c) ==
    {i \in Topics : \/ c.is_registered
                    \/ c.state = "Busy" /\ i < c.count - 1
                    \/ c.state = "Registering" /\ i < c.count}

Answered(c, no) == \A i \in Behind(c) : c.topic_ids[i] = TopicId[i] \/ i \in no

\* What the client can have sent: no publication before it has registered.
Request(m, registered) ==
    /\ m.type \notin {"none", "PINGREQ"}
    /\ m.type \in TopicRequests => m.id \in Topics /\ m.topic = 0
    /\ m.type = "PUBLISH" => m.id \in MsgIds /\ registered

\* Between two calls.
Resting(c) ==
    /\ c.state # "Registering"
    /\ c.t_retry # 0
    /\ c.state = "Connected" => c.next_ping # 0

MqttInv ==
    /\ MqttTypeOK
    /\ Sound(ctx) /\ Resting(ctx) /\ Answered(ctx, refused)
    /\ ctx.state # "Disconnected" => idle + ctx.next_ping = KEEP_ALIVE
    /\ RetriesCounted
    /\ \A m \in sent : Request(m, ctx.is_registered)
    /\ \A id \in MsgIds : pub[id] # "spurious"
    /\ ctx.state = "Busy" /\ ctx.message.type = "PUBLISH" => pub[ctx.message.id] = "pending"
    /\ InboundSubscribed

----------------------------------------------------------------------------
(* Parts of a step, field by field. *)

Steps == [c : Contexts, out : SUBSET Messages, up : SUBSET Calls]

\* n_retries and the count of transmissions are numbers.
LEMMA CountTypes ==
    /\ MaxCopies \in Nat /\ MaxCopies >= 2
    /\ \A n \in 0 .. MaxCopies : n \in Nat
    /\ \A n \in 0 .. N_RETRY : n \in Nat
    /\ MqttTypeOK => copies \in 0 .. MaxCopies
    /\ \A q \in Steps : q.c \in Contexts /\ q.c.n_retries \in 0 .. N_RETRY
<1>1. MaxCopies \in Nat /\ MaxCopies >= 2
  BY MqttConstants DEF MaxCopies
<1>2. MqttTypeOK => copies \in 0 .. MaxCopies
  BY Zenon DEF MqttTypeOK
<1>3. \A q \in Steps : q.c \in Contexts
  BY Zenon DEF Steps
<1>4. \A c \in Contexts : c.n_retries \in 0 .. N_RETRY
  BY Zenon DEF Contexts
<1>5. /\ \A n \in 0 .. MaxCopies : n \in Nat
      /\ \A n \in 0 .. N_RETRY : n \in Nat
  BY <1>1, MqttConstants
<1>. QED
  BY <1>1, <1>2, <1>3, <1>4, <1>5, Zenon

\* No retry due is none due before the next ping.
LEMMA NoRetryDue ==
    \A q \in Steps : q.c.t_retry = Off => q.c.t_retry <= q.c.next_ping
<1>1. \A q \in Steps : q.c.next_ping \in 0 .. KEEP_ALIVE
  BY Zenon DEF Steps, Contexts
<1>. QED
  BY <1>1, MqttConstants DEF Off

\* mqttsn_c_t but for the message, the state and the timers.
SameTable(c, d) ==
    /\ c.count = d.count /\ c.next_id = d.next_id
    /\ c.topic_ids = d.topic_ids /\ c.is_registered = d.is_registered

\* A change of state cancels the retries and nothing else.
LEMMA ToStateFields ==
    ASSUME NEW k \in Steps, NEW st \in States
    PROVE  LET q == ToState(k, st)
           IN  /\ q \in Steps /\ q.out = k.out /\ q.up = k.up
               /\ q.c.state = st /\ q.c.n_retries = 0 /\ q.c.t_retry = Off
               /\ SameTable(q.c, k.c) /\ q.c.message = k.c.message /\ q.c.next_ping = k.c.next_ping
<1> DEFINE d == [k.c EXCEPT !.state = st, !.n_retries = 0, !.t_retry = Off]
<1>1. k.c \in Contexts
  BY Zenon DEF Steps
<1>2. /\ d \in Contexts /\ d.state = st /\ d.n_retries = 0 /\ d.t_retry = Off
      /\ SameTable(d, k.c) /\ d.message = k.c.message /\ d.next_ping = k.c.next_ping
  <2>1. 0 \in 0 .. N_RETRY /\ Off \in {Off} \cup 0 .. T_RETRY
    BY MqttConstants
  <2>2. d \in Contexts
    BY <1>1, <2>1, Zenon DEF Contexts
  <2>. QED
    BY <1>1, <2>2, Zenon DEF Contexts, SameTable
<1>3. ToState(k, st) = [k EXCEPT !.c = d]
  BY Zenon DEF ToState, Steps
<1> HIDE DEF d
<1>. QED
  BY <1>2, <1>3, Zenon DEF Steps

\* cb_send is given the buffer, and the ping timer starts again.
LEMMA EmitFields ==
    ASSUME NEW k \in Steps
    PROVE  LET q == Emit(k)
           IN  /\ q \in Steps /\ q.out = k.out \cup {k.c.message} /\ q.up = k.up
               /\ q.c.next_ping = KEEP_ALIVE
               /\ SameTable(q.c, k.c) /\ q.c.message = k.c.message /\ q.c.state = k.c.state
               /\ q.c.n_retries = k.c.n_retries /\ q.c.t_retry = k.c.t_retry
<1> DEFINE d == [k.c EXCEPT !.next_ping = KEEP_ALIVE]
<1>1. k.c \in Contexts /\ k.c.message \in Messages
  BY Zenon DEF Steps, Contexts
<1>2. /\ d \in Contexts /\ d.next_ping = KEEP_ALIVE
      /\ SameTable(d, k.c) /\ d.message = k.c.message /\ d.state = k.c.state
      /\ d.n_retries = k.c.n_retries /\ d.t_retry = k.c.t_retry
  BY <1>1, MqttConstants DEF Contexts, SameTable
<1>3. Emit(k) = [k EXCEPT !.out = k.out \cup {k.c.message}, !.c = d]
  BY Zenon DEF Emit, Steps
<1> HIDE DEF d
<1>. QED
  BY <1>1, <1>2, <1>3, Zenon DEF Steps

\* The step q sends message m, with retries or without.
Sends(k, q, m, do_retry) ==
    /\ q \in Steps /\ q.out = k.out \cup {m} /\ q.up = k.up
    /\ q.c.next_ping = KEEP_ALIVE
    /\ SameTable(q.c, k.c) /\ q.c.message = m /\ q.c.state = k.c.state
    /\ q.c.n_retries = IF do_retry THEN N_RETRY ELSE k.c.n_retries
    /\ q.c.t_retry = IF do_retry THEN T_RETRY ELSE k.c.t_retry

\* mqttsn_send.
LEMMA SendFields ==
    ASSUME NEW k \in Steps, NEW type \in MsgTypes, NEW id \in MsgIds \cup Topics,
           NEW topic \in TopicIds, NEW do_retry \in BOOLEAN
    PROVE  Sends(k, Send(k, type, id, topic, do_retry), [type |-> type, id |-> id, topic |-> topic],
                 do_retry)
<1> DEFINE m == [type |-> type, id |-> id, topic |-> topic]
           c == [k.c EXCEPT !.message = m]
           d == IF do_retry THEN [c EXCEPT !.n_retries = N_RETRY, !.t_retry = T_RETRY] ELSE c
           u == [k EXCEPT !.c = d]
<1>1. k.c \in Contexts /\ m \in Messages
  BY Zenon DEF Steps, Messages
<1>2. Send(k, type, id, topic, do_retry) = Emit(u)
  BY Zenon DEF Send
<1> HIDE DEF m
<1>3. /\ c \in Contexts /\ SameTable(c, k.c) /\ c.message = m /\ c.state = k.c.state
      /\ c.n_retries = k.c.n_retries /\ c.t_retry = k.c.t_retry
  BY <1>1, Zenon DEF Contexts, SameTable
<1> HIDE DEF c
<1>4. /\ d \in Contexts /\ SameTable(d, k.c) /\ d.message = m /\ d.state = k.c.state
      /\ d.n_retries = IF do_retry THEN N_RETRY ELSE k.c.n_retries
      /\ d.t_retry = IF do_retry THEN T_RETRY ELSE k.c.t_retry
  <2>1. CASE ~do_retry
    BY <1>3, <2>1, Zenon
  <2>2. CASE do_retry
    <3>1. d = [c EXCEPT !.n_retries = N_RETRY, !.t_retry = T_RETRY]
      BY <2>2, Zenon
    <3>2. N_RETRY \in 0 .. N_RETRY /\ T_RETRY \in 0 .. T_RETRY
      BY MqttConstants
    <3> HIDE DEF d
    <3>. QED
      BY <1>3, <2>2, <3>1, <3>2, Zenon DEF Contexts, SameTable
  <2>. QED
    BY <2>1, <2>2, Zenon
<1> HIDE DEF d
<1>5. u \in Steps /\ u.c = d /\ u.out = k.out /\ u.up = k.up
  BY <1>4, Zenon DEF Steps
<1> HIDE DEF u
<1>6. LET q == Emit(u)
      IN  /\ q \in Steps /\ q.out = k.out \cup {m} /\ q.up = k.up
          /\ q.c.next_ping = KEEP_ALIVE
          /\ SameTable(q.c, d) /\ q.c.message = m /\ q.c.state = d.state
          /\ q.c.n_retries = d.n_retries /\ q.c.t_retry = d.t_retry
  BY <1>4, <1>5, EmitFields, Zenon
<1>. QED
  BY <1>2, <1>4, <1>6, Zenon DEF SameTable, Sends, m

\* A step begins with the client as it is.
LEMMA BeginFields ==
    ASSUME NEW c \in Contexts
    PROVE  /\ Begin(c) \in Steps /\ Begin(c).c = c /\ Begin(c).out = {} /\ Begin(c).up = {}
  BY Zenon DEF Begin, Steps

----------------------------------------------------------------------------
(* The handler.  It is called with the client c, w seconds after something *)
(* was last sent, its message having been sent n times.                    *)

Since(k, w) == IF k.out = {} THEN w ELSE 0

Tally(k, c, n) ==
    IF k.out = {} THEN n
    ELSE IF k.c.message # c.message THEN 1
    ELSE IF n < MaxCopies THEN n + 1 ELSE n

\* When the handler is called: a retry or a ping may be due.
Called(c, w, n) ==
    /\ Sound(c) /\ c.state # "Registering"
    /\ w \in 0 .. KEEP_ALIVE /\ n \in 0 .. MaxCopies
    /\ c.state # "Disconnected" => w + c.next_ping = KEEP_ALIVE
    /\ c.t_retry # Off => n + c.n_retries = N_RETRY + 1

\* In its course.
Underway(k, c, w, n) ==
    /\ k \in Steps /\ Sound(k.c) /\ k.c.t_retry # 0
    /\ k.c.state # "Disconnected" => Since(k, w) + k.c.next_ping = KEEP_ALIVE
    /\ k.c.t_retry # Off => Tally(k, c, n) + k.c.n_retries = N_RETRY + 1
    /\ \A m \in k.out : m.type = "PINGREQ" \/ Request(m, k.c.is_registered)

\* Sound speaks of these fields only.
LEMMA SoundSame ==
    ASSUME NEW c, Sound(c), NEW d \in Contexts, SameTable(d, c), d.message = c.message,
           d.state = c.state, d.t_retry # Off <=> c.t_retry # Off, d.t_retry <= d.next_ping
    PROVE  Sound(d)
  BY Zenon DEF Sound, SameTable, Registers, Publishes

\* Giving up.
LEMMA SoundDisconnected ==
    ASSUME NEW c, Sound(c), NEW d \in Contexts, SameTable(d, c),
           d.state = "Disconnected", d.t_retry = Off
    PROVE  Sound(d)
<1>1. d.t_retry <= d.next_ping
  BY MqttConstants DEF Contexts, Off
<1>. QED
  BY <1>1, Zenon DEF Sound, SameTable, Waiting

\* The message a waiting client sends again is a request.
LEMMA WaitingRequest ==
    ASSUME NEW c, Sound(c), c.state \in Waiting
    PROVE  Request(c.message, c.is_registered)
  BY Zenon DEF Sound, Waiting, Registers, Publishes, Request, TopicRequests

\* A due retry is sent and counted, or the client gives up.
LEMMA RetryStep ==
    ASSUME NEW c, NEW w, NEW n, Called(c, w, n)
    PROVE  LET k == Retry(Begin(c))
           IN  /\ Underway(k, c, w, n) /\ k.up = {}
               /\ k.c.state \in {c.state, "Disconnected"}
               /\ k.c.message = c.message /\ SameTable(k.c, c)
               /\ k.out # {} => k.c.state \in Waiting
<1> DEFINE b == Begin(c)
           k == Retry(b)
<1>1. c \in Contexts /\ b \in Steps /\ b.c = c /\ b.out = {} /\ b.up = {}
  BY BeginFields, Zenon DEF Called, Sound
<1> HIDE DEF b
<1>2. CASE c.t_retry # 0
  <2>1. k = b
    BY <1>1, <1>2, Zenon DEF Retry
  <2>2. Underway(b, c, w, n)
    BY <1>1, <1>2, Zenon DEF Underway, Called, Since, Tally
  <2>. QED
    BY <1>1, <2>1, <2>2, Zenon DEF SameTable, b
<1>3. CASE c.t_retry = 0 /\ c.n_retries # 0
  <2> DEFINE d == [c EXCEPT !.n_retries = c.n_retries - 1, !.t_retry = T_RETRY]
             u == [b EXCEPT !.c = d]
  <2>1. k = Emit(u)
    <3>1. [b EXCEPT !.c.n_retries = @ - 1, !.c.t_retry = T_RETRY] = u
      BY <1>1, Zenon DEF Steps
    <3>. QED
      BY <1>1, <1>3, <3>1, Zenon DEF Retry
  <2>2. c.n_retries - 1 \in 0 .. N_RETRY /\ T_RETRY \in 0 .. T_RETRY
    BY <1>1, <1>3, MqttConstants DEF Contexts
  <2>3. /\ d \in Contexts /\ SameTable(d, c) /\ d.message = c.message /\ d.state = c.state
        /\ d.n_retries = c.n_retries - 1 /\ d.t_retry = T_RETRY
    BY <1>1, <2>2, Zenon DEF Contexts, SameTable
  <2> HIDE DEF d
  <2>4. u \in Steps /\ u.c = d /\ u.out = {} /\ u.up = {}
    BY <1>1, <2>3, Zenon DEF Steps
  <2> HIDE DEF u, k
  <2>5. /\ k \in Steps /\ k.out = {c.message} /\ k.up = {} /\ k.c.next_ping = KEEP_ALIVE
        /\ SameTable(k.c, c) /\ k.c.message = c.message /\ k.c.state = c.state
        /\ k.c.n_retries = c.n_retries - 1 /\ k.c.t_retry = T_RETRY
    BY <2>1, <2>3, <2>4, EmitFields, Zenon DEF SameTable
  <2>6. c.state \in Waiting
    BY <1>3 DEF Called, Sound, Off
  <2>7. Sound(k.c)
    <3>1. k.c \in Contexts /\ k.c.t_retry <= k.c.next_ping /\ k.c.t_retry # Off /\ c.t_retry # Off
      BY <1>3, <2>5, MqttConstants DEF Steps, Off
    <3>. QED
      BY <2>5, <3>1, SoundSame, Zenon DEF Called
  <2>8. Tally(k, c, n) + k.c.n_retries = N_RETRY + 1
    <3>1. n + c.n_retries = N_RETRY + 1 /\ n \in Nat /\ c.n_retries \in Nat \ {0}
      BY <1>1, <1>3 DEF Called, Off, Contexts
    <3>2. n < MaxCopies
      BY <3>1, MqttConstants DEF MaxCopies
    <3>. QED
      BY <2>5, <3>1, <3>2 DEF Tally
  <2>9. \A m \in k.out : Request(m, k.c.is_registered)
    BY <2>5, <2>6, WaitingRequest, Zenon DEF Called, SameTable
  <2>10. Since(k, w) + k.c.next_ping = KEEP_ALIVE /\ k.c.t_retry # 0
    BY <2>5, MqttConstants DEF Since
  <2>11. Underway(k, c, w, n)
    BY <2>5, <2>7, <2>8, <2>9, <2>10, Zenon DEF Underway
  <2>. QED
    BY <2>5, <2>6, <2>11, Zenon DEF k, b
<1>4. CASE c.t_retry = 0 /\ c.n_retries = 0
  <2>1. k = ToState(b, "Disconnected")
    BY <1>1, <1>4, Zenon DEF Retry
  <2> HIDE DEF k
  <2>2. /\ k \in Steps /\ k.out = {} /\ k.up = {} /\ k.c.state = "Disconnected"
        /\ k.c.t_retry = Off /\ SameTable(k.c, c) /\ k.c.message = c.message
    BY <1>1, <2>1, ToStateFields, Zenon DEF States
  <2>3. Sound(k.c)
    BY <2>2, SoundDisconnected, Zenon DEF Called, Steps
  <2>4. Underway(k, c, w, n)
    BY <2>2, <2>3 DEF Underway, Off
  <2>. QED
    BY <2>2, <2>4, Zenon DEF k, b
<1>. QED
  BY <1>2, <1>3, <1>4, Zenon

\* After retrying and pinging: no ping is due.
Polled(k, c, w, n) ==
    /\ Underway(k, c, w, n) /\ Resting(k.c) /\ k.up = {} /\ SameTable(k.c, c)
    /\ k.c.state \in {c.state, "Disconnected"} /\ k.c.state = Retry(Begin(c)).c.state
    /\ k.c.state # "Connected" => k.c = Retry(Begin(c)).c /\ k.c.message = c.message

\* A ping is sent when one is due, to a client that waits for nothing.
LEMMA PingStep ==
    ASSUME NEW c, NEW w, NEW n, Called(c, w, n)
    PROVE  Polled(Ping(Retry(Begin(c))), c, w, n)
<1> DEFINE r == Retry(Begin(c))
           k == Ping(r)
<1>1. /\ Underway(r, c, w, n) /\ r.up = {} /\ r.c.state \in {c.state, "Disconnected"}
      /\ r.c.message = c.message /\ SameTable(r.c, c) /\ (r.out # {} => r.c.state \in Waiting)
  BY RetryStep, Zenon
<1>2. r \in Steps /\ r.c \in Contexts /\ Sound(r.c) /\ r.c.t_retry # 0
  BY <1>1, Zenon DEF Underway, Sound
<1>3. r.c.state # "Registering"
  BY <1>1, Zenon DEF Called
<1> HIDE DEF r
<1>4. CASE ~(r.c.state = "Connected" /\ r.c.next_ping = 0)
  <2>1. k = r
    BY <1>4, Zenon DEF Ping
  <2>2. Resting(r.c)
    BY <1>2, <1>3, <1>4, Zenon DEF Resting
  <2>3. Polled(r, c, w, n)
    BY <1>1, <2>2, Zenon DEF Polled, r
  <2>. QED
    BY <2>1, <2>3, Zenon DEF r
<1>5. CASE r.c.state = "Connected" /\ r.c.next_ping = 0
  <2> DEFINE m == [type |-> "PINGREQ", id |-> r.c.message.id, topic |-> r.c.message.topic]
  <2>1. k = Send(r, "PINGREQ", r.c.message.id, r.c.message.topic, FALSE)
    BY <1>5, Zenon DEF Ping
  <2>2. "PINGREQ" \in MsgTypes /\ r.c.message.id \in MsgIds \cup Topics /\ r.c.message.topic \in TopicIds
    BY <1>2, Zenon DEF Contexts, Messages, MsgTypes
  <2>3. r.out = {} /\ r.c.t_retry = Off
    BY <1>1, <1>2, <1>5, Zenon DEF Waiting, Sound
  <2> HIDE DEF k
  <2>4. /\ k \in Steps /\ k.out = {m} /\ k.up = {} /\ k.c.next_ping = KEEP_ALIVE
        /\ SameTable(k.c, r.c) /\ k.c.state = "Connected" /\ k.c.t_retry = Off
    <3>1. FALSE \in BOOLEAN
      BY Zenon
    <3>2. Sends(r, k, m, FALSE)
      BY <1>2, <2>1, <2>2, <3>1, SendFields, Zenon
    <3> HIDE DEF m
    <3>. QED
      BY <1>1, <1>5, <2>3, <3>2, Zenon DEF Sends
  <2>5. Sound(k.c)
    <3>1. k.c \in Contexts /\ k.c.t_retry <= k.c.next_ping
      BY <2>4, MqttConstants DEF Steps, Off
    <3>. QED
      BY <1>2, <1>5, <2>4, <3>1, Zenon DEF Sound, SameTable, Waiting
  <2>6. k.out # {} /\ \A x \in k.out : x.type = "PINGREQ"
    BY <2>4
  <2> HIDE DEF m
  <2>7. Since(k, w) + k.c.next_ping = KEEP_ALIVE /\ k.c.next_ping # 0
    BY <2>4, <2>6, MqttConstants DEF Since
  <2>8. Underway(k, c, w, n) /\ Resting(k.c)
    BY <2>4, <2>5, <2>6, <2>7 DEF Underway, Resting, Off
  <2>9. SameTable(k.c, c) /\ c.state = "Connected"
    BY <1>1, <1>5, <2>4, Zenon DEF SameTable
  <2>10. Polled(k, c, w, n)
    BY <1>5, <2>4, <2>8, <2>9, Zenon DEF Polled, r
  <2>. QED
    BY <2>10, Zenon DEF k, r
<1>. QED
  BY <1>4, <1>5, Zenon

----------------------------------------------------------------------------
(* What arrives. *)

\* An answer: to a request, or a publication on a subscribed topic.
Possible(p, registered) ==
    /\ p.ok \in BOOLEAN /\ p.to \in Messages
    /\ p.to.type \in TopicRequests => p.to.id \in Topics /\ p.to.topic = 0
    /\ p.to.type = "PUBLISH" => p.to.id \in MsgIds /\ registered
    /\ p.to.type = "none" => p.to.topic # 0

\* What the gateway can answer is possible.
LEMMA AnswersPossible ==
    ASSUME sent \in SUBSET Messages, NEW registered, \A m \in sent : Request(m, registered),
           NEW p \in Answers \cup {Nothing}
    PROVE  Possible(p, registered)
<1>1. /\ 0 \in MsgIds \cup Topics /\ 0 \in TopicIds
      /\ {"DISCONNECT", "none", "PINGREQ"} \subseteq MsgTypes
  BY MqttConstants DEF MsgIds, TopicIds, MsgTypes
<1>2. CASE p \in [to : sent, ok : BOOLEAN]
  BY <1>2, Zenon DEF Possible, Request
<1>3. CASE p = [to |-> [type |-> "DISCONNECT", id |-> 0, topic |-> 0], ok |-> TRUE]
  BY <1>1, <1>3, Zenon DEF Possible, TopicRequests, Messages
<1>4. CASE p \in {[to |-> [type |-> "none", id |-> 0, topic |-> TopicId[m.id]], ok |-> TRUE]
                    : m \in {x \in sent : x.type = "SUBSCRIBE"}}
  <2>1. PICK m \in sent : /\ m.type = "SUBSCRIBE"
                          /\ p = [to |-> [type |-> "none", id |-> 0, topic |-> TopicId[m.id]], ok |-> TRUE]
    BY <1>4, Zenon
  <2>2. TopicId[m.id] # 0 /\ TopicId[m.id] \in TopicIds
    BY <2>1, MqttConstants, Zenon DEF Request, TopicRequests, TopicIds
  <2>. QED
    BY <1>1, <2>1, <2>2, Zenon DEF Possible, TopicRequests, Messages
<1>5. CASE p = Nothing
  BY <1>1, <1>5, Zenon DEF Nothing, Possible, TopicRequests, Messages
<1>. QED
  BY <1>2, <1>3, <1>4, <1>5, Zenon DEF Answers

\* The refused topics after the packet p has come to the client a.
Refused(no, a, p) ==
    IF ~(a.state = "Busy" /\ a.message = p.to /\ p.to.type \in TopicRequests) THEN no
    ELSE IF p.ok THEN no \ {p.to.id} ELSE no \cup {p.to.id}

\* What the application is told: nothing, a publication under its own entry,
\* or the end of the publish that was waited for.
Told(k, q) ==
    \/ q.up = {}
    \/ \E i \in Subscribed : q.up = {[call |-> "publish", topic |-> TopicId[i], index |-> i]}
    \/ \E ok \in BOOLEAN : /\ q.up = {[call |-> "puback", id |-> k.c.message.id, ok |-> ok]}
                           /\ k.c.state = "Busy" /\ k.c.message.type = "PUBLISH"
                           /\ k.c.message.id \in MsgIds
                           /\ q.c.state = "Connected"

\* What that leaves to say of the callbacks.
LEMMA ToldFacts ==
    ASSUME NEW k, NEW q, Told(k, q)
    PROVE  /\ q.c.state = "Busy" => \A u \in q.up : u.call # "puback"
           /\ \A u \in q.up :
                /\ u.call = "puback" => /\ u.id = k.c.message.id
                                       /\ k.c.state = "Busy" /\ k.c.message.type = "PUBLISH"
                /\ u.call = "publish" =>
                     u.index \in Subscribed /\ u.topic = TopicId[u.index]
  BY DEF Told

\* After the packet, which may have ended the wait.
Processed(k, q, c, w, n, no) ==
    /\ Underway(q, c, w, n)
    /\ q.c.state \in {"Connected", "Registering"} => q.c.next_ping # 0
    /\ Answered(q.c, no)
    /\ Told(k, q)
    /\ q.c.is_registered = k.c.is_registered /\ q.out = k.out /\ q.c.message = k.c.message
    /\ q.c.state = "Busy" => k.c.state = "Busy"
    /\ q.c.state = "Registering" =>
          ~(c.message.type \in TopicRequests /\ c.message.id = q.c.count)

\* Whom a packet comes to: the client after retrying and pinging.
Hearing(k, c, w, n, no, p) ==
    /\ Called(c, w, n) /\ Polled(k, c, w, n) /\ Answered(k.c, no)
    /\ Possible(p, c.is_registered)

\* What follows from it.
LEMMA HearingFacts ==
    ASSUME NEW k, NEW c, NEW w, NEW n, NEW no, NEW p, Hearing(k, c, w, n, no, p)
    PROVE  /\ k \in Steps /\ k.c \in Contexts /\ Sound(k.c) /\ Underway(k, c, w, n)
           /\ k.up = {} /\ k.c.state # "Registering" /\ k.c.is_registered = c.is_registered
           /\ k.c.state # "Connected" => k.c.message = c.message
           /\ k.c.state \in Waiting => k.c.next_ping # 0
           /\ k.c.state = "Connected" => k.c.next_ping # 0
<1>1. /\ k \in Steps /\ k.c \in Contexts /\ Sound(k.c) /\ Underway(k, c, w, n)
      /\ k.up = {} /\ k.c.state # "Registering" /\ k.c.is_registered = c.is_registered
      /\ k.c.state # "Connected" => k.c.message = c.message
      /\ k.c.state = "Connected" => k.c.next_ping # 0
  BY Zenon DEF Hearing, Polled, Underway, Sound, Resting, SameTable
<1>2. ASSUME k.c.state \in Waiting PROVE k.c.next_ping # 0
  <2>1. k.c.t_retry \in 0 .. T_RETRY /\ k.c.t_retry # 0 /\ k.c.t_retry <= k.c.next_ping
    BY <1>1, <1>2, Zenon DEF Underway, Sound, Contexts
  <2>2. k.c.next_ping \in 0 .. KEEP_ALIVE
    BY <1>1, Zenon DEF Contexts
  <2>. QED
    BY <2>1, <2>2, MqttConstants
<1>. QED
  BY <1>1, <1>2, Zenon

\* The packet is ignored.
LEMMA Ignored ==
    ASSUME NEW k, NEW c, NEW w, NEW n, NEW no, NEW p, Hearing(k, c, w, n, no, p)
    PROVE  Processed(k, k, c, w, n, no)
  BY HearingFacts, Zenon DEF Processed, Told, Hearing

\* The connection is lost.
LEMMA GivesUp ==
    ASSUME NEW k, NEW c, NEW w, NEW n, NEW no, NEW p, Hearing(k, c, w, n, no, p)
    PROVE  Processed(k, ToState(k, "Disconnected"), c, w, n, no)
<1> DEFINE q == ToState(k, "Disconnected")
<1>1. k \in Steps /\ Sound(k.c) /\ Underway(k, c, w, n) /\ k.up = {}
  BY HearingFacts, Zenon
<1>2. /\ q \in Steps /\ q.out = k.out /\ q.up = {} /\ q.c.state = "Disconnected"
      /\ q.c.t_retry = Off /\ SameTable(q.c, k.c) /\ q.c.message = k.c.message
  BY <1>1, ToStateFields, Zenon DEF States
<1> HIDE DEF q
<1>3. Sound(q.c)
  BY <1>1, <1>2, SoundDisconnected, Zenon DEF Steps
<1>4. Underway(q, c, w, n)
  BY <1>1, <1>2, <1>3 DEF Underway, SameTable, Off
<1>5. Answered(q.c, no)
  BY <1>2 DEF Hearing, Answered, Behind, SameTable
<1>6. Processed(k, q, c, w, n, no)
  BY <1>2, <1>4, <1>5, Zenon DEF Processed, Told, SameTable
<1>. QED
  BY <1>6, Zenon DEF q

\* mqttsn_connack_handler.
LEMMA ConnackStep ==
    ASSUME NEW k, NEW c, NEW w, NEW n, NEW no, NEW p, Hearing(k, c, w, n, no, p),
           NEW accepted \in BOOLEAN
    PROVE  Processed(k, ConnackHandler(k, accepted), c, w, n, no)
<1>1. /\ k \in Steps /\ k.c \in Contexts /\ Sound(k.c) /\ Underway(k, c, w, n) /\ k.up = {}
  BY HearingFacts, Zenon
<1>2. CASE k.c.state # "Connecting" \/ k.c.message.type # "CONNECT"
  <2>1. ConnackHandler(k, accepted) = k
    BY <1>2, Zenon DEF ConnackHandler
  <2>. QED
    BY <2>1, Ignored, Zenon
<1>3. CASE k.c.state = "Connecting" /\ k.c.message.type = "CONNECT" /\ ~accepted
  <2>1. ConnackHandler(k, accepted) = ToState(k, "Disconnected")
    BY <1>3, Zenon DEF ConnackHandler
  <2>. QED
    BY <2>1, GivesUp, Zenon
<1>4. CASE k.c.state = "Connecting" /\ k.c.message.type = "CONNECT" /\ accepted
  <2> DEFINE st == IF k.c.is_registered THEN "Connected" ELSE "Registering"
             d == [k.c EXCEPT !.count = 0]
             u == [k EXCEPT !.c = d]
             q == ToState(u, st)
  <2>1. ConnackHandler(k, accepted) = q
    <3>1. [k EXCEPT !.c.count = 0] = u
      BY <1>1, Zenon DEF Steps
    <3>. QED
      BY <1>4, <3>1, Zenon DEF ConnackHandler
  <2>2. /\ d \in Contexts /\ d.count = 0 /\ d.next_id = k.c.next_id /\ d.message = k.c.message
        /\ d.topic_ids = k.c.topic_ids /\ d.is_registered = k.c.is_registered
        /\ d.next_ping = k.c.next_ping
    <3>1. 0 \in 0 .. NTOPICS
      BY MqttConstants
    <3>. QED
      BY <1>1, <3>1, Zenon DEF Contexts
  <2> HIDE DEF d
  <2>3. u \in Steps /\ u.c = d /\ u.out = k.out /\ u.up = {}
    BY <1>1, <2>2, Zenon DEF Steps
  <2>4. st \in States /\ (st = "Connected" <=> k.c.is_registered) /\ st \in {"Connected", "Registering"}
    BY Zenon DEF States
  <2> HIDE DEF u, st
  <2>5. /\ q \in Steps /\ q.out = k.out /\ q.up = {} /\ q.c.state = st /\ q.c.t_retry = Off
        /\ SameTable(q.c, d) /\ q.c.message = k.c.message /\ q.c.next_ping = k.c.next_ping
    BY <2>2, <2>3, <2>4, ToStateFields, Zenon
  <2> HIDE DEF q
  <2>6. /\ q.c.count = 0 /\ q.c.topic_ids = k.c.topic_ids
        /\ q.c.is_registered = k.c.is_registered /\ q.c \in Contexts
    BY <2>2, <2>5, Zenon DEF SameTable, Steps
  <2>7. Sound(q.c)
    <3>1. q.c.t_retry <= q.c.next_ping
      BY <2>5, <2>6, MqttConstants DEF Contexts, Off
    <3>. QED
      BY <1>1, <2>4, <2>5, <2>6, <3>1, Zenon DEF Sound, Waiting
  <2>8. Since(k, w) + k.c.next_ping = KEEP_ALIVE /\ k.c.next_ping # 0 /\ c.message.type = "CONNECT"
    BY <1>4, HearingFacts, Zenon DEF Underway, Waiting
  <2>9. Underway(q, c, w, n)
    BY <1>1, <2>5, <2>6, <2>7, <2>8 DEF Underway, Off, Since
  <2>10. Answered(q.c, no)
    <3>1. Behind(q.c) \subseteq Behind(k.c)
      BY <2>4, <2>5, <2>6, MqttConstants DEF Behind, Topics
    <3>. QED
      BY <2>6, <3>1, Zenon DEF Hearing, Answered
  <2>11. Processed(k, q, c, w, n, no)
    BY <2>4, <2>5, <2>6, <2>8, <2>9, <2>10, Zenon DEF Processed, Told, TopicRequests
  <2>. QED
    BY <2>1, <2>11, Zenon
<1>. QED
  BY <1>2, <1>3, <1>4, Zenon

\* mqttsn_regack_handler and mqttsn_suback_handler: the answer to the topic in
\* hand, and to no other, is entered.
LEMMA TopicAckStep ==
    ASSUME NEW k, NEW c, NEW w, NEW n, NEW no, NEW p, Hearing(k, c, w, n, no, p),
           p.to.type \in TopicRequests
    PROVE  Processed(k, TopicAckHandler(k, p.to.type, p.to.id, IF p.ok THEN TopicId[p.to.id] ELSE 0, p.ok),
                     c, w, n, Refused(no, k.c, p))
<1> DEFINE id == p.to.id
           r == TopicAckHandler(k, p.to.type, id, IF p.ok THEN TopicId[id] ELSE 0, p.ok)
           yes == Refused(no, k.c, p)
<1>1. /\ k \in Steps /\ k.c \in Contexts /\ Sound(k.c) /\ Underway(k, c, w, n) /\ k.up = {}
  BY HearingFacts, Zenon
<1>2. p.ok \in BOOLEAN /\ id \in Topics /\ p.to.topic = 0 /\ p.to \in Messages
  BY Zenon DEF Hearing, Possible
<1>3. CASE ~(k.c.state = "Busy" /\ k.c.message.type = p.to.type /\ k.c.message.id = id)
  <2>1. r = k
    BY <1>3, Zenon DEF TopicAckHandler
  <2>2. yes = no
    BY <1>3, Zenon DEF Refused
  <2>. QED
    BY <2>1, <2>2, Ignored, Zenon
<1>4. CASE k.c.state = "Busy" /\ k.c.message.type = p.to.type /\ k.c.message.id = id
  <2> DEFINE new == IF p.ok THEN TopicId[id] ELSE k.c.topic_ids[id]
             d == [k.c EXCEPT !.topic_ids = [k.c.topic_ids EXCEPT ![id] = new]]
             u == [k EXCEPT !.c = d]
             q == ToState(u, "Registering")
  <2>1. r = q
    <3>1. [k EXCEPT !.c.topic_ids[id] = IF p.ok THEN (IF p.ok THEN TopicId[id] ELSE 0) ELSE @] = u
      BY <1>1, Zenon DEF Steps
    <3>. QED
      BY <1>4, <3>1, Zenon DEF TopicAckHandler
  <2>2. Registers(k.c) /\ k.c.message = p.to
    <3>1. Registers(k.c)
      BY <1>1, <1>4, Zenon DEF Sound, Publishes, TopicRequests
    <3>2. k.c.message \in Messages /\ k.c.message.topic = 0
      BY <1>1, <3>1, Zenon DEF Contexts, Registers
    <3>. QED
      BY <1>2, <1>4, <3>1, <3>2 DEF Messages
  <2>3. yes = IF p.ok THEN no \ {id} ELSE no \cup {id}
    BY <1>4, <2>2, Zenon DEF Refused
  <2>4. k.c.topic_ids \in [Topics -> TopicIds]
    BY <1>1, Zenon DEF Contexts
  <2>5. new \in TopicIds /\ new \in {0, TopicId[id]} /\ (p.ok => new = TopicId[id])
    BY <1>1, <1>2, <2>4, Zenon DEF TopicIds, Sound
  <2> HIDE DEF new
  <2>6. /\ d \in Contexts /\ d.count = k.c.count /\ d.next_id = k.c.next_id /\ d.message = k.c.message
        /\ d.topic_ids = [k.c.topic_ids EXCEPT ![id] = new] /\ d.is_registered = k.c.is_registered
        /\ d.next_ping = k.c.next_ping
    <3> DEFINE f == [k.c.topic_ids EXCEPT ![id] = new]
    <3>1. f \in [Topics -> TopicIds]
      BY <1>2, <2>4, <2>5, Zenon
    <3> HIDE DEF f
    <3>2. /\ d \in Contexts /\ d.count = k.c.count /\ d.next_id = k.c.next_id
          /\ d.message = k.c.message
          /\ d.topic_ids = f /\ d.is_registered = k.c.is_registered /\ d.next_ping = k.c.next_ping
      BY <1>1, <3>1, Zenon DEF Contexts, f
    <3>. QED
      BY <3>2, Zenon DEF f
  <2> HIDE DEF d
  <2>7. u \in Steps /\ u.c = d /\ u.out = k.out /\ u.up = {}
    BY <1>1, <2>6, Zenon DEF Steps
  <2> HIDE DEF u
  <2>8. /\ q \in Steps /\ q.out = k.out /\ q.up = {} /\ q.c.state = "Registering" /\ q.c.t_retry = Off
        /\ SameTable(q.c, d) /\ q.c.message = k.c.message /\ q.c.next_ping = k.c.next_ping
    BY <2>6, <2>7, ToStateFields, Zenon DEF States
  <2> HIDE DEF q
  <2>9. /\ q.c.count = k.c.count /\ q.c.topic_ids[id] = new
        /\ \A i \in Topics \ {id} : q.c.topic_ids[i] = k.c.topic_ids[i]
        /\ q.c.is_registered = k.c.is_registered /\ q.c \in Contexts
    BY <1>2, <2>4, <2>6, <2>8 DEF SameTable, Steps
  <2>10. Sound(q.c)
    <3>1. q.c.t_retry <= q.c.next_ping
      BY <2>8, <2>9, MqttConstants DEF Contexts, Off
    <3>2. \A i \in Topics : q.c.topic_ids[i] \in {0, TopicId[i]}
      BY <1>1, <2>5, <2>9, Zenon DEF Sound
    <3>. QED
      BY <2>2, <2>8, <2>9, <3>1, <3>2, Zenon DEF Sound, Waiting, Registers
  <2>11. Since(k, w) + k.c.next_ping = KEEP_ALIVE /\ k.c.next_ping # 0 /\ c.message = k.c.message
    BY <1>4, HearingFacts, Zenon DEF Underway, Waiting
  <2>12. Underway(q, c, w, n)
    BY <1>1, <2>8, <2>9, <2>10, <2>11 DEF Underway, Off, Since
  <2>13. Answered(q.c, yes)
    <3>1. k.c.count = id + 1 /\ ~k.c.is_registered
      BY <1>4, <2>2, Zenon DEF Registers
    <3>2. ASSUME NEW i \in Behind(q.c), i # id PROVE i \in Behind(k.c)
      <4>1. i \in Topics /\ i < k.c.count
        BY <2>8, <2>9, <3>1, <3>2, Zenon DEF Behind
      <4>2. i < k.c.count - 1
        BY <1>2, <3>1, <3>2, <4>1, MqttConstants DEF Topics
      <4>. QED
        BY <1>4, <4>1, <4>2, Zenon DEF Behind
    <3>3. ASSUME NEW i \in Behind(q.c) PROVE q.c.topic_ids[i] = TopicId[i] \/ i \in yes
      <4>1. CASE i = id
        BY <2>3, <2>5, <2>9, <4>1, Zenon
      <4>2. CASE i # id
        <5>1. i \in Topics /\ (k.c.topic_ids[i] = TopicId[i] \/ i \in no)
          BY <3>2, <4>2, Zenon DEF Hearing, Answered, Behind
        <5>. QED
          BY <2>3, <2>9, <4>2, <5>1, Zenon
      <4>. QED
        BY <4>1, <4>2, Zenon
    <3>. QED
      BY <3>3, Zenon DEF Answered
  <2>14. c.message.id # q.c.count
    BY <1>2, <2>2, <2>9, <2>11, MqttConstants DEF Registers, Topics
  <2>15. Processed(k, q, c, w, n, yes)
    BY <2>8, <2>9, <2>11, <2>12, <2>13, <2>14, Zenon DEF Processed, Told
  <2>. QED
    BY <2>1, <2>15, Zenon
<1>. QED
  BY <1>3, <1>4, Zenon

\* mqttsn_puback_handler: the client is waiting for this very publish, since no
\* PUBACK can come before the topics are registered.
LEMMA PubackStep ==
    ASSUME NEW k, NEW c, NEW w, NEW n, NEW no, NEW p, Hearing(k, c, w, n, no, p),
           p.to.type = "PUBLISH"
    PROVE  Processed(k, PubackHandler(k, p.to.id, p.ok), c, w, n, no)
<1> DEFINE id == p.to.id
           r == PubackHandler(k, id, p.ok)
<1>1. /\ k \in Steps /\ k.c \in Contexts /\ Sound(k.c) /\ Underway(k, c, w, n) /\ k.up = {}
  BY HearingFacts, Zenon
<1>2. p.ok \in BOOLEAN /\ id \in MsgIds /\ k.c.is_registered
  BY HearingFacts, Zenon DEF Hearing, Possible
<1>3. CASE ~(k.c.state = "Busy" /\ (k.c.message.type = "PUBLISH" => k.c.message.id = id))
  <2>1. r = k
    BY <1>3, Zenon DEF PubackHandler
  <2>. QED
    BY <2>1, Ignored, Zenon
<1>4. CASE k.c.state = "Busy" /\ (k.c.message.type = "PUBLISH" => k.c.message.id = id)
  <2> DEFINE call == [call |-> "puback", id |-> id, ok |-> p.ok]
             u == [k EXCEPT !.up = {call}]
             q == ToState(u, "Connected")
  <2>1. r = q
    BY <1>4, Zenon DEF PubackHandler
  <2>2. k.c.message.type = "PUBLISH" /\ k.c.message.id = id
    BY <1>1, <1>2, <1>4, Zenon DEF Sound, Registers, Publishes
  <2>3. call \in Calls
    BY <1>2, Zenon DEF Calls
  <2> HIDE DEF call
  <2>4. u \in Steps /\ u.c = k.c /\ u.out = k.out /\ u.up = {call}
    BY <1>1, <2>3, Zenon DEF Steps
  <2> HIDE DEF u
  <2>5. /\ q \in Steps /\ q.out = k.out /\ q.up = {call} /\ q.c.state = "Connected"
        /\ q.c.t_retry = Off
        /\ SameTable(q.c, k.c) /\ q.c.message = k.c.message /\ q.c.next_ping = k.c.next_ping
    BY <2>4, ToStateFields DEF States
  <2> HIDE DEF q
  <2>6. Sound(q.c)
    <3>1. q.c \in Contexts /\ q.c.t_retry <= q.c.next_ping
      BY <2>5, CountTypes, NoRetryDue, Zenon
    <3>. QED
      BY <1>1, <1>2, <2>5, <3>1, Zenon DEF Sound, Waiting, SameTable
  <2>7. Since(k, w) + k.c.next_ping = KEEP_ALIVE /\ k.c.next_ping # 0
    BY <1>4, HearingFacts, Zenon DEF Underway, Waiting
  <2>8. Underway(q, c, w, n)
    BY <1>1, <2>5, <2>6, <2>7 DEF Underway, Off, Since, SameTable
  <2>9. Answered(q.c, no)
    BY <1>2, <2>5, Zenon DEF Hearing, Answered, Behind, SameTable
  <2>10. Told(k, q)
    BY <1>2, <1>4, <2>2, <2>5, Zenon DEF Told, call
  <2>11. Processed(k, q, c, w, n, no)
    BY <2>5, <2>7, <2>8, <2>9, <2>10, Zenon DEF Processed, SameTable
  <2>. QED
    BY <2>1, <2>11, Zenon
<1>. QED
  BY <1>3, <1>4, Zenon

\* A non-empty set of entries has a first one: the search order of the table.
LEMMA HasFirst ==
    ASSUME NEW S \in SUBSET Nat, S # {}
    PROVE  \E i \in S : \A j \in S : i <= j
<1> DEFINE R == OpToRel(<, Nat)
<1>1. \E x \in S : \A y \in S : ~(<<y, x>> \in R)
  <2>1. IsWellFoundedOn(R, Nat)
    BY NatLessThanWellFounded, Zenon
  <2> HIDE DEF R
  <2>. QED
    BY <2>1, WFMin, Zenon
<1>2. \A x, y \in S : ~(<<y, x>> \in R) => x <= y
  BY DEF OpToRel
<1>. QED
  BY <1>1, <1>2, Zenon

\* mqttsn_publish_handler: the entry found has a topic id, hence its own.
LEMMA PublishStep ==
    ASSUME NEW k, NEW c, NEW w, NEW n, NEW no, NEW p, Hearing(k, c, w, n, no, p),
           p.to.type = "none"
    PROVE  Processed(k, PublishHandler(k, p.to.topic), c, w, n, no)
<1> DEFINE topic == p.to.topic
           found == {i \in Subscribed : k.c.topic_ids[i] = topic}
           first == CHOOSE i \in found : \A j \in found : i <= j
           r == PublishHandler(k, topic)
<1>1. /\ k \in Steps /\ k.c \in Contexts /\ Sound(k.c) /\ Underway(k, c, w, n) /\ k.up = {}
  BY HearingFacts, Zenon
<1>2. topic # 0
  BY Zenon DEF Hearing, Possible
<1>3. CASE found = {}
  <2>1. r = k
    BY <1>3, Zenon DEF PublishHandler
  <2>. QED
    BY <2>1, Ignored, Zenon
<1>4. CASE found # {}
  <2> DEFINE call == [call |-> "publish", topic |-> topic, index |-> first]
             q == [k EXCEPT !.up = {call}]
  <2>1. r = q
    BY <1>4, Zenon DEF PublishHandler
  <2>2. first \in found
    <3>1. found \in SUBSET Nat
      <4>1. Topics \subseteq Nat /\ Subscribed \subseteq Topics
        BY MqttConstants DEF Topics
      <4>. QED
        BY <4>1, Zenon
    <3>2. \E i \in found : \A j \in found : i <= j
      BY <1>4, <3>1, HasFirst, Zenon
    <3> HIDE DEF found
    <3>. QED
      BY <3>2, Zenon
  <2> HIDE DEF first
  <2>3. first \in Subscribed /\ first \in Topics /\ topic = TopicId[first]
    <3>1. first \in Topics /\ first \in Subscribed /\ k.c.topic_ids[first] = topic
      BY <2>2, MqttConstants, Zenon
    <3>. QED
      BY <1>1, <1>2, <3>1, Zenon DEF Sound
  <2>4. call \in Calls
    BY <2>3, Zenon DEF Calls, TopicIds
  <2> HIDE DEF call
  <2>5. q \in Steps /\ q.c = k.c /\ q.out = k.out /\ q.up = {call}
    BY <1>1, <2>4, Zenon DEF Steps
  <2> HIDE DEF q
  <2>6. Underway(q, c, w, n)
    BY <1>1, <2>5, Zenon DEF Underway, Since, Tally
  <2>7. Told(k, q)
    BY <2>3, <2>5, Zenon DEF Told, call
  <2>8. Processed(k, q, c, w, n, no)
    BY <2>5, <2>6, <2>7, HearingFacts, Zenon DEF Processed, Hearing
  <2>. QED
    BY <2>1, <2>8, Zenon
<1>. QED
  BY <1>3, <1>4, Zenon

\* Whatever arrives.
LEMMA ProcessStep ==
    ASSUME NEW k, NEW c, NEW w, NEW n, NEW no, NEW p, Hearing(k, c, w, n, no, p)
    PROVE  Processed(k, Process(k, p), c, w, n, Refused(no, k.c, p))
<1>1. p.ok \in BOOLEAN /\ p.to.type \in MsgTypes
  BY Zenon DEF Hearing, Possible, Messages
<1>2. p.to.type \notin TopicRequests => Refused(no, k.c, p) = no
  BY Zenon DEF Refused
<1>3. CASE p.to.type = "CONNECT"
  <2>1. Process(k, p) = ConnackHandler(k, p.ok)
    BY <1>3, Zenon DEF Process
  <2>. QED
    BY <1>1, <1>2, <1>3, <2>1, ConnackStep, Zenon DEF TopicRequests
<1>4. CASE p.to.type \in TopicRequests
  <2>1. Process(k, p) =
          TopicAckHandler(k, p.to.type, p.to.id, IF p.ok THEN TopicId[p.to.id] ELSE 0, p.ok)
    BY <1>4, Zenon DEF Process, TopicRequests
  <2>. QED
    BY <1>4, <2>1, TopicAckStep, Zenon
<1>5. CASE p.to.type = "PUBLISH"
  <2>1. Process(k, p) = PubackHandler(k, p.to.id, p.ok)
    BY <1>5, Zenon DEF Process
  <2>. QED
    BY <1>2, <1>5, <2>1, PubackStep, Zenon DEF TopicRequests
<1>6. CASE p.to.type = "DISCONNECT"
  <2>1. Process(k, p) = ToState(k, "Disconnected")
    BY <1>6, Zenon DEF Process, DisconnectHandler
  <2>. QED
    BY <1>2, <1>6, <2>1, GivesUp, Zenon DEF TopicRequests
<1>7. CASE p.to.type = "none" /\ p.ok
  <2>1. Process(k, p) = PublishHandler(k, p.to.topic)
    BY <1>7, Zenon DEF Process
  <2>. QED
    BY <1>2, <1>7, <2>1, PublishStep, Zenon DEF TopicRequests
<1>8. CASE p.to.type = "PINGREQ" \/ (p.to.type = "none" /\ ~p.ok)
  <2>1. Process(k, p) = k
    BY <1>8, Zenon DEF Process
  <2>. QED
    BY <1>2, <1>8, <2>1, Ignored, Zenon DEF TopicRequests
<1>. QED
  BY <1>1, <1>3, <1>4, <1>5, <1>6, <1>7, <1>8, Zenon DEF MsgTypes, TopicRequests

\* At the end of the handler.
Handled(k, q, c, w, n, no) ==
    /\ Underway(q, c, w, n) /\ Resting(q.c) /\ Answered(q.c, no)
    /\ Told(k, q)
    /\ k.c.is_registered => q.c.is_registered
    /\ q.c.state = "Busy" /\ q.c.message.type = "PUBLISH" =>
          k.c.state = "Busy" /\ q.c.message = k.c.message

\* mqttsn_register_next: the next topic is asked for, or the table is done.
LEMMA RegisterNextStep ==
    ASSUME NEW k, NEW q, NEW c, NEW w, NEW n, NEW no, Processed(k, q, c, w, n, no)
    PROVE  Handled(k, RegisterNext(q), c, w, n, no)
<1> DEFINE i == q.c.count
           r == RegisterNext(q)
<1>1. /\ q \in Steps /\ q.c \in Contexts /\ Sound(q.c) /\ Underway(q, c, w, n) /\ q.c.t_retry # 0
  BY Zenon DEF Processed, Underway, Sound
<1>2. CASE q.c.state # "Registering"
  <2>1. r = q
    BY <1>2, Zenon DEF RegisterNext
  <2>2. Handled(k, q, c, w, n, no)
    BY <1>1, <1>2, Zenon DEF Processed, Handled, Resting
  <2>. QED
    BY <2>1, <2>2, Zenon
<1>3. CASE q.c.state = "Registering" /\ i = NTOPICS
  <2> DEFINE d == [q.c EXCEPT !.count = 0, !.is_registered = TRUE]
             u == [q EXCEPT !.c = d]
             t == ToState(u, "Connected")
  <2>1. r = t
    <3>1. [q EXCEPT !.c.count = 0, !.c.is_registered = TRUE] = u
      BY <1>1, Zenon DEF Steps
    <3>. QED
      BY <1>3, <3>1, Zenon DEF RegisterNext
  <2>2. /\ d \in Contexts /\ d.count = 0 /\ d.is_registered
        /\ d.next_id = q.c.next_id /\ d.message = q.c.message
        /\ d.topic_ids = q.c.topic_ids /\ d.next_ping = q.c.next_ping
    <3>1. 0 \in 0 .. NTOPICS
      BY MqttConstants
    <3>. QED
      BY <1>1, <3>1, Zenon DEF Contexts
  <2> HIDE DEF d
  <2>3. u \in Steps /\ u.c = d /\ u.out = q.out /\ u.up = q.up
    BY <1>1, <2>2, Zenon DEF Steps
  <2> HIDE DEF u
  <2>4. /\ t \in Steps /\ t.out = q.out /\ t.up = q.up /\ t.c.state = "Connected"
        /\ t.c.t_retry = Off
        /\ SameTable(t.c, d) /\ t.c.message = q.c.message /\ t.c.next_ping = q.c.next_ping
    BY <2>2, <2>3, ToStateFields DEF States
  <2> HIDE DEF t
  <2>5. t.c.is_registered /\ t.c.topic_ids = q.c.topic_ids /\ t.c \in Contexts
    BY <2>2, <2>4, Zenon DEF SameTable, Steps
  <2>6. Sound(t.c)
    <3>1. t.c.t_retry <= t.c.next_ping
      BY <2>4, <2>5, MqttConstants DEF Contexts, Off
    <3>. QED
      BY <1>1, <2>4, <2>5, <3>1, Zenon DEF Sound, Waiting
  <2>7. Underway(t, c, w, n)
    <3>1. \A m \in t.out : m.type = "PINGREQ" \/ Request(m, t.c.is_registered)
      BY <1>1, <2>4, <2>5, Zenon DEF Underway, Request
    <3>. QED
      BY <1>1, <1>3, <2>4, <2>6, <3>1 DEF Underway, Off, Since
  <2>8. Resting(t.c)
    BY <1>3, <2>4 DEF Processed, Resting, Off
  <2>9. Answered(t.c, no)
    <3>1. \A j \in Topics : j \in Behind(q.c)
      BY <1>3, MqttConstants DEF Behind, Topics
    <3>2. \A j \in Topics : q.c.topic_ids[j] = TopicId[j] \/ j \in no
      BY <3>1, Zenon DEF Processed, Answered
    <3>. QED
      BY <2>5, <3>2, Zenon DEF Answered, Behind
  <2>10. Told(k, t)
    BY <1>3, <2>4, <2>5, Zenon DEF Processed, Told
  <2>11. Handled(k, t, c, w, n, no)
    BY <2>4, <2>5, <2>7, <2>8, <2>9, <2>10, Zenon DEF Handled
  <2>. QED
    BY <2>1, <2>11, Zenon
<1>4. CASE q.c.state = "Registering" /\ i # NTOPICS
  <2> DEFINE b == ToState(q, "Busy")
             d == [b.c EXCEPT !.count = i + 1]
             u == [b EXCEPT !.c = d]
             type == IF i \in Subscribed THEN "SUBSCRIBE" ELSE "REGISTER"
             m == [type |-> type, id |-> i, topic |-> 0]
             t == Send(u, type, i, 0, TRUE)
  <2>1. /\ b \in Steps /\ b.out = q.out /\ b.up = q.up /\ b.c.state = "Busy"
        /\ SameTable(b.c, q.c) /\ b.c.message = q.c.message /\ b.c.next_ping = q.c.next_ping
    BY <1>1, ToStateFields, Zenon DEF States
  <2>2. r = t
    <3>1. [b EXCEPT !.c.count = i + 1] = u
      BY <2>1, Zenon DEF Steps
    <3>. QED
      BY <1>4, <3>1, Zenon DEF RegisterNext
  <2> HIDE DEF b, t
  <2>3. i \in Topics /\ i + 1 \in 0 .. NTOPICS
    <3>1. i \in 0 .. NTOPICS /\ i # NTOPICS
      BY <1>1, <1>4, Zenon DEF Contexts
    <3>2. NTOPICS \in Nat
      BY MqttConstants
    <3>. QED
      BY ONLY <3>1, <3>2 DEF Topics
  <2>4. /\ d \in Contexts /\ d.count = i + 1 /\ d.next_id = q.c.next_id /\ d.state = "Busy"
        /\ d.topic_ids = q.c.topic_ids /\ d.is_registered = q.c.is_registered
    BY <2>1, <2>3, Zenon DEF Steps, Contexts, SameTable
  <2> HIDE DEF d
  <2>5. u \in Steps /\ u.c = d /\ u.out = q.out /\ u.up = q.up
    BY <2>1, <2>4, Zenon DEF Steps
  <2> HIDE DEF u
  <2>6. type \in MsgTypes /\ type \in TopicRequests /\ i \in MsgIds \cup Topics /\ 0 \in TopicIds
    BY <2>3, Zenon DEF MsgTypes, TopicRequests, TopicIds
  <2> HIDE DEF type
  <2>7. Sends(u, t, m, TRUE)
    <3>1. TRUE \in BOOLEAN
      BY Zenon
    <3>. QED
      BY <2>5, <2>6, <3>1, SendFields, Zenon DEF t
  <2>8. m.type = type /\ m.id = i /\ m.topic = 0
    BY Zenon
  <2>9. m # c.message
    BY <1>4, <2>6, <2>8, Zenon DEF Processed
  <2> HIDE DEF m
  <2>10. /\ t \in Steps /\ t.out = q.out \cup {m} /\ t.up = q.up /\ t.c.next_ping = KEEP_ALIVE
         /\ t.c.message = m /\ t.c.state = "Busy" /\ t.c.n_retries = N_RETRY /\ t.c.t_retry = T_RETRY
         /\ t.c.count = i + 1 /\ t.c.topic_ids = q.c.topic_ids
         /\ t.c.is_registered = q.c.is_registered /\ t.c \in Contexts
    BY <2>4, <2>5, <2>7, Zenon DEF Sends, SameTable, Steps
  <2>11. ~q.c.is_registered
    BY <1>1, <1>4, Zenon DEF Sound
  <2>12. Registers(t.c)
    BY <2>3, <2>6, <2>8, <2>10, <2>11, Zenon DEF Registers
  <2>13. Sound(t.c)
    <3>1. t.c.t_retry <= t.c.next_ping /\ t.c.t_retry # Off
      BY <2>10, MqttConstants DEF Off
    <3>. QED
      BY <1>1, <2>10, <2>12, <3>1, Zenon DEF Sound, Waiting
  <2>14. t.out # {} /\ \A x \in t.out : x.type = "PINGREQ" \/ Request(x, t.c.is_registered)
    <3>1. Request(m, t.c.is_registered)
      BY <2>3, <2>6, <2>8, Zenon DEF Request, TopicRequests
    <3>. QED
      BY <1>1, <2>10, <3>1, Zenon DEF Underway
  <2>15. Tally(t, c, n) = 1 /\ Since(t, w) = 0
    BY <2>9, <2>10, <2>14, Zenon DEF Tally, Since
  <2>16. Underway(t, c, w, n) /\ Resting(t.c)
    BY <2>10, <2>13, <2>14, <2>15, MqttConstants DEF Underway, Resting
  <2>17. Answered(t.c, no)
    <3>1. \A j \in Behind(t.c) : j \in Behind(q.c)
      BY <1>4, <2>3, <2>10, <2>11, MqttConstants DEF Behind, Topics
    <3>. QED
      BY <2>10, <3>1, Zenon DEF Processed, Answered
  <2>18. Told(k, t)
    BY <1>4, <2>10, Zenon DEF Processed, Told
  <2>19. Handled(k, t, c, w, n, no)
    BY <2>6, <2>8, <2>10, <2>16, <2>17, <2>18, Zenon DEF Handled, Processed, TopicRequests
  <2>. QED
    BY <2>2, <2>19, Zenon
<1>. QED
  BY <1>2, <1>3, <1>4, Zenon

\* The whole handler: no assumption on when the packet comes.
LEMMA HandlerStep ==
    ASSUME NEW c, NEW w, NEW n, NEW no, NEW p,
           Called(c, w, n), Answered(c, no), Possible(p, c.is_registered)
    PROVE  Handled(Ping(Retry(Begin(c))), Handler(c, p), c, w, n, Refused(no, Retry(Begin(c)).c, p))
<1> DEFINE a == Retry(Begin(c)).c
           k == Ping(Retry(Begin(c)))
<1>1. Polled(k, c, w, n)
  BY PingStep, Zenon
<1>2. Handler(c, p) = RegisterNext(Process(k, p))
  BY Zenon DEF Handler
<1>3. k.c.state = a.state /\ (k.c.state # "Connected" => k.c = a)
  BY <1>1, Zenon DEF Polled
<1>4. /\ k.c.state \in {c.state, "Disconnected"} /\ k.c.topic_ids = c.topic_ids
      /\ k.c.is_registered = c.is_registered /\ k.c.count = c.count
  BY <1>1, Zenon DEF Polled, SameTable
<1> HIDE DEF a, k
<1>5. Answered(k.c, no)
  <2>1. \A i \in Behind(k.c) : i \in Behind(c)
    BY <1>4, Zenon DEF Behind
  <2>. QED
    BY <1>4, <2>1, Zenon DEF Answered
<1>6. Hearing(k, c, w, n, no, p)
  BY <1>1, <1>5, Zenon DEF Hearing
<1>7. Processed(k, Process(k, p), c, w, n, Refused(no, k.c, p))
  BY <1>6, ProcessStep, Zenon
<1>8. Refused(no, k.c, p) = Refused(no, a, p)
  BY <1>3, Zenon DEF Refused
<1>9. Handled(k, Handler(c, p), c, w, n, Refused(no, a, p))
  BY <1>2, <1>7, <1>8, RegisterNextStep, Zenon
<1>. QED
  BY <1>9, Zenon DEF a, k

----------------------------------------------------------------------------
(* The steps of the specification. *)

\* The transmissions of the message waited on, after q.
Sent(q, fresh) ==
    IF q.out = {} THEN copies ELSE IF fresh THEN 1 ELSE IF copies < MaxCopies THEN copies + 1 ELSE copies

\* What the end of a step must see to: the client q.c, nothing waited for twice,
\* nothing told twice.
Ends(q, status, fresh) ==
    /\ q \in Steps /\ status \in [MsgIds -> {"idle", "pending", "done"}] /\ fresh \in BOOLEAN
    /\ Sound(q.c) /\ Resting(q.c) /\ refused' \in SUBSET Topics /\ Answered(q.c, refused')
    /\ ctx.is_registered => q.c.is_registered
    /\ \A m \in q.out : m.type = "PINGREQ" \/ Request(m, q.c.is_registered)
    /\ idle' \in 0 .. KEEP_ALIVE
    /\ q.c.state # "Disconnected" => idle' + q.c.next_ping = KEEP_ALIVE
    /\ q.c.t_retry # Off => N_RETRY + 1 = q.c.n_retries + Sent(q, fresh)
    /\ \A u \in q.up : /\ u.call = "puback" => status[u.id] = "pending"
                       /\ u.call = "publish" =>
                            u.index \in Subscribed /\ u.topic = TopicId[u.index]
    /\ q.c.state = "Busy" /\ q.c.message.type = "PUBLISH" =>
          /\ q.c.message.id \in MsgIds /\ status[q.c.message.id] = "pending"
          /\ \A u \in q.up : u.call # "puback"

\* The answer to a message goes by its type and its message id.
LEMMA ToAnswerFields ==
    ASSUME NEW m \in Messages
    PROVE  /\ ToAnswer(m) \in Messages
           /\ ToAnswer(m).type = m.type /\ ToAnswer(m).id = m.id /\ ToAnswer(m).topic = 0
  BY DEF ToAnswer, Messages, TopicIds

\* Then the invariant holds.
LEMMA FinishInv ==
    ASSUME MqttInv, NEW q, NEW status, NEW fresh, Finish(q, status, fresh), Ends(q, status, fresh)
    PROVE  MqttInv'
<1>1. ctx' = q.c /\ up' = q.up /\ sent' = sent \cup {ToAnswer(m) : m \in {n \in q.out : n.type # "PINGREQ"}}
  BY Zenon DEF Finish
<1>2. pub' = [i \in MsgIds |-> Settle(status[i], i, q.up)]
  BY Zenon DEF Finish
<1>3. copies' = CASE q.c.t_retry = Off -> 0
                  [] q.c.t_retry # Off /\ q.out = {} -> copies
                  [] OTHER -> IF fresh THEN 1 ELSE IF copies < MaxCopies THEN copies + 1 ELSE copies
  BY Zenon DEF Finish
<1>4. copies \in 0 .. MaxCopies /\ MaxCopies \in Nat /\ MaxCopies >= 2
  BY CountTypes, Zenon DEF MqttInv
<1>5. copies' \in 0 .. MaxCopies /\ RetriesCounted'
  <2>1. CASE q.c.t_retry = Off
    <3>1. copies' = 0
      BY <1>3, <2>1, Zenon
    <3>. QED
      BY <1>1, <1>4, <2>1, <3>1 DEF RetriesCounted
  <2>2. CASE q.c.t_retry # Off
    <3>1. copies' = Sent(q, fresh)
      BY <1>3, <2>2, Zenon DEF Sent
    <3>2. Sent(q, fresh) \in 0 .. MaxCopies
      BY <1>4 DEF Sent
    <3>3. N_RETRY + 1 = q.c.n_retries + Sent(q, fresh)
      BY <2>2, Zenon DEF Ends
    <3>4. q.c.n_retries \in Nat
      BY CountTypes, Zenon DEF Ends
    <3>5. copies' + q.c.n_retries = N_RETRY + 1
      BY <1>4, <3>1, <3>2, <3>3, <3>4
    <3>. QED
      BY <1>1, <3>1, <3>2, <3>5, Zenon DEF RetriesCounted
  <2>. QED
    BY <2>1, <2>2, Zenon
<1>6. \A id \in MsgIds :
         /\ pub'[id] \in {"idle", "pending", "done"}
         /\ (\A u \in q.up : u.call # "puback") => pub'[id] = status[id]
  <2> SUFFICES ASSUME NEW id \in MsgIds
               PROVE  /\ pub'[id] \in {"idle", "pending", "done"}
                      /\ (\A u \in q.up : u.call # "puback") => pub'[id] = status[id]
    BY Zenon
  <2>1. pub'[id] = Settle(status[id], id, q.up)
    BY <1>2, Zenon
  <2>. QED
    BY <2>1, Zenon DEF Ends, Settle
<1>7. MqttTypeOK'
  <2>1. pub' \in [MsgIds -> {"idle", "pending", "done", "spurious"}]
    BY <1>2, <1>6, Zenon
  <2>2. sent' \in SUBSET Messages /\ up' \in SUBSET Calls /\ ctx' \in Contexts
    <3>1. \A m \in Messages : ToAnswer(m) \in Messages
      BY ToAnswerFields, Zenon
    <3>2. q.out \in SUBSET Messages /\ sent \in SUBSET Messages
      BY Zenon DEF Ends, Steps, MqttInv, MqttTypeOK
    <3>3. sent' \in SUBSET Messages
      BY <1>1, <3>1, <3>2, Zenon
    <3>. QED
      BY <1>1, <3>3, Zenon DEF Ends, Steps
  <2>3. refused' \in SUBSET Topics /\ idle' \in 0 .. KEEP_ALIVE
    BY Zenon DEF Ends
  <2>. QED
    BY <1>5, <2>1, <2>2, <2>3, Zenon DEF MqttTypeOK
<1>8. \A m \in sent' : Request(m, q.c.is_registered)
  <2>1. \A m \in sent : Request(m, q.c.is_registered)
    BY Zenon DEF Ends, MqttInv, Request
  <2>2. ASSUME NEW m \in q.out, m.type # "PINGREQ"
        PROVE  Request(ToAnswer(m), q.c.is_registered)
    <3>1. m \in Messages /\ Request(m, q.c.is_registered)
      BY <2>2, Zenon DEF Ends, Steps
    <3>. QED
      BY <3>1, ToAnswerFields, Zenon DEF Request
  <2>. QED
    BY <1>1, <2>1, <2>2, Zenon
<1>9. InboundSubscribed'
  BY <1>1, Zenon DEF Ends, InboundSubscribed
<1>10. /\ Sound(ctx') /\ Resting(ctx') /\ Answered(ctx', refused')
       /\ ctx'.state # "Disconnected" => idle' + ctx'.next_ping = KEEP_ALIVE
  BY <1>1, Zenon DEF Ends
<1>11. ctx'.state = "Busy" /\ ctx'.message.type = "PUBLISH" => pub'[ctx'.message.id] = "pending"
  BY <1>1, <1>6, Zenon DEF Ends
<1>. QED
  BY <1>1, <1>5, <1>6, <1>7, <1>8, <1>9, <1>10, <1>11, Zenon
     DEF MqttInv, Sound, Resting, Answered, Behind, Registers, Publishes, Request

\* A call of mqttsn_c_handler, the client being c but for its timers.
LEMMA CallInv ==
    ASSUME MqttInv, NEW c, NEW w, NEW p \in Answers \cup {Nothing}, Called(c, w, copies),
           SameTable(c, ctx), c.state = ctx.state, c.message = ctx.message, Call(c, w, p)
    PROVE  MqttInv'
<1> DEFINE a == Retry(Begin(c)).c
           k == Ping(Retry(Begin(c)))
           q == Handler(c, p)
           fresh == q.c.message # c.message
<1>1. /\ c.is_registered = ctx.is_registered /\ c.topic_ids = ctx.topic_ids /\ c.count = ctx.count
      /\ Sound(ctx) /\ Answered(ctx, refused) /\ sent \in SUBSET Messages
      /\ \A m \in sent : Request(m, c.is_registered)
  BY Zenon DEF SameTable, MqttInv, MqttTypeOK
<1>2. Possible(p, c.is_registered)
  BY <1>1, AnswersPossible, Zenon
<1>3. Answered(c, refused)
  BY <1>1, Zenon DEF Answered, Behind
<1>4. refused' = Refused(refused, a, p)
  BY Zenon DEF Call, Refused, TopicRequests
<1>5. Finish(q, pub, fresh) /\ idle' = Since(q, w)
  BY Zenon DEF Call, Since
<1>6. Handled(k, q, c, w, copies, refused')
  BY <1>2, <1>3, <1>4, HandlerStep, Zenon
<1>7. Polled(k, c, w, copies)
  BY PingStep, Zenon
<1> HIDE DEF a, k, q
<1>8. /\ k.c.is_registered = ctx.is_registered
      /\ k.c.state = "Busy" => ctx.state = "Busy" /\ k.c.message = ctx.message
  BY <1>1, <1>7, Zenon DEF Polled, SameTable
<1>9. /\ q \in Steps /\ Sound(q.c) /\ Resting(q.c) /\ Answered(q.c, refused')
      /\ ctx.is_registered => q.c.is_registered
      /\ \A m \in q.out : m.type = "PINGREQ" \/ Request(m, q.c.is_registered)
      /\ q.c.state # "Disconnected" => idle' + q.c.next_ping = KEEP_ALIVE
  BY <1>5, <1>6, <1>8, Zenon DEF Handled, Underway
<1>10. idle' \in 0 .. KEEP_ALIVE
  <2>1. w \in 0 .. KEEP_ALIVE
    BY Zenon DEF Called
  <2>2. 0 \in 0 .. KEEP_ALIVE
    BY MqttConstants
  <2>. QED
    BY <1>5, <2>1, <2>2, Zenon DEF Since
<1>11. refused' \in SUBSET Topics
  <2>1. refused \in SUBSET Topics
    BY Zenon DEF MqttInv, MqttTypeOK
  <2>. QED
    BY <1>2, <1>4, <2>1, Zenon DEF Refused, Possible
<1>12. q.c.t_retry # Off => N_RETRY + 1 = q.c.n_retries + Sent(q, fresh)
  <2>1. q.c.t_retry # Off => Tally(q, c, copies) + q.c.n_retries = N_RETRY + 1
    BY <1>6, Zenon DEF Handled, Underway
  <2>2. Tally(q, c, copies) = Sent(q, fresh)
    BY Zenon DEF Tally, Sent
  <2>3. copies \in Nat /\ q.c.n_retries \in Nat
    BY <1>9, CountTypes, Zenon DEF MqttInv
  <2>4. Sent(q, fresh) \in Nat
    BY <2>3 DEF Sent
  <2>. QED
    BY <2>1, <2>2, <2>3, <2>4
<1>13. \A u \in q.up : /\ u.call = "puback" => pub[u.id] = "pending"
                       /\ u.call = "publish" =>
                            u.index \in Subscribed /\ u.topic = TopicId[u.index]
  <2>1. Told(k, q)
    BY <1>6, Zenon DEF Handled
  <2>2. k.c.state = "Busy" /\ k.c.message.type = "PUBLISH" => pub[k.c.message.id] = "pending"
    <3>1. ctx.state = "Busy" /\ ctx.message.type = "PUBLISH" => pub[ctx.message.id] = "pending"
      BY Zenon DEF MqttInv
    <3>. QED
      BY <1>8, <3>1, Zenon
  <2>. QED
    BY <2>1, <2>2, ToldFacts
<1>14. q.c.state = "Busy" /\ q.c.message.type = "PUBLISH" =>
         /\ q.c.message.id \in MsgIds /\ pub[q.c.message.id] = "pending"
         /\ \A u \in q.up : u.call # "puback"
  <2>1. q.c.state = "Busy" /\ q.c.message.type = "PUBLISH" =>
          /\ ctx.state = "Busy" /\ q.c.message = ctx.message
          /\ \A u \in q.up : u.call # "puback"
    <3>1. Told(k, q) /\ (q.c.state = "Busy" /\ q.c.message.type = "PUBLISH" =>
                            k.c.state = "Busy" /\ q.c.message = k.c.message)
      BY <1>6, Zenon DEF Handled
    <3>2. q.c.state = "Busy" => \A u \in q.up : u.call # "puback"
      BY <3>1, ToldFacts, Zenon
    <3>. QED
      BY <1>8, <3>1, <3>2, Zenon
  <2>. QED
    BY <1>1, <2>1, Zenon DEF MqttInv, Sound, Registers, Publishes, TopicRequests
<1>15. pub \in [MsgIds -> {"idle", "pending", "done"}]
  BY Zenon DEF MqttInv, MqttTypeOK
<1>16. Ends(q, pub, fresh)
  BY <1>9, <1>10, <1>11, <1>12, <1>13, <1>14, <1>15, Zenon DEF Ends
<1>. QED
  BY <1>5, <1>16, FinishInv, Zenon

\* mqttsn_c_handler with a packet that is there at once.
LEMMA ReceiveInv ==
    ASSUME MqttInv, NEW p \in Answers, Receive(p)
    PROVE  MqttInv'
<1>1. Called(ctx, idle, copies)
  BY Zenon DEF MqttInv, MqttTypeOK, Called, Resting, RetriesCounted
<1>2. SameTable(ctx, ctx)
  BY Zenon DEF SameTable
<1>. QED
  BY <1>1, <1>2, CallInv, Zenon DEF Receive

\* mqttsn_c_handler, a second later.
LEMMA SecondInv ==
    ASSUME MqttInv, NEW p \in Answers \cup {Nothing}, Second(p)
    PROVE  MqttInv'
<1> DEFINE c == [ctx EXCEPT !.t_retry = Elapse(ctx.t_retry), !.next_ping = Elapse(ctx.next_ping)]
           w == IF idle < KEEP_ALIVE THEN idle + 1 ELSE idle
<1>1. ctx \in Contexts /\ Sound(ctx) /\ Resting(ctx) /\ idle \in 0 .. KEEP_ALIVE
  BY Zenon DEF MqttInv, MqttTypeOK
<1>2. /\ ctx.t_retry \in {Off} \cup 0 .. T_RETRY /\ ctx.next_ping \in 0 .. KEEP_ALIVE
      /\ ctx.t_retry # 0 /\ ctx.t_retry <= ctx.next_ping
  BY <1>1, Zenon DEF Contexts, Sound, Resting
<1>3. /\ Elapse(ctx.t_retry) \in {Off} \cup 0 .. T_RETRY /\ Elapse(ctx.next_ping) \in 0 .. KEEP_ALIVE
      /\ Elapse(ctx.t_retry) <= Elapse(ctx.next_ping)
      /\ Elapse(ctx.t_retry) # Off <=> ctx.t_retry # Off
  BY <1>2, MqttConstants DEF Elapse, Off
<1>4. /\ c \in Contexts /\ SameTable(c, ctx) /\ c.state = ctx.state /\ c.message = ctx.message
      /\ c.n_retries = ctx.n_retries
      /\ c.t_retry = Elapse(ctx.t_retry) /\ c.next_ping = Elapse(ctx.next_ping)
  BY <1>1, <1>3, Zenon DEF Contexts, SameTable
<1>5. Call(c, w, p)
  BY Zenon DEF Second
<1> HIDE DEF c, w
<1>6. Sound(c)
  BY <1>1, <1>3, <1>4, SoundSame, Zenon
<1>7. ctx.state # "Disconnected" => ctx.next_ping # 0
  <2>1. ctx.state \in Waiting => ctx.next_ping # 0
    BY <1>1, <1>2, MqttConstants DEF Sound, Off
  <2>. QED
    BY <1>1, <2>1, Zenon DEF Resting, Contexts, States, Waiting
<1>8. w \in 0 .. KEEP_ALIVE /\ (c.state # "Disconnected" => w + c.next_ping = KEEP_ALIVE)
  <2>1. ctx.state # "Disconnected" => idle + ctx.next_ping = KEEP_ALIVE
    BY Zenon DEF MqttInv
  <2>. QED
    BY <1>1, <1>2, <1>4, <1>7, <2>1, MqttConstants DEF w, Elapse
<1>9. copies \in 0 .. MaxCopies /\ (ctx.t_retry # Off => copies + ctx.n_retries = N_RETRY + 1)
  BY Zenon DEF MqttInv, MqttTypeOK, RetriesCounted
<1>10. Called(c, w, copies)
  BY <1>1, <1>3, <1>4, <1>6, <1>8, <1>9, Zenon DEF Called, Resting
<1>. QED
  BY <1>4, <1>5, <1>10, CallInv, Zenon

\* A message of the application's is sent: what the step must see to.
Asked(k, m, do_retry, status) ==
    /\ k \in Steps /\ do_retry \in BOOLEAN /\ status \in [MsgIds -> {"idle", "pending", "done"}]
    /\ k.out = {} /\ k.up = {} /\ k.c.state \notin {"Disconnected", "Registering"}
    /\ k.c.state = "Busy" => k.c.is_registered
    /\ do_retry <=> k.c.state \in Waiting
    /\ k.c.t_retry = Off
    /\ k.c.topic_ids = ctx.topic_ids /\ k.c.is_registered = ctx.is_registered
    /\ k.c.state = "Connected" => k.c.is_registered
    /\ k.c.state = "Connecting" => m.type = "CONNECT"
    /\ k.c.state = "Disconnecting" => m.type = "DISCONNECT"
    /\ k.c.state = "Busy" => m.type = "PUBLISH" /\ status[m.id] = "pending"
    /\ m.type \in {"CONNECT", "DISCONNECT", "PUBLISH"}
    /\ m.type = "PUBLISH" => m.id \in MsgIds /\ k.c.is_registered

\* Then the invariant holds.
LEMMA AppInv ==
    ASSUME MqttInv, NEW k, NEW q, NEW m, NEW do_retry, NEW status, Asked(k, m, do_retry, status),
           Sends(k, q, m, do_retry), Finish(q, status, TRUE), idle' = 0, UNCHANGED refused
    PROVE  MqttInv'
<1>1. /\ q \in Steps /\ q.out = {m} /\ q.up = {} /\ q.c.next_ping = KEEP_ALIVE
      /\ q.c.message = m /\ q.c.state = k.c.state /\ q.c \in Contexts
      /\ q.c.topic_ids = ctx.topic_ids /\ q.c.is_registered = ctx.is_registered
      /\ q.c.n_retries = IF do_retry THEN N_RETRY ELSE k.c.n_retries
      /\ q.c.t_retry = IF do_retry THEN T_RETRY ELSE Off
  BY Zenon DEF Asked, Sends, SameTable, Steps
<1>2. /\ q.c.state \in Waiting <=> q.c.t_retry # Off
      /\ q.c.t_retry <= q.c.next_ping /\ q.c.t_retry # 0 /\ q.c.next_ping # 0
  <2>1. do_retry <=> q.c.state \in Waiting
    BY <1>1, Zenon DEF Asked
  <2>2. T_RETRY # Off /\ T_RETRY # 0 /\ T_RETRY <= KEEP_ALIVE /\ Off # 0 /\ Off <= KEEP_ALIVE
        /\ KEEP_ALIVE # 0
    BY MqttConstants DEF Off
  <2>. QED
    BY <1>1, <2>1, <2>2, Zenon
<1>3. \A i \in Topics : q.c.topic_ids[i] \in {0, TopicId[i]}
  BY <1>1, Zenon DEF MqttInv, Sound
<1>4. Sound(q.c)
  BY <1>1, <1>2, <1>3, Zenon DEF Asked, Sound, Publishes
<1>5. Resting(q.c)
  BY <1>1, <1>2, Zenon DEF Asked, Resting
<1>6. Answered(q.c, refused')
  <2>1. \A i \in Behind(q.c) : i \in Behind(ctx)
    BY <1>1, Zenon DEF Asked, Behind
  <2>. QED
    BY <1>1, <2>1, Zenon DEF MqttInv, Answered
<1>7. \A x \in q.out : x.type = "PINGREQ" \/ Request(x, q.c.is_registered)
  BY <1>1, Zenon DEF Asked, Request, TopicRequests
<1>8. /\ idle' \in 0 .. KEEP_ALIVE
      /\ q.c.state # "Disconnected" => idle' + q.c.next_ping = KEEP_ALIVE
  BY <1>1, MqttConstants
<1>9. q.c.t_retry # Off => N_RETRY + 1 = q.c.n_retries + Sent(q, TRUE)
  BY <1>1, MqttConstants, Zenon DEF Sent
<1>10. refused' \in SUBSET Topics
  BY Zenon DEF MqttInv, MqttTypeOK
<1>11. /\ \A u \in q.up : /\ u.call = "puback" => status[u.id] = "pending"
                          /\ u.call = "publish" =>
                               u.index \in Subscribed /\ u.topic = TopicId[u.index]
       /\ q.c.state = "Busy" /\ q.c.message.type = "PUBLISH" =>
             /\ q.c.message.id \in MsgIds /\ status[q.c.message.id] = "pending"
             /\ \A u \in q.up : u.call # "puback"
  BY <1>1, Zenon DEF Asked
<1>12. ctx.is_registered => q.c.is_registered
  BY <1>1, Zenon
<1>13. TRUE \in BOOLEAN /\ status \in [MsgIds -> {"idle", "pending", "done"}]
  BY Zenon DEF Asked
<1>14. Ends(q, status, TRUE)
  BY <1>1, <1>4, <1>5, <1>6, <1>7, <1>8, <1>9, <1>10, <1>11, <1>12, <1>13, Zenon DEF Ends
<1>. QED
  BY <1>14, FinishInv, Zenon

\* mqttsn_c_connect.
LEMMA ConnectInv ==
    ASSUME MqttInv, AppConnect
    PROVE  MqttInv'
<1> DEFINE k == ToState(Begin(ctx), "Connecting")
           m == [type |-> "CONNECT", id |-> 0, topic |-> 0]
           q == Connect(ctx)
<1>1. ctx \in Contexts /\ Begin(ctx) \in Steps
      /\ Begin(ctx).c = ctx /\ Begin(ctx).out = {} /\ Begin(ctx).up = {}
  BY BeginFields, Zenon DEF MqttInv, MqttTypeOK
<1>2. /\ k \in Steps /\ k.out = {} /\ k.up = {} /\ k.c.state = "Connecting" /\ k.c.t_retry = Off
      /\ SameTable(k.c, ctx)
  BY <1>1, ToStateFields DEF States
<1>3. /\ "CONNECT" \in MsgTypes /\ 0 \in MsgIds \cup Topics /\ 0 \in TopicIds /\ TRUE \in BOOLEAN
  BY MqttConstants DEF MsgTypes, MsgIds, TopicIds
<1>4. q = Send(k, "CONNECT", 0, 0, TRUE)
  BY Zenon DEF Connect
<1> HIDE DEF k, q
<1>5. Sends(k, q, m, TRUE)
  BY <1>2, <1>3, <1>4, SendFields, Zenon
<1>6. Finish(q, pub, TRUE) /\ idle' = 0 /\ UNCHANGED refused
  BY Zenon DEF AppConnect, q
<1>7. pub \in [MsgIds -> {"idle", "pending", "done"}]
  BY Zenon DEF MqttInv, MqttTypeOK
<1>8. m.type = "CONNECT"
  BY Zenon
<1>9. k.c.topic_ids = ctx.topic_ids /\ k.c.is_registered = ctx.is_registered
  BY <1>2, Zenon DEF SameTable
<1> HIDE DEF m
<1>10. Asked(k, m, TRUE, pub)
  BY <1>2, <1>3, <1>7, <1>8, <1>9, Zenon DEF Asked, Waiting
<1>. QED
  BY <1>5, <1>6, <1>10, AppInv, Zenon

\* mqttsn_c_disconnect.
LEMMA DisconnectInv ==
    ASSUME MqttInv, AppDisconnect
    PROVE  MqttInv'
<1> DEFINE k == ToState(Begin(ctx), "Disconnecting")
           m == [type |-> "DISCONNECT", id |-> 0, topic |-> 0]
           q == Disconnect(ctx)
<1>1. ctx \in Contexts /\ Begin(ctx) \in Steps
      /\ Begin(ctx).c = ctx /\ Begin(ctx).out = {} /\ Begin(ctx).up = {}
  BY BeginFields, Zenon DEF MqttInv, MqttTypeOK
<1>2. /\ k \in Steps /\ k.out = {} /\ k.up = {} /\ k.c.state = "Disconnecting" /\ k.c.t_retry = Off
      /\ SameTable(k.c, ctx)
  BY <1>1, ToStateFields, Zenon DEF States
<1>3. /\ "DISCONNECT" \in MsgTypes /\ 0 \in MsgIds \cup Topics /\ 0 \in TopicIds /\ TRUE \in BOOLEAN
  BY MqttConstants DEF MsgTypes, MsgIds, TopicIds
<1>4. q = Send(k, "DISCONNECT", 0, 0, TRUE)
  BY Zenon DEF Disconnect
<1> HIDE DEF k, q
<1>5. Sends(k, q, m, TRUE)
  BY <1>2, <1>3, <1>4, SendFields, Zenon
<1>6. Finish(q, pub, TRUE) /\ idle' = 0 /\ UNCHANGED refused
  BY Zenon DEF AppDisconnect, q
<1>7. pub \in [MsgIds -> {"idle", "pending", "done"}]
  BY Zenon DEF MqttInv, MqttTypeOK
<1>8. m.type = "DISCONNECT"
  BY Zenon
<1>9. k.c.topic_ids = ctx.topic_ids /\ k.c.is_registered = ctx.is_registered
  BY <1>2, Zenon DEF SameTable
<1> HIDE DEF m
<1>10. Asked(k, m, TRUE, pub)
  BY <1>2, <1>3, <1>7, <1>8, <1>9, Zenon DEF Asked, Waiting
<1>. QED
  BY <1>5, <1>6, <1>10, AppInv, Zenon

\* mqttsn_c_publish, with an answer asked for or not.
LEMMA PublishInv ==
    ASSUME MqttInv, NEW i \in Topics, NEW qos \in {0, 1}, AppPublish(i, qos)
    PROVE  MqttInv'
<1> DEFINE b == IF qos > 0 THEN ToState(Begin(ctx), "Busy") ELSE Begin(ctx)
           id == NextId(ctx)
           d == [b.c EXCEPT !.next_id = id]
           k == [b EXCEPT !.c = d]
           m == [type |-> "PUBLISH", id |-> id, topic |-> ctx.topic_ids[i]]
           q == Publish(ctx, i, qos)
           do_retry == qos > 0
           status == [pub EXCEPT ![id] = IF qos > 0 THEN "pending" ELSE "idle"]
<1>1. ctx \in Contexts /\ Begin(ctx) \in Steps
      /\ Begin(ctx).c = ctx /\ Begin(ctx).out = {} /\ Begin(ctx).up = {}
  BY BeginFields, Zenon DEF MqttInv, MqttTypeOK
<1>2. ctx.state = "Connected" /\ ctx.is_registered /\ ctx.t_retry = Off
  BY <1>1, Zenon DEF AppPublish, MqttInv, Sound, Waiting
<1>3. /\ b \in Steps /\ b.out = {} /\ b.up = {}
      /\ b.c.state = (IF do_retry THEN "Busy" ELSE "Connected") /\ b.c.t_retry = Off
      /\ SameTable(b.c, ctx)
  <2>1. CASE do_retry
    BY <1>1, <2>1, ToStateFields, Zenon DEF States
  <2>2. CASE ~do_retry
    BY <1>1, <1>2, <2>2, Zenon DEF SameTable
  <2>. QED
    BY <2>1, <2>2, Zenon
<1>4. id \in MsgIds
  <2>1. ctx.next_id \in MsgIds
    BY <1>1, Zenon DEF Contexts
  <2>. QED
    BY <2>1, MqttConstants DEF NextId, MsgIds
<1>5. /\ "PUBLISH" \in MsgTypes /\ id \in MsgIds \cup Topics /\ ctx.topic_ids[i] \in TopicIds
      /\ do_retry \in BOOLEAN
  <2>1. ctx.topic_ids \in [Topics -> TopicIds]
    BY <1>1, Zenon DEF Contexts
  <2>. QED
    BY <1>4, <2>1 DEF MsgTypes
<1>6. q = Send(k, "PUBLISH", id, ctx.topic_ids[i], do_retry)
  <2>1. [b EXCEPT !.c.next_id = id] = k
    BY <1>3, Zenon DEF Steps
  <2>. QED
    BY <2>1, Zenon DEF Publish
<1>7. Finish(q, status, TRUE) /\ idle' = 0 /\ UNCHANGED refused
  BY Zenon DEF AppPublish
<1> HIDE DEF b, id, q, do_retry
<1>8. /\ d \in Contexts /\ d.state = b.c.state /\ d.t_retry = Off
      /\ d.topic_ids = ctx.topic_ids /\ d.is_registered = ctx.is_registered
  BY <1>3, <1>4, Zenon DEF Steps, Contexts, SameTable
<1> HIDE DEF d
<1>9. k \in Steps /\ k.c = d /\ k.out = {} /\ k.up = {}
  BY <1>3, <1>8, Zenon DEF Steps
<1> HIDE DEF k
<1>10. Sends(k, q, m, do_retry)
  BY <1>5, <1>6, <1>9, SendFields, Zenon
<1>11. /\ status \in [MsgIds -> {"idle", "pending", "done"}]
       /\ do_retry => status[id] = "pending"
  <2>1. pub \in [MsgIds -> {"idle", "pending", "done"}]
    BY Zenon DEF MqttInv, MqttTypeOK
  <2>. QED
    BY <1>4, <2>1, Zenon DEF do_retry
<1>12. m.type = "PUBLISH" /\ m.id = id
  BY Zenon
<1> HIDE DEF m, status
<1>13. /\ k.c.state = (IF do_retry THEN "Busy" ELSE "Connected") /\ k.c.t_retry = Off
       /\ k.c.topic_ids = ctx.topic_ids /\ k.c.is_registered = ctx.is_registered /\ k.c.is_registered
  BY <1>2, <1>3, <1>8, <1>9, Zenon
<1>14. Asked(k, m, do_retry, status)
  BY <1>4, <1>5, <1>9, <1>11, <1>12, <1>13, Zenon DEF Asked, Waiting
<1>. QED
  BY <1>7, <1>10, <1>14, AppInv, Zenon

----------------------------------------------------------------------------
(* The theorems. *)

\* mqttsn_c_init establishes the invariant.
LEMMA MqttInitInv == Init => MqttInv
<1> SUFFICES ASSUME Init PROVE MqttInv
  BY Zenon
<1>1. /\ ctx = InitContext /\ sent = {} /\ up = {} /\ pub = [i \in MsgIds |-> "idle"]
      /\ refused = {} /\ copies = 0 /\ idle = 0
  BY Zenon DEF Init
<1> DEFINE m == [type |-> "none", id |-> 0, topic |-> 0]
<1>2. /\ ctx.state = "Disconnected" /\ ctx.count = 0 /\ ctx.message = m /\ ctx.n_retries = 0
      /\ ctx.t_retry = Off /\ ctx.next_ping = 0 /\ ctx.next_id = 0
      /\ ctx.topic_ids = [i \in Topics |-> 0] /\ ~ctx.is_registered
  BY <1>1, Zenon DEF InitContext
<1>3. ctx \in Contexts
  <2>1. m \in Messages
    BY MqttConstants DEF Messages, MsgTypes, MsgIds, TopicIds
  <2> HIDE DEF m
  <2>2. /\ 0 \in 0 .. NTOPICS /\ 0 \in 0 .. N_RETRY /\ 0 \in 0 .. KEEP_ALIVE /\ 0 \in MsgIds
        /\ [i \in Topics |-> 0] \in [Topics -> TopicIds]
    BY MqttConstants DEF MsgIds, TopicIds
  <2>3. ctx = [state |-> "Disconnected", count |-> 0, message |-> m,
               n_retries |-> 0, t_retry |-> Off, next_ping |-> 0, next_id |-> 0,
               topic_ids |-> [i \in Topics |-> 0], is_registered |-> FALSE]
    BY <1>1, Zenon DEF InitContext, m
  <2>. QED
    BY <2>1, <2>2, <2>3, Zenon DEF Contexts, States
<1> HIDE DEF m
<1>4. MqttTypeOK
  BY <1>1, <1>3, MqttConstants DEF MqttTypeOK, MaxCopies
<1>5. Sound(ctx)
  <2>1. ctx.t_retry <= ctx.next_ping
    BY <1>2 DEF Off
  <2>. QED
    BY <1>2, <1>3, <2>1, Zenon DEF Sound, Waiting
<1>6. Resting(ctx) /\ Answered(ctx, refused) /\ RetriesCounted /\ InboundSubscribed
  BY <1>1, <1>2 DEF Resting, Answered, Behind, RetriesCounted, InboundSubscribed, Off
<1>. QED
  BY <1>1, <1>2, <1>4, <1>5, <1>6, Zenon DEF MqttInv

\* Every step preserves it.
LEMMA MqttNextInv == MqttInv /\ [Next]_vars => MqttInv'
<1> SUFFICES ASSUME MqttInv, [Next]_vars PROVE MqttInv'
  BY Zenon
<1>1. CASE PeriodicCall
  BY <1>1, SecondInv, Zenon DEF PeriodicCall
<1>2. ASSUME NEW p \in Answers, Receive(p) PROVE MqttInv'
  BY <1>2, ReceiveInv, Zenon
<1>3. CASE AppConnect
  BY <1>3, ConnectInv, Zenon
<1>4. CASE AppDisconnect
  BY <1>4, DisconnectInv, Zenon
<1>5. ASSUME NEW i \in Topics, NEW qos \in {0, 1}, AppPublish(i, qos) PROVE MqttInv'
  BY <1>5, PublishInv, Zenon
<1>6. CASE UNCHANGED vars
  BY <1>6, Zenon DEF vars, MqttInv, MqttTypeOK, Sound, Registers, Publishes, Resting, Answered, Behind,
              RetriesCounted, Request, InboundSubscribed
<1>. QED
  BY <1>1, <1>2, <1>3, <1>4, <1>5, <1>6, Zenon DEF Next

\* The invariant holds of every behaviour.
LEMMA MqttInvariant == Spec => []MqttInv
  BY MqttInitInv, MqttNextInv, PTL DEF Spec

\* The fields of mqttsn_c_t keep their ranges: the topic counter never passes
\* the table, the message id never passes its width, and no retry or ping
\* timer exceeds its period, through every call of the API and the handler.
THEOREM MqttTypeCorrect == Spec => []MqttTypeOK
<1>1. MqttInv => MqttTypeOK
  BY Zenon DEF MqttInv
<1>. QED
  BY <1>1, MqttInvariant, PTL

\* mqttsn_regack_handler and mqttsn_suback_handler never store a topic id
\* under another topic, whatever late or repeated answers arrive, for a topic
\* table of any length.
THEOREM MqttTopicIdsRight == Spec => []TopicIdsRight
<1>1. MqttInv => TopicIdsRight
  BY Zenon DEF MqttInv, Sound, TopicIdsRight
<1>. QED
  BY <1>1, MqttInvariant, PTL

\* When mqttsn_register_next has declared the client connected, the gateway
\* has answered for every entry of the table, also after reconnecting.
THEOREM MqttConnectedRegistered == Spec => []ConnectedRegistered
<1>1. MqttInv => ConnectedRegistered
  BY Zenon DEF MqttInv, Sound, Answered, Behind, ConnectedRegistered
<1>. QED
  BY <1>1, MqttInvariant, PTL

\* cb_puback is called for a publish that is being waited for and for nothing
\* else, though mqttsn_puback_handler looks at no message type: a PUBACK can
\* only answer a publish, and a client that has published is registered for
\* good, so the request it is busy with is a publish too.
THEOREM MqttPubackOnce == Spec => []PubackOnce
<1>1. MqttInv => PubackOnce
  BY Zenon DEF MqttInv, Sound, Registers, Publishes, PubackOnce
<1>. QED
  BY <1>1, MqttInvariant, PTL

\* mqttsn_publish_handler gives a publication to an entry that subscribes to
\* its topic.
THEOREM MqttInboundSubscribed == Spec => []InboundSubscribed
<1>1. MqttInv => InboundSubscribed
  BY Zenon DEF MqttInv
<1>. QED
  BY <1>1, MqttInvariant, PTL

\* Called every second, mqttsn_c_handler lets no keep-alive period go by in
\* silence, for every retry time up to the keep-alive time.
THEOREM MqttKeepsAlive == Spec => []KeepsAlive
<1>1. MqttInv => KeepsAlive
  <2> SUFFICES ASSUME MqttInv, ctx.state \in {"Connected", "Busy"} PROVE idle < KEEP_ALIVE
    BY Zenon DEF KeepsAlive
  <2>1. /\ ctx.next_ping \in 0 .. KEEP_ALIVE /\ ctx.t_retry \in {Off} \cup 0 .. T_RETRY
        /\ idle \in 0 .. KEEP_ALIVE
    BY Zenon DEF MqttInv, MqttTypeOK, Contexts
  <2>2. idle + ctx.next_ping = KEEP_ALIVE
    BY Zenon DEF MqttInv
  <2>3. /\ ctx.state = "Connected" => ctx.next_ping # 0
        /\ ctx.state = "Busy" => ctx.t_retry # Off /\ ctx.t_retry # 0 /\ ctx.t_retry <= ctx.next_ping
    BY Zenon DEF MqttInv, Sound, Resting, Waiting
  <2>. QED
    BY <2>1, <2>2, <2>3, MqttConstants DEF Off
<1>. QED
  BY <1>1, MqttInvariant, PTL

\* A message of the client's is sent at most MQTTSN_N_RETRY times again, and
\* the counter says how often, also when a new request takes its place.
THEOREM MqttRetriesCounted == Spec => []RetriesCounted
<1>1. MqttInv => RetriesCounted
  BY Zenon DEF MqttInv
<1>. QED
  BY <1>1, MqttInvariant, PTL
=============================================================================
