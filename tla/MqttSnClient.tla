---------------------------- MODULE MqttSnClient ----------------------------
(***************************************************************************)
(* The MQTT-SN client of lib/mqttsn-client.c, with a gateway behind an     *)
(* unreliable link: any request that was ever sent may be answered at any  *)
(* time, late, twice or never, and the gateway may publish or disconnect.  *)
(*                                                                         *)
(* mqttsn_c_t is the record c.  An entry point maps it to a step           *)
(*   c     the client                                                      *)
(*   out   the messages handed to cb_send                                  *)
(*   up    the calls of cb_puback and cb_publish                           *)
(* Times are seconds left: t_retry is Off when the code's field is 0.      *)
(* Message ids are in host order; mqttsn_c_publish returns, and cb_puback  *)
(* is given, the id byte-swapped, which maps ids one to one and 0 to 0.    *)
(***************************************************************************)
EXTENDS Integers

CONSTANTS
    NTOPICS,       \* entries of the application's topic table
    Subscribed,    \* the entries with MQTTSN_REG_SUBSCRIBE
    TopicId,       \* the gateway's topic id for each entry's topic name
    N_RETRY,       \* MQTTSN_N_RETRY
    T_RETRY,       \* MQTTSN_T_RETRY, in seconds
    KEEP_ALIVE,    \* MQTTSN_KEEP_ALIVE, in seconds
    MSG_ID_MOD     \* message ids are modulo 2^16

Topics == 0 .. NTOPICS - 1
MsgIds == 0 .. MSG_ID_MOD - 1

ASSUME MqttConstants ==
    /\ NTOPICS \in Nat
    /\ Subscribed \subseteq Topics
    /\ TopicId \in [Topics -> Nat \ {0}]
    /\ N_RETRY \in Nat
    /\ KEEP_ALIVE \in Nat \ {0}
    /\ T_RETRY \in 1 .. KEEP_ALIVE
    /\ MSG_ID_MOD \in Nat \ {0}

VARIABLES
    ctx,       \* mqttsn_c_t
    sent,      \* requests the gateway may still answer
    up,        \* callbacks of the last step
    pub,       \* what the application knows of each message id
    refused,   \* topics whose registration the gateway turned down
    copies,    \* times the message awaiting an answer was sent
    idle       \* seconds since anything was sent, up to KEEP_ALIVE

vars == <<ctx, sent, up, pub, refused, copies, idle>>

Off == -1

States == {"Disconnected", "Connecting", "Registering", "Connected", "Busy", "Disconnecting"}

\* ctx->message: its type, message id and topic id.
MsgTypes == {"CONNECT", "REGISTER", "SUBSCRIBE", "PUBLISH", "PINGREQ", "DISCONNECT", "none"}
TopicIds == {0} \cup {TopicId[i] : i \in Topics}
Messages == [type : MsgTypes, id : MsgIds \cup Topics, topic : TopicIds]

Contexts == [state : States, count : 0 .. NTOPICS, message : Messages,
             n_retries : 0 .. N_RETRY, t_retry : {Off} \cup 0 .. T_RETRY,
             next_ping : 0 .. KEEP_ALIVE, next_id : MsgIds,
             topic_ids : [Topics -> TopicIds], is_registered : BOOLEAN]

\* A publication is handed up with the index of an entry; its topic id, which
\* cb_publish is not given, is kept to compare it with the entry's.
Calls == [call : {"puback"}, id : MsgIds, ok : BOOLEAN]
         \cup [call : {"publish"}, index : Topics, topic : TopicIds]

\* One more copy than the client can send is enough to see a bound broken.
MaxCopies == N_RETRY + 2

MqttTypeOK ==
    /\ ctx \in Contexts
    /\ sent \in SUBSET Messages
    /\ up \in SUBSET Calls
    /\ pub \in [MsgIds -> {"idle", "pending", "done", "spurious"}]
    /\ refused \in SUBSET Topics
    /\ copies \in 0 .. MaxCopies
    /\ idle \in 0 .. KEEP_ALIVE

\* mqttsn_c_init
InitContext ==
    [state |-> "Disconnected", count |-> 0, message |-> [type |-> "none", id |-> 0, topic |-> 0],
     n_retries |-> 0, t_retry |-> Off, next_ping |-> 0, next_id |-> 0,
     topic_ids |-> [i \in Topics |-> 0], is_registered |-> FALSE]

Init ==
    /\ ctx = InitContext
    /\ sent = {}
    /\ up = {}
    /\ pub = [i \in MsgIds |-> "idle"]
    /\ refused = {}
    /\ copies = 0
    /\ idle = 0

----------------------------------------------------------------------------
(* Parts of a step. *)

Begin(c) == [c |-> c, out |-> {}, up |-> {}]

ToState(k, state) ==
    [k EXCEPT !.c.state = state, !.c.n_retries = 0, !.c.t_retry = Off]

Emit(k) == [k EXCEPT !.out = @ \cup {k.c.message}, !.c.next_ping = KEEP_ALIVE]

\* mqttsn_send: the header is written over the message buffer.
Send(k, type, id, topic, do_retry) ==
    LET c == [k.c EXCEPT !.message = [type |-> type, id |-> id, topic |-> topic]]
    IN  Emit([k EXCEPT !.c = IF do_retry
                             THEN [c EXCEPT !.n_retries = N_RETRY, !.t_retry = T_RETRY]
                             ELSE c])

----------------------------------------------------------------------------
(* mqttsn_c_handler: retry or give up, ping, the packet, the next topic. *)

\* Faulty variant: retries are not counted.
RetryForever(k) ==
    CASE k.c.t_retry # 0 -> k
      [] k.c.t_retry = 0 /\ k.c.n_retries # 0 -> Emit([k EXCEPT !.c.t_retry = T_RETRY])
      [] k.c.t_retry = 0 /\ k.c.n_retries = 0 -> ToState(k, "Disconnected")

Retry(k) ==
    CASE k.c.t_retry # 0 -> k
      [] k.c.t_retry = 0 /\ k.c.n_retries # 0 ->
           Emit([k EXCEPT !.c.n_retries = @ - 1, !.c.t_retry = T_RETRY])
      [] k.c.t_retry = 0 /\ k.c.n_retries = 0 -> ToState(k, "Disconnected")

\* Faulty variant: no second ping follows the first.
PingOnce(k) ==
    IF k.c.state = "Connected" /\ k.c.next_ping = 0 /\ k.c.message.type # "PINGREQ"
    THEN Send(k, "PINGREQ", k.c.message.id, k.c.message.topic, FALSE) ELSE k

\* The buffer keeps the ids of the message the ping is written over.
Ping(k) ==
    IF k.c.state = "Connected" /\ k.c.next_ping = 0
    THEN Send(k, "PINGREQ", k.c.message.id, k.c.message.topic, FALSE) ELSE k

\* Faulty variant: topics are registered again on every connection.
ConnackReregisters(k, accepted) ==
    CASE k.c.state # "Connecting" \/ k.c.message.type # "CONNECT" -> k
      [] k.c.state = "Connecting" /\ k.c.message.type = "CONNECT" /\ accepted ->
           ToState([k EXCEPT !.c.count = 0], "Registering")
      [] OTHER -> ToState(k, "Disconnected")

ConnackHandler(k, accepted) ==
    CASE k.c.state # "Connecting" \/ k.c.message.type # "CONNECT" -> k
      [] k.c.state = "Connecting" /\ k.c.message.type = "CONNECT" /\ accepted ->
           ToState([k EXCEPT !.c.count = 0],
                   IF k.c.is_registered THEN "Connected" ELSE "Registering")
      [] OTHER -> ToState(k, "Disconnected")

\* Faulty variants: the message id is not checked; the counter, which is one
\* ahead, is used as the index.
TopicAckAnyId(k, request, id, topic, accepted) ==
    IF k.c.state = "Busy" /\ k.c.message.type = request
    THEN ToState([k EXCEPT !.c.topic_ids[id] = IF accepted THEN topic ELSE @], "Registering")
    ELSE k

TopicAckByCount(k, request, id, topic, accepted) ==
    IF k.c.state = "Busy" /\ k.c.message.type = request /\ k.c.message.id = id
    THEN ToState([k EXCEPT !.c.topic_ids =
                    [i \in Topics |-> IF i = k.c.count /\ accepted THEN topic ELSE @[i]]],
                 "Registering")
    ELSE k

\* REGACK and SUBACK are handled alike, each for its own request.
TopicAckHandler(k, request, id, topic, accepted) ==
    IF k.c.state = "Busy" /\ k.c.message.type = request /\ k.c.message.id = id
    THEN ToState([k EXCEPT !.c.topic_ids[id] = IF accepted THEN topic ELSE @], "Registering")
    ELSE k

\* The message type is not looked at; read as a PUBLISH, another request's
\* buffer holds bytes of its topic name where the id would be.
PubackHandler(k, id, accepted) ==
    IF k.c.state = "Busy" /\ (k.c.message.type = "PUBLISH" => k.c.message.id = id)
    THEN ToState([k EXCEPT !.up = {[call |-> "puback", id |-> id, ok |-> accepted]}], "Connected")
    ELSE k

\* Faulty variant: entries for publishing are searched too.
PublishHandlerAnyEntry(k, topic) ==
    LET found == {i \in Topics : k.c.topic_ids[i] = topic}
    IN  IF found = {} THEN k
        ELSE [k EXCEPT !.up = {[call |-> "publish", topic |-> topic,
                                index |-> CHOOSE i \in found : \A j \in found : i <= j]}]

\* The first entry that has the topic id and is subscribed.
PublishHandler(k, topic) ==
    LET found == {i \in Subscribed : k.c.topic_ids[i] = topic}
    IN  IF found = {} THEN k
        ELSE [k EXCEPT !.up = {[call |-> "publish", topic |-> topic,
                                index |-> CHOOSE i \in found : \A j \in found : i <= j]}]

DisconnectHandler(k) == ToState(k, "Disconnected")

\* An answer the client may receive: p.to is the request it answers.
Process(k, p) ==
    CASE p.to.type = "CONNECT"    -> ConnackHandler(k, p.ok)
      [] p.to.type \in {"REGISTER", "SUBSCRIBE"} ->
           TopicAckHandler(k, p.to.type, p.to.id, IF p.ok THEN TopicId[p.to.id] ELSE 0, p.ok)
      [] p.to.type = "PUBLISH"    -> PubackHandler(k, p.to.id, p.ok)
      [] p.to.type = "DISCONNECT" -> DisconnectHandler(k)
      [] p.to.type = "none"       -> IF p.ok THEN PublishHandler(k, p.to.topic) ELSE k
      [] OTHER -> k

RegisterNext(k) ==
    LET i == k.c.count
        busy == ToState(k, "Busy")
    IN  CASE k.c.state # "Registering" -> k
          [] k.c.state = "Registering" /\ i = NTOPICS ->
               ToState([k EXCEPT !.c.count = 0, !.c.is_registered = TRUE], "Connected")
          [] k.c.state = "Registering" /\ i # NTOPICS ->
               Send([busy EXCEPT !.c.count = i + 1],
                    IF i \in Subscribed THEN "SUBSCRIBE" ELSE "REGISTER", i, 0, TRUE)

Handler(c, p) == RegisterNext(Process(Ping(Retry(Begin(c))), p))

----------------------------------------------------------------------------
(* The application's calls. *)

Connect(c) == Send(ToState(Begin(c), "Connecting"), "CONNECT", 0, 0, TRUE)

Disconnect(c) == Send(ToState(Begin(c), "Disconnecting"), "DISCONNECT", 0, 0, TRUE)

\* Faulty variant: the message id does not wrap.
NextIdUnbounded(c) == c.next_id + 1

NextId(c) == (c.next_id + 1) % MSG_ID_MOD

Publish(c, i, qos) ==
    LET k == IF qos > 0 THEN ToState(Begin(c), "Busy") ELSE Begin(c)
    IN  Send([k EXCEPT !.c.next_id = NextId(c)], "PUBLISH", NextId(c), c.topic_ids[i], qos > 0)

----------------------------------------------------------------------------
(* The specification. *)

Settle(status, id, calls) ==
    IF \A u \in calls : u.call = "puback" => u.id # id THEN status
    ELSE IF status = "pending" THEN "done" ELSE "spurious"

\* What an answer says of the request it answers: not the topic id, which
\* mqttsn_puback_handler does not compare.
ToAnswer(m) == [m EXCEPT !.topic = 0]

\* The step k is the client's next; the application has entered status, and
\* what is sent is a fresh message or the last one again.
Finish(k, status, fresh) ==
    /\ ctx' = k.c
    /\ sent' = sent \cup {ToAnswer(m) : m \in {n \in k.out : n.type # "PINGREQ"}}
    /\ up' = k.up
    /\ pub' = [i \in MsgIds |-> Settle(status[i], i, k.up)]
    /\ copies' = CASE k.c.t_retry = Off -> 0
                   [] k.c.t_retry # Off /\ k.out = {} -> copies
                   [] OTHER -> IF fresh THEN 1 ELSE IF copies < MaxCopies THEN copies + 1 ELSE copies

\* What may arrive: answers to anything sent, a DISCONNECT at any time, and
\* publications on the topics the client has subscribed to.
Answers ==
    [to : sent, ok : BOOLEAN]
    \cup {[to |-> [type |-> "DISCONNECT", id |-> 0, topic |-> 0], ok |-> TRUE]}
    \cup {[to |-> [type |-> "none", id |-> 0, topic |-> TopicId[m.id]], ok |-> TRUE]
            : m \in {n \in sent : n.type = "SUBSCRIBE"}}

\* A periodic call brings no packet.
Nothing == [to |-> [type |-> "PINGREQ", id |-> 0, topic |-> 0], ok |-> FALSE]

\* mqttsn_c_handler is called, c being the client at the time of the call
\* and waited the seconds since something was last sent.
Call(c, waited, p) ==
    LET k == Handler(c, p)
        asked == Retry(Begin(c)).c
        taken == /\ asked.state = "Busy" /\ asked.message = p.to
                 /\ p.to.type \in {"REGISTER", "SUBSCRIBE"}
    IN  /\ Finish(k, pub, k.c.message # c.message)
        /\ idle' = IF k.out = {} THEN waited ELSE 0
        /\ refused' = IF ~taken THEN refused
                      ELSE IF p.ok THEN refused \ {p.to.id} ELSE refused \cup {p.to.id}

Receive(p) == Call(ctx, idle, p)

\* A second has passed when the handler is called.
Elapse(t) == IF t > 0 THEN t - 1 ELSE t

Second(p) ==
    Call([ctx EXCEPT !.t_retry = Elapse(@), !.next_ping = Elapse(@)],
         IF idle < KEEP_ALIVE THEN idle + 1 ELSE idle, p)

PeriodicCall == \E p \in Answers \cup {Nothing} : Second(p)

AppConnect ==
    /\ ctx.state = "Disconnected"
    /\ Finish(Connect(ctx), pub, TRUE)
    /\ idle' = 0
    /\ UNCHANGED refused

AppDisconnect ==
    /\ ctx.state # "Disconnected"
    /\ Finish(Disconnect(ctx), pub, TRUE)
    /\ idle' = 0
    /\ UNCHANGED refused

AppPublish(i, qos) ==
    /\ ctx.state = "Connected"
    /\ Finish(Publish(ctx, i, qos),
              [pub EXCEPT ![NextId(ctx)] = IF qos > 0 THEN "pending" ELSE "idle"],
              TRUE)
    /\ idle' = 0
    /\ UNCHANGED refused

Next ==
    \/ PeriodicCall
    \/ \E p \in Answers : Receive(p)
    \/ AppConnect
    \/ AppDisconnect
    \/ \E i \in Topics, qos \in {0, 1} : AppPublish(i, qos)

Spec == Init /\ [][Next]_vars

\* The handler is called every second for ever (mqttsn-client.h).
FairSpec == Spec /\ WF_vars(PeriodicCall)

----------------------------------------------------------------------------
(* Properties of every behaviour. *)

\* A topic id in the registry is the gateway's id for that very topic, though
\* answers to repeated and to earlier requests keep arriving while the next
\* topic is being registered (mqttsn_regack_handler, mqttsn_suback_handler).
TopicIdsRight == \A i \in Topics : ctx.topic_ids[i] \in {0, TopicId[i]}

\* A connected client has had an answer for every topic of its table, also
\* when the connection was lost and made again half-way through.
ConnectedRegistered ==
    ctx.state = "Connected" \/ ctx.is_registered =>
        \A i \in Topics : ctx.topic_ids[i] = TopicId[i] \/ i \in refused

\* cb_puback is called only for a publish that waits for it, once, though the
\* handler does not check which kind of message it is waiting on.
PubackOnce ==
    /\ \A id \in MsgIds : pub[id] # "spurious"
    /\ ctx.state = "Busy" /\ ctx.message.type # "PUBLISH" => ~ctx.is_registered

\* A publication reaches the application under an entry that subscribes to
\* the topic it was made on: mqttsn_publish_handler goes by the ids in the
\* registry, which must be those of the entries' own topic names.
InboundSubscribed ==
    \A u \in up : u.call = "publish" =>
        u.index \in Subscribed /\ u.topic = TopicId[u.index]

\* While connected the client sends something in every keep-alive period:
\* pings when idle, retries when it waits for an answer.  Called every second,
\* it never lets a whole period go by.
KeepsAlive == ctx.state \in {"Connected", "Busy"} => idle < KEEP_ALIVE

\* A message awaiting its answer has been sent once and once more for every
\* retry used up.
RetriesCounted == ctx.t_retry # Off => copies + ctx.n_retries = N_RETRY + 1

\* A client never waits for ever for the gateway: connecting, registering and
\* publishing end, in success or in disconnection.
WaitEnds ==
    ctx.state \in {"Connecting", "Busy"} ~>
        ctx.state \in {"Connected", "Disconnected", "Disconnecting"}
=============================================================================
