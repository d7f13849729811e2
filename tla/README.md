# A verification of TinyHAN

TinyHAN is a home-area-network stack for small radios. This directory holds
TLA+ modules of its protocol code, its radio driver and its main loops, TLC
configurations that check them on small instances, and TLAPS proofs for
instances of every size. `PROJECT.json` maps each definition to the lines it
models and lists runs, hazards and findings.

## The system

| Part | Source | Here |
|---|---|---|
| Delivery engine of the MAC, one node per peer | `lib/tinymac.c`, `lib/tinymac.h` | `TinyMacNode`, `TinyMacNodeProofs` |
| Coordinator: registry, receive callback, tick, calls | `lib/tinymac.c` | `TinyMacCoord`, `MCTinyMacCoord`, `TinyMacCoordProofs`, `CoordDeliveryProofs` |
| What the coordinator's application relies on | `lib/tinymac.h` | `MacService`, `CoordRefinement` |
| Client: search, registration, exchange, sleep | `lib/tinymac.c` | `TinyMacClient`, `TinyMacClientProofs` |
| Coordinator and clients on one channel, with restarts | `lib/tinymac.c`, `examples/mqttsn-simple-gateway`, `examples/mqttsn-client`, `examples/sensor` | `TinyMacNet`, `MCTinyMacNet`, `TinyMacNetProofs` |
| MQTT-SN client over the MAC | `lib/mqttsn-client.c`, `lib/mqttsn.h` | `MqttSnClient`, `MCMqttSnClient`, `MqttSnClientProofs` |
| Si443x radio driver | `lib/phy-si443x.c` | `Si443xPhy`, `FirmwareProofs` |
| Sensor main loop, absolute timers | `examples/sensor/main.c`, `lib/tinymac.c` | `SensorMain`, `RelativeTimer`, `FirmwareProofs` |
| TinyApp serialisation | `lib/tinyapp.c`, `lib/tinyapp.h` | `TinyApp`, `MCTinyApp`, `TinyAppProofs` |

A device runs one main loop that calls `phy_event_handler` when the radio has
something, `tinymac_tick_handler` every 250 ms, and the application. The radio
driver calls `tinymac_recv_cb` for a received packet; the MAC calls the
application back with data, with the fate of a packet it was given to send
(`send_cb`), and, on a coordinator, with nodes that come and go (`reg_cb`,
`dereg_cb`). The MQTT-SN client sits on top of a MAC client.

There is one thread, so to the MAC and what is above it an entry point is one
atomic action; what is arbitrary is the order in which ticks, packets and calls
arrive, and what is lost, late or repeated. Below the MAC this is not so: the
radio acts while the driver does, and interrupts come between any two steps of
the main loop. There the steps are single accesses.

## The modules

**`TinyMacNode`** is `tinymac_node_t` and the functions on it. Each maps a step
record (the node, packets sent, callbacks invoked, whether the node was
deregistered) to a step record: `TxPacket`, `TxPending`, `TxAck`, `Heard`,
`RxAck`, `AckTimeout`, `ValidityTimeout`, `CheckHeartbeat`, `NodeTick`.
A timer holds the ticks left, `Off` when its callback is `NULL`; it is
despatched at 0 and then counted down. The code compares absolute 32-bit ticks
by signed difference; `SensorMain` shows that this comes to the same. `age`
stops at the heartbeat limit, beyond which no comparison tells values apart.

**`TinyMacCoord`** has an action for each entry point: `Send`, `PermitAttach`,
`RecvCb` and `TickHandler`. `RecvCb` is the whole callback, with the filters,
the acknowledgement, the pending packet and the handler for the type. Three
variables are the application's view: `sends`, `live` and `copies`. Incoming
packets are all those a client can build (`ClientPackets`), at any time, so
loss, delay, repetition and several clients at one address are all included.
`OrderlySpec` is the same coordinator where the radio takes every packet, a
device registers or deregisters only when nothing is outstanding for its slot,
and no sleepy device deregisters. The properties about single packets hold
there; `coord_resurrected` shows that one of them needs the restriction. The
search for a slot takes the first that qualifies (`First`): the device's own,
else one no device has had, else one that has lapsed (`SlotFor`).

**`MacService`** is the promise to a coordinator's application: nodes come and
go, at most one packet per node is in flight, and each packet taken is settled
once, as delivered or failed; a node is given up only with nothing in flight or
together with the failure of what was. It knows no timers, retries or
acknowledgements. `CoordRefinement` maps the orderly coordinator to it: what is
in flight for a node is the callback its busy slot holds.

**`TinyMacClient`** is the client: association state, request timer, the node
of its coordinator, and the receiver (`on`, on for a listen period, `off`).
`phy_send` may fail for any of a step's packets. `Overhear` is a packet the
driver received and the MAC ignored, or one with a bad checksum.

**`TinyMacNet`** puts the coordinator of `TinyMacCoord`, run as the gateway
example runs it, and an instance of `TinyMacClient` per device on one channel.
A transmission reaches each receiver or is lost. A receiver holds one packet
until its main loop takes it, arbitrarily late. A station sends its packets one
after the other, and one that misses the first may still get the second: a step
delivers at most one packet to a receiver. Either side may lose power:
`DeviceRestart` (with the same uuid, as the sensor has it), `GatewayRestart`
(with an empty registry and any network identifier, the old one and the
wildcard included, since `tinymac_init` takes it from `rand()`). `fresh` records
whether the identifier drawn at the last start was unused (`InUse`): no device
was bound to it, had a packet stored for it or had one in its receiver. With
`Prompt` the channel has what timing gives in practice, that a packet
in a receiver is taken before the next tick (`InTime`). `PoweredSpec` adds
fairness; there clients stay powered.

**`MqttSnClient`** is `mqttsn_c_t` with a gateway that may answer anything ever
sent, at any time and more than once, accept or refuse, publish on subscribed
topics and disconnect. The application publishes under any entry of its table.
The gateway's topic ids are stable. A publication handed up is recorded with the
topic id it came with. `PeriodicCall` is a
call a second later, with or without a packet.

**`Si443xPhy`** is the driver with a program counter: `Poll` and `ApplyFlags`
are the loop of `si443x_event_handler`, `Despatch` the rest of
`phy_event_handler`, `SendBegin`, `Fill`, `Start` and `Wait` the stages of
`phy_send`, `Callback` and `Returned` what the MAC does to the radio in
`tinymac_recv_cb` and `tinymac_phy_send`. The radio (external) raises flags,
fills and drains FIFOs and runs its wake-up timer in between, before and after
any access; a reception may begin, go on and end at any of these points. The
only thing taken from the speed of the two is that the driver fills the FIFO
faster than the air drains it. `QuietSpec` leaves out that the wake-up timer
runs out while `phy_send` is running.

**`SensorMain`** is the main loop of the sensor example, one action per
statement, with the timer and the radio interrupt between any two of them. The
tick count is wider than the processor's registers: `Read` and `ReadRest` are
the two halves of reading it. The MAC under it is its tick count and one timer,
set, cancelled and despatched as `tinymac_set_timer`, `tinymac_cancel_timer` and
`tinymac_despatch_timer` do. `RelativeTimer` is a timer as the other modules see
it, and `RelativeTime` the refinement.

**`TinyApp`** holds the functions of `tinyapp.c`, in bytes, and the two lists of
items: the enumerations of `tinyapp.h`, by which a node knows them, and the name
tables of `tinyapp.c`, which are compiled for a coordinator. Either party builds
a packet item by item from its own list, the decoder takes it apart item by
item, and the other party names what it is given by its own list (`NameOf`).

Operators marked *faulty variant* are not used by the specifications. They
are what the next definition would be with a plausible mistake, kept to show
that the properties notice it.

### Left out of the modules

Payload contents, lengths and the refusal of packets that are too long or too
short; rssi; beacon sequence numbers and timestamps; printing. A packet that is
not accepted and a send to an unregistered node change nothing and are
stuttering steps. On a coordinator a failing `phy_send` is a lost packet, apart
from what `tinymac_send` returns. Callbacks are taken not to call `tinymac_send`
themselves, and the application not to send a message again while it is pending
(messages stand for callback contexts, and are data: `MessagesAreData` keeps
them apart from the bodies of the MAC's own packets). `coord.addr` is always 0,
since every coordinator takes that address. `mqttsn_puback_handler` compares the
id with the message buffer whatever the buffer holds; for a REGISTER or
SUBSCRIBE the bytes compared belong to a topic name, so there the model accepts
any id, which covers every topic table. Nothing is persisted, so a restarted
device is a new one to its peers; that is modelled in `TinyMacNet`. An item or a
profile outside the tables, which only a foreign packet could name, is not
decoded.

## What TLC checks

| Run | Configuration | Distinct states | Shows |
|---|---|---|---|
| `coord_delivery` | `CoordDelivery.cfg` | 104 k | `TimersMatchState`, `AppKnowsRegistry`, `RetryBudget`, `DeliveredWasSent`, `FailureJustified` in orderly behaviours, which implement the service (`ImplementsService`) |
| `coord_disturbed` | `CoordDisturbed.cfg` | 26 k | `TypeOK`, `WaitAckTimed`, `DataPendingHonest` in every behaviour |
| `coord_liveness` | `CoordLiveness.cfg` | 3.8 k | every packet taken is settled (`ImplementsFairService`); `SilentNodeDropped` |
| `client_safety` | `ClientSafety.cfg` | 51 k | `ClientTypeOK`, `AssociationConsistent`, `WaitsTimed`, `NeverMoved`, `RegisteringEnds` |
| `net_safety` | `NetSafety.cfg` | 682 k | `RegistryUnique` and, unless the coordinator has drawn an identifier still in use, `AddressesAgree` and `DataAttributed`, with restarts on both sides |
| `net_joins` | `NetJoins.cfg` | 14 k | `Joins`: a sleepy device gets in, and in again after lapses and coordinator restarts, once the coordinator stays up under an identifier that is not the wildcard |
| `mqtt` | `Mqtt.cfg` | 58 k | `MqttTypeOK`, `TopicIdsRight`, `ConnectedRegistered`, `PubackOnce`, `InboundSubscribed`, `KeepsAlive`, `RetriesCounted`, `WaitEnds` |
| `si443x_quiet` | `Si443xQuiet.cfg` | 559 k | `DriverTypeOK`, `SuccessMeansSent`, `CallbackGetsPacket`, `StateMatchesRadio`, `SendReturns`, `ListensAgain` unless the wake-up timer runs out in `phy_send` |
| `sensor` | `Sensor.cfg` | 171 k | `OncePerInterrupt`, `TicksKeepComing`, `RadioServed`, `RelativeTime` |
| `tinyapp` | `TinyApp.cfg` | 670 k | `StaysInside`, `RoundTrip` |

That no callback comes twice, or for a packet that was not taken, is part of
`ImplementsService`.

**Bounds.** The delivery properties are checked on one slot: slots meet only in
the search for a slot, which `net_safety` checks with two slots and two devices.
(The proofs have any number.) The refinement was also checked once with two
slots and two messages (418 k states, five minutes). One retry gives a first
try, a repeated one and giving up. `coord_delivery` has two messages and two
sequence numbers, so an acknowledgement may match or be stale, an
acknowledgement timeout of one tick and validity periods of two and six ticks,
so a validity period may run out around the retries or outlast them. The other
runs have one sequence number where acknowledgements that match are the
demanding case. `NetIds` contains the wildcard 255, since `tinymac_init` takes a
coordinator's from `rand()`; the network's coordinator draws 1, 2 or 255 at each
start, as often as it likes. In the network all timeouts are one tick, so that
everything may lapse between any two packets. Its coordinator sends beacons when
asked but no periodic ones (`BEACON_OFFSET` is beyond the period): a periodic
beacon says the same as an answer to a beacon request, the coordinator's own
runs and the proofs have both, and with them `net_safety` has 1.6 M states.
Its safety is checked with devices that do not sleep:
with sleepy ones the instance has more than TLC visits in a quarter of an hour,
and what sleep adds is that packets are missed, as when they are lost, and
held back by the coordinator, which its own runs check.
`net_joins` has one device that sleeps, because a receiver that is off at the
wrong moment is what could keep it out.

The MQTT-SN instance publishes a topic, subscribes to another, and subscribes to
the first as well, so that two entries share a topic id; it has two message ids.
The driver's FIFO has 5 blocks with thresholds 3 and 1, so packets may end
below, at and above each of them. The sensor's count has 8 values, read in
halves of which the first has 2; posts are 2 ticks apart and timers run for 2
ticks. `OncePerInterrupt` and `RelativeTime` were also checked with 16 values
and 1.8 M states. TinyApp's buffer has 12 bytes, enough for five short items or
profile changes; values contain bytes that look like headers.

`MaxCopies`, `MaxOwed`, the saturation of `age` and `idle`, and the moduli of
sequence numbers, message ids and tick counts are the only caps; none of them
disables a step. In `SensorMain` a turn of the loop is taken to be shorter than
the 250 ms between two timer interrupts. Devices and messages are
interchangeable in the coordinator and the network, whose safety runs use that
symmetry.

**Fairness.** On a coordinator and for the MQTT-SN client, only what a host's
timer guarantees: `TickHandler` and the periodic call. `RegisteringEnds` has the
client's ticks as its premise, `TicksKeepComing` the timer's interrupts. The
sensor's processor runs. The driver's processor runs too, its main loop calls
`phy_event_handler` again and again however often it sends, and what the radio
is sending or receiving comes to an end. `Joins` needs more, since a channel
that loses everything keeps everybody out: main loops run, devices go on
sending, and a kind of packet that is sent again and again gets through now and
then (`NetFairness`); and the coordinator stays up in the end, permits
attachment and does not have the wildcard for its identifier, which is the
premise of `Joins`. `SendReturns` has as its premise that the loop of
`si443x_event_handler`, which takes microseconds, does not find one event of a
reception after another for ever (`KeepsUp`). Neither packets nor answers are
otherwise assumed to come.

## Where code and comments disagree

Two have a run with the one property that TLC finds violated.

| Run | Statement | What happens |
|---|---|---|
| `coord_resurrected` | "Free the slot" (`tinymac.c:703`) | The response to a sleepy device that deregisters is deferred, and its validity timeout sets the freed slot to Registered |
| `si443x_success` | "0 on success" (`phy.h:117`) | The wake-up timer runs out while `phy_send` is running: the FIFO is cleared and the state set to standby, which `phy_send` takes for the end of the transmission. With bytes still to be filled in it waits for ever instead |

More were met while modelling. TLC showed each of these on the modules or on
earlier versions of them; they have no run, to keep the runs few:

- A beacon that permits no attachment cancels the request timer and leaves the
  client waiting without asking again (`tinymac.c:521`; `tinymac.h:163` has a
  time between beacon requests).
- A packet that is ignored leaves a sleepy client's receiver on, as the driver
  goes back to listening without the wake-up timer (`phy-si443x.c:465`;
  `phy.h:85` has standby after the delay).
- A publish that is given up, or cut off by a DISCONNECT, gets no callback
  (`mqttsn-client.c:317`; `mqttsn-client.h:91` has one "successfully or not").
- The heartbeat is checked only in state Registered (`tinymac.c:957`), so a
  silent sleepy node that is sent to whenever a packet expires stays registered
  (`tinymac.h:167` has it gone after the grace period).
- A retry timer left from a lost association can end the next one though nothing
  awaits an acknowledgement (`tinymac.c:288`, "Give up - other end is
  unreachable").
- A beacon that binds the client while a send is in flight lets the next send
  overwrite its callback (`tinymac.h:253` promises one).
- A client that never asks for acknowledgements does not notice that its
  coordinator was restarted under another identifier: nobody answers it, and
  `Joins` fails for it. `net_joins` has devices that ask.
- With more devices than slots, data of a device whose lapsed slot was given
  away is attributed to the new holder until it notices. A device of the
  MQTT-SN client example draws another uuid at every start
  (`mqttsn-client/main.c:92`), and so counts as one more device each time.
- A coordinator that is restarted and draws an identifier that devices still
  have (`tinymac.c:911` takes one of 256) takes their data for that of whoever
  has registered at their addresses since: without `fresh`, `AddressesAgree` and
  `DataAttributed` are violated.
- A coordinator whose random identifier is 255 (`tinymac.c:911`) sends beacons
  that clients do not accept, so that `Joins` has to exclude it.
- An event of a reception that comes while `phy_send` fills the FIFO takes the
  state away from Tx before the transmitter is on: the rest of the packet is
  never written and `phy_send` waits for ever (`phy-si443x.c:544`; `Stuck`, the
  one exception of `SendReturns`).
- When `phy_standby`, or the `phy_listen` after a bad packet, clears the FIFO
  between the arrival of the next packet and the reading of its flag, that
  packet is lost and what is left in the FIFO is handed up (`phy-si443x.c:458`).
  When `phy_standby` comes between the flag of a half-full FIFO and its reading,
  a sleepy device's driver stays in `stateRxReady`, busy, with the radio in
  standby. `CallbackGetsPacket` and `StateMatchesRadio` except these two.
- The header's HVAC items 4 to 6 are fan speed, flow and return temperature, the
  table's are flow, return and fan speed (`tinyapp.h`, `tinyapp.c`): a node's
  fan speed arrives as a flow temperature. `RoundTrip` excepts their names
  (`Misnamed`).
- The interrupt of a received packet may be read by the busy check of
  `phy_send`. A main loop that called `phy_event_handler` only on interrupts
  would then leave the packet in the radio, whose receiver is off; the sensor's
  calls it on every turn.
- A timer interrupt between reading the count and sleeping is served with the
  next one, and a count read in parts may delay ticks by a multiple of 256, so
  "must be called every 250 ms" (`sensor/main.c:174`) is not exact. Ticks still
  keep coming and never run ahead.

And these by reading:

- The 16-bit message id wraps to 0 (`mqttsn-client.c:468`, "0 is used to
  indicate failure").
- Data sent while a client registers reaches `rx_cb` with no node
  (`tinymac.c:810`); the gateway example's `rx_handler` uses the node unchecked
  (`mqttsn-simple-gateway/main.c:67`).
- When the radio refuses a packet that is to be acknowledged, `tinymac_send`
  returns an error (`tinymac.c:382`), yet the packet is tried again and its
  callback invoked; `tinymac.h:254` has "Sequence number or -ve error code".
- `tinymac_tick_handler` "may be called directly from interrupt context"
  (`tinymac.h:234`), yet shares its state with the other entry points unguarded.
- `phy_send` promises clear channel assessment (`phy.h:111`); the driver checks
  only whether it is receiving itself.

## What is proved

Every safety property the runs check is proved, for every value of the
constants; only liveness is left to TLC. The constants are assumed to satisfy
the `ASSUME` of the module: `NodeConstants`, `MessagesAreData`,
`CoordConstants`, `ClientConstants`, `NetConstants`, `MqttConstants`,
`PhyConstants`, `SensorConstants`, `TinyAppConstants`, `NamesKnown`. The
theorems about the network also assume `EnoughSlots`. The inductive invariants
below were checked with TLC too, but for TinyApp's, which quantifies over sets
TLC does not enumerate.

| Module | Theorem | Statement |
|---|---|---|
| `TinyMacCoordProofs` | `CoordTypeCorrect` | `Spec => []TypeOK` |
| | `CoordRegistryUnique` | `Spec => []RegistryUnique` |
| | `CoordWaitAckTimed` | `Spec => []WaitAckTimed` |
| | `CoordTimersMatch` | `OrderlySpec => []TimersMatchState` |
| | `CoordAppKnowsRegistry` | `OrderlySpec => []AppKnowsRegistry` |
| | `CoordDataPendingHonest` | `Spec => []DataPendingHonest` |
| `CoordDeliveryProofs` | `CoordImplementsService` | `OrderlySpec => ImplementsService` |
| | `CoordRetryBudget` | `OrderlySpec => []RetryBudget` |
| | `CoordDeliveredWasSent` | `OrderlySpec => []DeliveredWasSent` |
| | `CoordFailureJustified` | `OrderlySpec => FailureJustified` |
| `TinyMacClientProofs` | `ClientTypeCorrect` | `Spec => []ClientTypeOK` |
| | `AssociationAgrees` | `Spec => []AssociationConsistent` |
| | `WaitsAreTimed` | `Spec => []WaitsTimed` |
| | `NeverMovedHolds` | `Spec => NeverMoved` |
| | `RegisteringEndsHolds` | `Spec => RegisteringEnds` |
| `MqttSnClientProofs` | `MqttTypeCorrect` | `Spec => []MqttTypeOK` |
| | `MqttTopicIdsRight` | `Spec => []TopicIdsRight` |
| | `MqttConnectedRegistered` | `Spec => []ConnectedRegistered` |
| | `MqttPubackOnce` | `Spec => []PubackOnce` |
| | `MqttInboundSubscribed` | `Spec => []InboundSubscribed` |
| | `MqttKeepsAlive` | `Spec => []KeepsAlive` |
| | `MqttRetriesCounted` | `Spec => []RetriesCounted` |
| `TinyMacNetProofs` | `NetAddressesAgree` | `EnoughSlots` implies `NetSpec => []AddressesAgree` |
| | `NetDataAttributed` | `EnoughSlots` implies `NetSpec => []DataAttributed` |
| `FirmwareProofs` | `PhyTypeCorrect` | `QuietSpec => []DriverTypeOK` |
| | `PhySuccessMeansSent` | `QuietSpec => []SuccessMeansSent` |
| | `PhyCallbackGetsPacket` | `QuietSpec => []CallbackGetsPacket` |
| | `PhyStateMatchesRadio` | `QuietSpec => []StateMatchesRadio` |
| | `SensorOncePerInterrupt` | `SensorSpec => OncePerInterrupt` |
| | `SensorRelativeTime` | `SensorSpec => RelativeTime` |
| `TinyAppProofs` | `AppStaysInside` | `AppSpec => []StaysInside` |
| | `AppRoundTrip` | `AppSpec => []RoundTrip` |

**The delivery engine** (`TinyMacNodeProofs`) is shared by coordinator and
client. `TypeOK` is not inductive: a node that re-sends an empty pending buffer
would leave it. `NodeInv` excludes that, as a node that is busy or has its
acknowledgement timer running holds a packet, and adds that a node awaiting an
acknowledgement has the timer running. `Keeps(r, q)` says that going from step
record `r` to `q` preserves `NodeInv` and the uuid, and in the orderly case the
match of timers and the account of deregistrations. One lemma per function
shows that it keeps, and `KeepsTrans` chains them the way the functions call
each other.

**The coordinator** (`TinyMacCoordProofs`). `CoordInv` is `TypeOK`, `NodeInv`
for every slot and `RegistryUnique`. `ApplySound` lifts the lemmas to the table
of slots and covers every step but registration and deregistration, which
change a slot's identity (`RegistrationInv`, `DeregistrationInv`). For orderly
behaviours `OrderlyInv` adds `TimersMatchState` and `AppKnowsRegistry`; the
second rests on the first, because a timer left on a free slot would set it to
Registered unannounced. `MailInv`, which holds in any environment, says that all
a slot keeps and sends is for the slot's own address (`Carries` follows the
stored packet through the engine); with it an acknowledgement's data pending
flag is honest.

**Delivery and the service** (`CoordDeliveryProofs`). `Fate(n, r)` says what a
step may come to for the packet in flight at a node: there was none, it is still
held, it was delivered, or it failed for one of two reasons. Every function of
the engine has a fate. What makes this add up over the table is `OneHolder`: a
busy slot's message is pending, and no two slots hold the same one. With
`RetryBudget` and `DeliveredWasSent` it is inductive, and every step then maps
to a step of `MacService` or to none.

**The client** (`TinyMacClientProofs`). `ClientInv` has the types, `NodeInv` of
the coordinator's node, and `Associated`: state, network, address and
coordinator agree, and an unanswered request is timed. `Follows` is what a step
does to the association; the two action properties are read off it.

**The network** (`TinyMacNetProofs`). The engine's functions come twice, in the
coordinator and in each device's instance of the client; they are shown to be
the same, so that the engine's lemmas serve both ends. `Agreed(nt, addr, u)`
says that device `u` may use an address under an identifier: if the identifier
is the present one and was unused when the coordinator started, the slot is the
device's. `NetInv` says so of what a device holds, of the data it has stored or
sent, of the packet in the coordinator's receiver, and of every response on its
way that grants an address, and that the coordinator keeps no such response
back. Two facts carry it through a step (`Lasting`). A slot that was given to a
device stays with it: the device's own slot is found first, and since the other
devices cannot take up all the slots there is always one that was never given
away (`RoomForDevice`, the only use of `EnoughSlots`). And the identifier stays
until the coordinator restarts, when nothing that devices hold, have stored or
find in their receivers is of the network that begins, or `fresh` does not hold
(`RestartInv`).

**MQTT-SN** (`MqttSnClientProofs`). `Sound(c)` holds of the client all through a
call of the handler, `Resting(c)` between two calls, and `Answered` says that
each topic that has been gone through has its id or was refused. `Underway`
follows the retry count and the time since the last packet through the handler's
parts in their order: retry, ping, packet, next topic. `Request` keeps apart
what the client can have sent before and after it had registered; it is why no
late PUBACK can be taken for the answer to a REGISTER.

**The driver** (`FirmwareProofs`). `PhyInv` says which flags may be waiting
where (`FlagsInv`), that the rest of a packet fits (`CountInv`), that while
`phy_send` has the transmitter only the end of the packet puts the driver into
standby (`BusyInv`), that at other times the state is the radio's but for the
flags waiting (`IdleInv`), and that a packet announced is in the FIFO or was
thrown away before its flag was read (`PacketInv`). The proof has a step for
each access and each event of the radio.

**The main loop** (`FirmwareProofs`). `Lag` is the number of ticks by which
the MAC is late, as a signed difference of counts that wrap. `LoopInv` bounds
it: by one tick, or two in a turn with an interrupt, and the second only when
the low part of the count has not just come round; ahead of time by `LOW_MOD` at
most, and then at a multiple of it. That is what a count read in parts can come
to (`JoinCases`): one of the two counts, or `LOW_MOD` out when the low part
comes round just then. Then each tick of the MAC has had its interrupt.
`RelativeTime` is a step simulation: the ticks left on a timer are its expiry
less the count, and a tick leaves one less (`LeftAfterTick`).

**TinyApp** (`TinyAppProofs`). Induction over the bytes of a packet is out of
the prover's reach, so the proof carries the places where items start through
every step instead. A mark is such a place, or the end of the packet, with the
profile and the number of items before it. A packet is `Framed` by a set of
marks when the first one is in it, and each but the last reads as a profile
selection or as the next item sent, by identifier and byte for byte, and leads
to another (`Reads`). Serialising adds a mark and leaves what the others read
(`ReadsLasts`); the decoder is always at a mark, and takes from it what it reads
(`Decodes`). Names come back because a tag is found where it stands in its table
(`IndexFinds`, `NameFound`) and the two lists agree but for the three HVAC items
(`TablesAgree`, `NamesAgree`). `NamesKnown` has the sender use names that are in
both.

### Only model-checked

- Liveness, `ENABLED` and fairness are out of the prover's reach:
  `ImplementsFairService`, `SilentNodeDropped`, `Joins`, `WaitEnds`,
  `SendReturns`, `ListensAgain`, `TicksKeepComing`, `RadioServed`.

No module that is proved about uses a `RECURSIVE` operator.

## Not modelled

- `lib/phy-udp.c`: a multicast socket in place of the radio. It keeps no state
  beyond the socket and its standby functions do nothing. Every device hears
  every packet, its own included, which `tinymac_recv_cb` drops by its source
  address; the channel of `TinyMacNet` includes that.
- Of the driver: `phy_suspend`, `phy_set_power` and `phy_set_channel`, which
  nothing calls; SPI transfers, the configuration table and `si443x_regs.h`,
  which are pure I/O. That is a good part of the lines that no definition maps.
- Of the examples: sockets to the broker, `epoll` and signal set-up, ports,
  clocks and the converter of the sensor board.
- The sniffer and the GNU Radio tools, which only listen; `ansi.h`, `common.h`.
- Beacon synchronisation of the clients: `tinymac.h:237` asks for it,
  `tinymac_rx_beacon` does not do it.
- The MQTT-SN client on top of `TinyMacNet`: its gateway already loses, delays
  and repeats packets, which is all the MAC below it does to unacknowledged
  data.
