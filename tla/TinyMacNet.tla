----------------------------- MODULE TinyMacNet -----------------------------
(***************************************************************************)
(* A network: a coordinator (TinyMacCoord), run by a gateway that permits  *)
(* attachment and relays data, and clients (TinyMacClient), over one radio *)
(* channel.  A transmission reaches each receiver or is lost, a receiver   *)
(* holds one packet until its main loop takes it, and any device may lose  *)
(* power and start again; nothing is persisted.                            *)
(*                                                                         *)
(* Clients only address the coordinator, so what clients hear of each      *)
(* other is Overhear.                                                      *)
(***************************************************************************)
EXTENDS TinyMacCoord

CONSTANTS
    Sleepy,              \* the clients that sleep
    HEARTBEAT,
    BEACON_TICKS,
    REGISTRATION_TICKS,
    AckRequests,         \* the ack request flags clients send data with
    Prompt               \* packets are taken in time, see InTime

ASSUME NetConstants ==
    /\ Sleepy \subseteq Uuids
    /\ HEARTBEAT \in Heartbeats
    /\ BEACON_TICKS \in Nat \ {0}
    /\ REGISTRATION_TICKS \in Nat \ {0}
    /\ AckRequests \subseteq BOOLEAN
    /\ Prompt \in BOOLEAN

VARIABLES
    clients,    \* tinymac_ctx of each client
    inbox,      \* the packet in each client's receiver, or NoPacket
    hub_inbox,  \* the packet in the coordinator's receiver, or NoPacket
    sender,     \* the client that sent it, if it is data
    fresh       \* no client had the network identifier drawn at the last start

net == <<clients, inbox, hub_inbox, sender, fresh>>
allvars == <<vars, net>>

Client(u) == INSTANCE TinyMacClient WITH Self <- u, ctx <- clients[u]

FreshClient(u) == Client(u)!InitClient(u \in Sleepy, 0)

NetInit ==
    /\ Init
    /\ clients = [u \in Uuids |-> FreshClient(u)]
    /\ inbox = [u \in Uuids |-> NoPacket]
    /\ hub_inbox = NoPacket
    /\ sender = NoUuid
    /\ fresh = TRUE

----------------------------------------------------------------------------
(* The channel. *)

\* Each client whose receiver is on and empty may get one of the packets sent.
\* One for another address, which no later state of the client can accept, is
\* an Overhear.
Receivable(u, packets) ==
    {p \in packets : /\ inbox[u] = NoPacket /\ Client(u)!Listening(clients[u])
                     /\ p.dest \in {Broadcast, clients[u].addr}}

ToClients(packets) ==
    \E heard \in SUBSET {u \in Uuids : Receivable(u, packets) # {}} :
        \E got \in [heard -> packets] :
            /\ \A u \in heard : got[u] \in Receivable(u, packets)
            /\ inbox' = [u \in Uuids |-> IF u \in heard THEN got[u] ELSE inbox[u]]

\* The coordinator, if its receiver is empty, may get one of the packets sent.
ToHub(u, packets) ==
    \/ UNCHANGED <<hub_inbox, sender>>
    \/ /\ hub_inbox = NoPacket
       /\ hub_inbox' \in packets
       /\ sender' = IF hub_inbox'.type = "Data" THEN u ELSE NoUuid

\* A packet is a few milliseconds under way, the listen period is 10 ms, ticks
\* and sends are 250 ms apart: when Prompt, the stations take what they have
\* received before the next of these.
InTime == Prompt => hub_inbox = NoPacket /\ \A u \in Uuids : inbox[u] = NoPacket

----------------------------------------------------------------------------
(* The gateway. *)

\* tinymac_permit_attach(TRUE) comes before the main loop.
GatewayStart ==
    /\ PermitAttach(TRUE)
    /\ UNCHANGED net

GatewayTick ==
    /\ permit_attach /\ InTime
    /\ UNCHANGED <<clients, hub_inbox, sender, fresh>>
    /\ TickHandler
    /\ ToClients(tx')

\* phy_event_handler with a packet; what the coordinator ignores is dropped.
GatewayRecv ==
    /\ permit_attach
    /\ hub_inbox # NoPacket
    /\ hub_inbox' = NoPacket /\ sender' = NoUuid
    /\ UNCHANGED <<clients, fresh>>
    /\ \/ RecvCb(hub_inbox)
       \/ ~Accepts(hub_inbox) /\ tx' = {} /\ UNCHANGED <<nodes, net_id, permit_attach, dseq, slot,
                                                         sends, copies, live>>
    /\ ToClients(tx')

\* Data from the broker for a node is relayed without ack request or callback.
GatewayRelay(s) ==
    LET p == Packet("Data", net_id, s, COORD_ADDR, NextSeq, FALSE, NoBody)
    IN  /\ permit_attach /\ InTime
        /\ Known(s)
        /\ Apply([Idle EXCEPT ![s] = TxPacket(nodes[s], p, nodes[s].heartbeat, NoMsg)], {})
        /\ dseq' = NextSeq
        /\ ToClients(tx')
        /\ UNCHANGED <<net_id, permit_attach, slot, live, clients, hub_inbox, sender, fresh>>

\* A client is bound to network n, has a packet built for it to repeat, or has
\* one of it in its receiver.
InUse(n) ==
    \E u \in Uuids :
        \/ clients[u].net = n
        \/ (Busy(clients[u].coord) \/ clients[u].coord.ack # Off) /\ clients[u].coord.pend.net = n
        \/ inbox[u] # NoPacket /\ inbox[u].net = n

\* Power is lost.  The new network identifier is rand() cut to eight bits: any,
\* an earlier one or NETWORK_ANY included.
GatewayRestart ==
    /\ nodes' = [s \in Slots |-> InitNode]
    /\ net_id' \in NetIds
    /\ fresh' = ~InUse(net_id')
    /\ permit_attach' = FALSE
    /\ dseq' \in Seqs
    /\ slot' = 0 /\ tx' = {}
    /\ sends' = [m \in Msgs |-> "idle"] /\ copies' = [m \in Msgs |-> 0]
    /\ live' = {}
    /\ hub_inbox' = NoPacket /\ sender' = NoUuid
    /\ UNCHANGED <<clients, inbox>>

----------------------------------------------------------------------------
(* The clients. *)

\* Client u goes through a step; some of its packets are not taken by phy_send.
ClientStep(u, step) ==
    /\ tx' = {}
    /\ UNCHANGED <<nodes, net_id, permit_attach, dseq, slot, sends, copies, live, fresh>>
    /\ \E k \in {step} : \E refused \in SUBSET k.tx :
          /\ clients' = [clients EXCEPT ![u] = Client(u)!PhySend(k, refused)]
          /\ ToHub(u, k.tx \ refused)

DeviceTick(u) ==
    /\ InTime
    /\ UNCHANGED inbox
    /\ ClientStep(u, Client(u)!ClientTick(clients[u]))

\* tinymac_send(0, data) with and without an ack request (the examples make
\* none), without a callback.
DeviceSend(u, ar) ==
    /\ InTime
    /\ Client(u)!CoordKnown(clients[u])
    /\ UNCHANGED inbox
    /\ ClientStep(u, Client(u)!Tx(Client(u)!Start(clients[u]), "Data", ar, NoBody, 0, NoMsg))

\* A packet that is not for the client leaves its receiver on.
DeviceRecv(u) ==
    LET p == inbox[u]
        c == clients[u]
        ignored == [c EXCEPT !.radio = IF @ = "window" THEN "on" ELSE @]
    IN  /\ p # NoPacket
        /\ inbox' = [inbox EXCEPT ![u] = NoPacket]
        /\ ClientStep(u, IF Client(u)!ClientAccepts(c, p) THEN Client(u)!ClientRecv(c, p)
                         ELSE Client(u)!Start(ignored))

Overhear(u) ==
    /\ clients[u].radio = "window" /\ inbox[u] = NoPacket
    /\ ClientStep(u, Client(u)!Start([clients[u] EXCEPT !.radio = "on"]))
    /\ UNCHANGED inbox

\* Standby clears the FIFO.
ListenPeriodEnds(u) ==
    /\ clients[u].radio = "window" /\ InTime
    /\ ClientStep(u, Client(u)!Start([clients[u] EXCEPT !.radio = "off"]))
    /\ inbox' = [inbox EXCEPT ![u] = NoPacket]

\* The device comes back with its uuid, as the sensor does.
DeviceRestart(u) ==
    /\ ClientStep(u, Client(u)!Start(FreshClient(u)))
    /\ inbox' = [inbox EXCEPT ![u] = NoPacket]

----------------------------------------------------------------------------
(* The specification. *)

GatewayStep ==
    GatewayStart \/ GatewayTick \/ GatewayRecv \/ \E s \in Slots : GatewayRelay(s)

DeviceStep(u) ==
    \/ DeviceTick(u)
    \/ \E ar \in AckRequests : DeviceSend(u, ar)
    \/ DeviceRecv(u)
    \/ Overhear(u)
    \/ ListenPeriodEnds(u)

\* Clients stay powered.
PoweredNext ==
    \/ GatewayStep
    \/ GatewayRestart
    \/ \E u \in Uuids : DeviceStep(u)

NetNext == PoweredNext \/ \E u \in Uuids : DeviceRestart(u)

NetSpec == NetInit /\ [][NetNext]_allvars

HubHears == hub_inbox = NoPacket /\ hub_inbox' # NoPacket

Hears(u, type) ==
    inbox[u] = NoPacket /\ inbox'[u] # NoPacket /\ inbox'[u].type = type

\* Timers and main loops run, devices go on sending, and a packet that is sent
\* again and again gets through now and then.
NetFairness ==
    /\ WF_allvars(GatewayStart)
    /\ WF_allvars(GatewayRecv)
    /\ \A u \in Uuids :
          /\ WF_allvars(DeviceRecv(u))
          /\ SF_allvars(DeviceTick(u))
          /\ SF_allvars(DeviceTick(u) /\ HubHears)
          /\ SF_allvars(DeviceRecv(u) /\ HubHears)
          /\ \A ar \in AckRequests : SF_allvars(DeviceSend(u, ar) /\ HubHears)
          /\ SF_allvars(GatewayRecv /\ Hears(u, "Beacon"))
          /\ SF_allvars(GatewayRecv /\ Hears(u, "RegistrationResponse"))

PoweredSpec == NetInit /\ [][PoweredNext]_allvars /\ NetFairness

----------------------------------------------------------------------------
(* Properties. *)

\* With more devices than slots a lapsed slot is given to another device while
\* the first may still use its address: what follows is about networks that
\* have a slot for every device, so that the other devices, with a slot each,
\* do not take up all of them.
EnoughSlots ==
    \A u \in Uuids :
        ~ \E f \in [Slots -> Uuids \ {u}] : \A s, t \in Slots : f[s] = f[t] => s = t

Joined(u) == clients[u].state = "Registered" /\ clients[u].net = net_id

\* Both ends of an association agree: the slot whose address a client uses is
\* the client's own, also after it has lapsed, and whoever has restarted.  A
\* coordinator that comes back with an identifier a client still has, one time
\* in 256 for each, is excepted: it does not know the client, and gives its
\* address to the next one that asks.
AddressesAgree ==
    fresh => \A u \in Uuids : Joined(u) => nodes[clients[u].addr].uuid = u

\* Data is attributed to the device it came from: the node the coordinator
\* looks up by source address is the sender's, however long it was under way,
\* with the same exception.
DataAttributed ==
    fresh /\ hub_inbox # NoPacket /\ hub_inbox.type = "Data" /\ hub_inbox.net = net_id
        /\ hub_inbox.src \in Slots
        => nodes[hub_inbox.src].uuid = sender

\* A client that asks for acknowledgements of its data gets registered, and
\* registered again whenever it has lapsed, also by a coordinator that has come
\* back, with another network identifier or the same: provided that the
\* coordinator stays up in the end (a start revokes permit_attach) and has not
\* drawn NETWORK_ANY, whose beacons clients ignore.
Joins ==
    <>[](permit_attach /\ net_id # NETWORK_ANY)
        => \A u \in Uuids : []<>(Joined(u) /\ Known(clients[u].addr))
=============================================================================
