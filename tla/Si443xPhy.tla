------------------------------ MODULE Si443xPhy ------------------------------
(***************************************************************************)
(* The Si443x driver of lib/phy-si443x.c and the radio it drives, under    *)
(* the MAC's use of it (tinymac_phy_send, tinymac_recv_cb).  The driver    *)
(* runs in the main loop of one thread, but phy_send blocks and the radio  *)
(* raises its flags whenever it likes, so the driver has a program counter *)
(* and the radio may act between any two of its accesses.                  *)
(*                                                                         *)
(* Packets are counted in blocks of bytes.  The radio is external: its     *)
(* flags, FIFOs, modes and wake-up timer are modelled as the driver uses   *)
(* them.                                                                   *)
(***************************************************************************)
EXTENDS Integers, Sequences, FiniteSetsExt

CONSTANTS
    FIFO_SIZE,          \* capacity of the transmit FIFO
    TX_WAIT_THRESH,     \* "almost full": stop filling, start sending
    TX_RESUME_THRESH    \* "almost empty": go on filling

ASSUME PhyConstants ==
    /\ FIFO_SIZE \in Nat \ {0}
    /\ TX_WAIT_THRESH \in 1 .. FIFO_SIZE
    /\ TX_RESUME_THRESH \in 0 .. TX_WAIT_THRESH - 1

\* phy_get_mtu leaves room in the FIFO; a packet has at least its header.
Sizes == 1 .. FIFO_SIZE - 1

VARIABLES
    pc,           \* what the main loop does next
    ret,          \* where si443x_event_handler returns to
    state,        \* phy_si443x_state
    seen,         \* its local status, read from the radio
    left,         \* phy_send: size
    tx_started,   \* phy_send: tx_started
    result,       \* what the last phy_send returned
    up,           \* what the receive callback was last given
    sleepy,       \* TINYMAC_ATTACH_FLAGS_SLEEPY
    radio         \* the radio

driver == <<pc, ret, state, seen, left, tx_started, result, up, sleepy>>
vars == <<driver, radio>>

States == {"Standby", "Listen", "Rx", "RxReady", "RxValid", "RxInvalid", "FifoError",
           "Tx", "TxBusy"}

\* The radio's event flags; FIFO errors are not enabled as interrupts.
Enabled == {"SWDET", "RXFFAFULL", "PKVALID", "CRCERROR", "TXFFAFULL", "TXFFAEM",
            "PKSENT", "WUT"}
Flags == Enabled \cup {"FFERR"}

\* mode and wut: R_OP_CTRL1; status: flags raised and not read yet; fifo: blocks
\* in the transmit FIFO; whole: none of the packet's were thrown away; rx: the
\* reception in progress, "cut" when its bytes were thrown away; packet: what
\* the receive FIFO holds, "lost" for one that was thrown away before its
\* PKVALID was read; aired: the packet of this phy_send has gone out.
Radios == [mode : {"standby", "rx", "tx"}, wut : BOOLEAN, status : SUBSET Flags,
           fifo : 0 .. FIFO_SIZE, whole : BOOLEAN, rx : {"none", "sync", "half", "cut"},
           packet : {"none", "held", "lost"}, aired : BOOLEAN]

DriverTypeOK ==
    /\ pc \in {"main", "poll", "apply", "despatch", "callback", "begin", "fill", "start",
               "wait", "returned"}
    /\ ret \in {"despatch", "begin", "start", "wait"}
    /\ state \in States
    /\ seen \in SUBSET Flags
    /\ left \in 0 .. FIFO_SIZE - 1
    /\ tx_started \in BOOLEAN
    /\ result \in {0, -1}
    /\ up \in {"none", "packet", "lost", "garbage"}
    /\ sleepy \in BOOLEAN
    /\ radio \in Radios

nIRQ(r) == r.status \cap Enabled = {}      \* active low: TRUE when idle

----------------------------------------------------------------------------
(* Register accesses. *)

\* SI443X_CLEAR_FIFOS; a packet being sent or received is lost with it.
ClearFifos(r) ==
    [r EXCEPT !.packet = IF "PKVALID" \in r.status THEN "lost" ELSE "none",
              !.rx = IF @ = "none" THEN "none" ELSE "cut",
              !.fifo = 0, !.whole = FALSE]

\* A write to R_OP_CTRL1: every bit of it is given.
Mode(r, mode, wut) ==
    [r EXCEPT !.mode = mode, !.wut = wut, !.rx = IF mode = "rx" THEN @ ELSE "none"]

\* phy_listen, phy_standby, phy_delayed_standby: what they do to the radio.
Listen(r) == Mode(ClearFifos(r), "rx", FALSE)

\* Faulty variant: the wake-up timer is left running.
StandbyTimed(r) == Mode(ClearFifos(r), "standby", r.wut)

Standby(r) == Mode(ClearFifos(r), "standby", FALSE)

DelayedStandby(r) == Mode(r, "rx", TRUE)

\* phy_init, phy_resume and the phy_listen of tinymac_init.
Init ==
    /\ pc = "main" /\ ret = "despatch" /\ seen = {}
    /\ left = 0 /\ tx_started = FALSE /\ result = 0 /\ up = "none"
    /\ sleepy \in BOOLEAN
    /\ state = IF sleepy THEN "Standby" ELSE "Listen"
    /\ radio = [mode |-> IF sleepy THEN "standby" ELSE "rx", wut |-> FALSE, status |-> {},
                fifo |-> 0, whole |-> FALSE, rx |-> "none", packet |-> "none", aired |-> FALSE]

----------------------------------------------------------------------------
(* si443x_event_handler. *)

\* The flags in the order the code tests them, with the state each one sets.
Effects == << <<"RXFFAFULL", "RxReady">>, <<"PKVALID", "RxValid">>, <<"CRCERROR", "RxInvalid">>,
              <<"FFERR", "FifoError">>, <<"TXFFAFULL", "TxBusy">>, <<"TXFFAEM", "Tx">>,
              <<"PKSENT", "Standby">>, <<"WUT", "Standby">> >>

\* The last test that succeeds decides; a sync word counts only in Listen.
AfterFlags(s, flags) ==
    LET hits == {i \in DOMAIN Effects : Effects[i][1] \in flags}
    IN  IF hits # {} THEN Effects[Max(hits)][2]
        ELSE IF s = "Listen" /\ "SWDET" \in flags THEN "Rx" ELSE s

\* while (!nIRQ) status = SI443X_STATUS(); reading clears the flags.
Poll ==
    /\ pc = "poll"
    /\ IF nIRQ(radio)
       THEN pc' = ret /\ UNCHANGED <<seen, radio>>
       ELSE /\ pc' = "apply"
            /\ seen' = radio.status
            /\ radio' = [radio EXCEPT !.status = {}]
    /\ UNCHANGED <<ret, state, left, tx_started, result, up, sleepy>>

ApplyFlags ==
    /\ pc = "apply"
    /\ pc' = "poll"
    /\ state' = AfterFlags(state, seen)
    /\ seen' = {}
    /\ radio' = IF "WUT" \in seen THEN Standby(radio) ELSE radio
    /\ UNCHANGED <<ret, left, tx_started, result, up, sleepy>>

----------------------------------------------------------------------------
(* phy_event_handler and the receive callback. *)

EventHandler ==
    /\ pc = "main"
    /\ pc' = "poll" /\ ret' = "despatch"
    /\ UNCHANGED <<state, seen, left, tx_started, result, up, sleepy, radio>>

\* What is read from the receive FIFO.
ReadOut(r) == CASE r.packet = "held" -> "packet" [] r.packet = "lost" -> "lost" [] OTHER -> "garbage"

\* Faulty variants: the packet is read after the FIFO was cleared; a bad packet
\* does not restart the receiver.
DespatchListensFirst ==
    /\ pc = "despatch"
    /\ IF state \in {"RxValid", "RxInvalid", "FifoError"}
       THEN state' = "Listen" /\ radio' = Listen(radio)
       ELSE UNCHANGED <<state, radio>>
    /\ IF state = "RxValid"
       THEN pc' = "callback" /\ up' = ReadOut(radio')
       ELSE pc' = "main" /\ UNCHANGED up
    /\ UNCHANGED <<ret, seen, left, tx_started, result, sleepy>>

DespatchIgnoresErrors ==
    /\ pc = "despatch"
    /\ IF state = "RxValid"
       THEN state' = "Listen" /\ radio' = Listen(radio)
       ELSE UNCHANGED <<state, radio>>
    /\ IF state = "RxValid"
       THEN pc' = "callback" /\ up' = ReadOut(radio)
       ELSE pc' = "main" /\ UNCHANGED up
    /\ UNCHANGED <<ret, seen, left, tx_started, result, sleepy>>

\* A valid packet is read before phy_listen clears the FIFO.
Despatch ==
    /\ pc = "despatch"
    /\ IF state \in {"RxValid", "RxInvalid", "FifoError"}
       THEN state' = "Listen" /\ radio' = Listen(radio)
       ELSE UNCHANGED <<state, radio>>
    /\ IF state = "RxValid"
       THEN pc' = "callback" /\ up' = ReadOut(radio)
       ELSE pc' = "main" /\ UNCHANGED up
    /\ UNCHANGED <<ret, seen, left, tx_started, result, sleepy>>

\* tinymac_recv_cb: a sleepy device that takes the packet goes to standby, or
\* listens on when more is pending.  (What it sends is a phy_send from main.)
Callback ==
    /\ pc = "callback"
    /\ pc' = "main"
    /\ \/ UNCHANGED <<state, radio>>
       \/ sleepy /\ state' = "Standby" /\ radio' = Standby(radio)
       \/ sleepy /\ radio' = DelayedStandby(radio) /\ UNCHANGED state
    /\ UNCHANGED <<ret, seen, left, tx_started, result, up, sleepy>>

----------------------------------------------------------------------------
(* phy_send. *)

Send(size) ==
    /\ pc = "main"
    /\ pc' = "poll" /\ ret' = "begin"
    /\ left' = size
    /\ radio' = [radio EXCEPT !.aired = FALSE]
    /\ UNCHANGED <<state, seen, tx_started, result, up, sleepy>>

\* The busy check, then SI443X_CLEAR_TX_FIFO.  The receiver stays as it is.
SendBegin ==
    /\ pc = "begin"
    /\ IF state \in {"Standby", "Listen"}
       THEN /\ pc' = "fill" /\ state' = "Tx" /\ tx_started' = FALSE
            /\ radio' = [radio EXCEPT !.fifo = 0, !.whole = TRUE]
            /\ UNCHANGED <<left, result>>
       ELSE /\ pc' = "returned" /\ result' = -1 /\ left' = 0
            /\ UNCHANGED <<state, tx_started, radio>>
    /\ UNCHANGED <<ret, seen, up, sleepy>>

Pushed(r) ==
    [r EXCEPT !.fifo = @ + 1,
              !.status = IF r.fifo + 1 = TX_WAIT_THRESH THEN @ \cup {"TXFFAFULL"} ELSE @]

\* One block goes into the FIFO; the loop is left when nothing remains or an
\* event is pending.  In any state but Tx there is only waiting for events.
Fill ==
    /\ pc = "fill"
    /\ IF state = "Tx"
       THEN /\ left' = left - 1
            /\ radio' = Pushed(radio)
            /\ IF left' = 0 \/ ~nIRQ(radio') THEN pc' = "poll" /\ ret' = "start"
               ELSE UNCHANGED <<pc, ret>>
       ELSE /\ pc' = "poll" /\ ret' = "start"
            /\ UNCHANGED <<left, radio>>
    /\ UNCHANGED <<state, seen, tx_started, result, up, sleepy>>

\* Faulty variant: transmission starts only when everything is in the FIFO.
StartWhenFilled ==
    /\ pc = "start"
    /\ IF ~tx_started /\ left = 0
       THEN tx_started' = TRUE /\ radio' = Mode(radio, "tx", FALSE)
       ELSE UNCHANGED <<tx_started, radio>>
    /\ pc' = IF left # 0 THEN "fill" ELSE "wait"
    /\ UNCHANGED <<ret, state, seen, left, result, up, sleepy>>

\* Faulty variant: one turn of the loop too many.
StartPastEnd ==
    /\ pc = "start"
    /\ IF ~tx_started /\ (state = "TxBusy" \/ left = 0)
       THEN tx_started' = TRUE /\ radio' = Mode(radio, "tx", FALSE)
       ELSE UNCHANGED <<tx_started, radio>>
    /\ pc' = IF left >= 0 THEN "fill" ELSE "wait"
    /\ UNCHANGED <<ret, state, seen, left, result, up, sleepy>>

\* SI443X_MODE_TX when the FIFO is almost full or holds everything.
Start ==
    /\ pc = "start"
    /\ IF ~tx_started /\ (state = "TxBusy" \/ left = 0)
       THEN tx_started' = TRUE /\ radio' = Mode(radio, "tx", FALSE)
       ELSE UNCHANGED <<tx_started, radio>>
    /\ pc' = IF left # 0 THEN "fill" ELSE "wait"
    /\ UNCHANGED <<ret, state, seen, left, result, up, sleepy>>

\* Faulty variant: the end of the filling is taken for the end of the sending.
WaitNot ==
    /\ pc = "wait"
    /\ pc' = "returned" /\ result' = 0
    /\ state' = "Listen" /\ radio' = Listen(radio)
    /\ UNCHANGED <<ret, seen, left, tx_started, up, sleepy>>

\* Wait for completion, then leave the receiver on.
Wait ==
    /\ pc = "wait"
    /\ IF state = "Standby"
       THEN /\ pc' = "returned" /\ result' = 0
            /\ state' = "Listen" /\ radio' = Listen(radio)
            /\ UNCHANGED ret
       ELSE /\ pc' = "poll" /\ ret' = "wait"
            /\ UNCHANGED <<state, result, radio>>
    /\ UNCHANGED <<seen, left, tx_started, up, sleepy>>

\* tinymac_phy_send after phy_send.
Returned ==
    /\ pc = "returned"
    /\ pc' = "main"
    /\ CASE ~sleepy -> UNCHANGED <<state, radio>>
         [] sleepy /\ result = 0 -> radio' = DelayedStandby(radio) /\ UNCHANGED state
         [] sleepy /\ result # 0 -> state' = "Standby" /\ radio' = Standby(radio)
    /\ UNCHANGED <<ret, seen, left, tx_started, result, up, sleepy>>

----------------------------------------------------------------------------
(* The radio. *)

Raise(r, flags) == [r EXCEPT !.status = @ \cup flags]

SyncDetected ==
    /\ radio.mode = "rx" /\ radio.rx = "none" /\ radio.packet # "held"
    /\ radio' = [Raise(radio, {"SWDET"}) EXCEPT !.rx = "sync"]

RxHalfFull ==
    /\ radio.rx = "sync"
    /\ radio' = [Raise(radio, {"RXFFAFULL"}) EXCEPT !.rx = "half"]

\* A valid packet switches the receiver off, a bad one (perhaps too long for the
\* FIFO) does not.
ReceptionEnds ==
    \/ /\ radio.rx \in {"sync", "half"}
       /\ radio' = [Raise(radio, {"PKVALID"}) EXCEPT !.rx = "none", !.packet = "held",
                                                     !.mode = "standby"]
    \/ /\ radio.rx # "none"
       /\ \E extra \in {{}, {"FFERR"}} :
             radio' = [Raise(radio, {"CRCERROR"} \cup extra) EXCEPT !.rx = "none"]

\* The driver is many times faster than the air: the FIFO does not run empty
\* while there is more to be put into it.
Drain ==
    /\ radio.mode = "tx" /\ radio.fifo > 0 /\ (left = 0 \/ radio.fifo > 1)
    /\ radio' = [Raise(radio, IF radio.fifo - 1 = TX_RESUME_THRESH THEN {"TXFFAEM"} ELSE {})
                   EXCEPT !.fifo = @ - 1]

PacketSent ==
    /\ radio.mode = "tx" /\ radio.fifo = 0 /\ left = 0 /\ radio.whole
    /\ radio' = [Raise(radio, {"PKSENT"}) EXCEPT !.mode = "standby", !.aired = TRUE]

WakeUp ==
    /\ radio.wut
    /\ radio' = Raise(radio, {"WUT"})

----------------------------------------------------------------------------
(* The specification. *)

DriverStep ==
    Poll \/ ApplyFlags \/ Despatch \/ Callback \/ SendBegin \/ Fill \/ Start \/ Wait \/ Returned

Transmission == Drain \/ PacketSent

RadioStep == SyncDetected \/ RxHalfFull \/ ReceptionEnds \/ Transmission

Step ==
    \/ EventHandler
    \/ \E size \in Sizes : Send(size)
    \/ DriverStep
    \/ RadioStep /\ UNCHANGED driver

Next == Step \/ (WakeUp /\ UNCHANGED driver)

\* The processor runs, the main loop calls phy_event_handler on every turn,
\* however often it sends, what is being sent or received comes to an end.
Fairness ==
    /\ WF_vars(DriverStep)
    /\ SF_vars(EventHandler)
    /\ WF_vars(Transmission /\ UNCHANGED driver)
    /\ WF_vars(ReceptionEnds /\ UNCHANGED driver)

Spec == Init /\ [][Next]_vars /\ Fairness

\* phy_send is running.
Sending ==
    \/ pc \in {"begin", "fill", "start", "wait", "returned"}
    \/ pc \in {"poll", "apply"} /\ ret # "despatch"

\* The wake-up timer does not run out while phy_send is running.
QuietNext == Step \/ (~Sending /\ WakeUp /\ UNCHANGED driver)

QuietSpec == Init /\ [][QuietNext]_vars /\ Fairness

----------------------------------------------------------------------------
(* Properties. *)

\* phy_send returns 0 on success: when it does, the whole packet was sent.
SuccessMeansSent == pc = "returned" /\ result = 0 => radio.aired

\* What phy_event_handler hands to the callback is a packet read from the FIFO,
\* never what is left there after a clear; except that phy_standby, or the
\* phy_listen after a bad packet, may clear the FIFO between the PKVALID of the
\* next packet and the reading of that flag.
CallbackGetsPacket == up # "garbage"

\* When every event has been handled the driver's state is the radio's: it is
\* busy receiving only while something is being received (or, on a sleepy device,
\* when RXFFAFULL came just before phy_standby), listens only with the receiver
\* on, is in standby only with the receiver and its timer off.
StateMatchesRadio ==
    pc = "main" /\ radio.status = {} =>
        /\ state \in {"Rx", "RxReady"} =>
              radio.rx # "none" \/ (sleepy /\ state = "RxReady" /\ radio.mode = "standby")
        /\ state = "Listen" => radio.mode = "rx"
        /\ state = "Standby" => radio.mode = "standby" /\ ~radio.wut

\* The receiver is on while phy_send fills the FIFO, and an event of a reception
\* has taken the state away from Tx before the transmitter was switched on: the
\* rest of the packet is never written, phy_send waits for ever.
Stuck ==
    /\ pc = "fill" /\ ~tx_started
    /\ state \in {"RxReady", "RxValid", "RxInvalid", "FifoError"}

\* The loop of si443x_event_handler takes microseconds and a reception
\* milliseconds: it does not find one event after another for ever.
KeepsUp == []<>(pc \notin {"poll", "apply"})

\* phy_send returns, unless the events of a reception overtake the filling of
\* the FIFO: nothing else keeps it, neither the FIFO nor the transmitter.
SendReturns == KeepsUp => (pc = "begin" ~> (pc = "main" \/ Stuck))

\* A device that does not sleep does not stay deaf or busy, as long as phy_send
\* does not get stuck: when nothing more is being received it gets back to
\* listening, with the receiver on, for good or until it sends.
ListensAgain ==
    ~sleepy /\ <>[](radio.rx = "none") /\ []~Stuck =>
        []<>(pc = "main" /\ state = "Listen" /\ radio.mode = "rx")
=============================================================================
