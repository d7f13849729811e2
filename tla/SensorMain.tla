----------------------------- MODULE SensorMain -----------------------------
(***************************************************************************)
(* The main loop of examples/sensor/main.c against its two interrupts, and *)
(* the MAC's absolute timers (lib/tinymac.c) that its ticks drive.  The    *)
(* loop reads the tick count, calls the MAC and the application when they  *)
(* are due, serves the radio and sleeps until the next interrupt; an       *)
(* interrupt may come between any two of its steps.                        *)
(*                                                                         *)
(* Tick counts are unsigned and wrap; a difference is compared as signed.  *)
(* timer_tick_count has more bits than the processor moves at a time, so a *)
(* read may combine parts of two values when the interrupt comes between.  *)
(***************************************************************************)
EXTENDS Integers

CONSTANTS
    COUNT_MOD,       \* 2^32, the range of tick counts
    LOW_MOD,         \* 2^8, 2^16 or 2^24: the range of the bytes read first
    POST_TICKS,      \* ticks between posts
    Delays           \* ticks that timers are set to; 0 only outside a tick

ASSUME SensorConstants ==
    /\ LOW_MOD \in Nat \ {0} /\ COUNT_MOD \in Nat
    /\ COUNT_MOD % LOW_MOD = 0 /\ COUNT_MOD % 2 = 0
    /\ POST_TICKS \in Nat \ {0} /\ POST_TICKS + LOW_MOD <= COUNT_MOD \div 2
    /\ Delays \subseteq 0 .. COUNT_MOD \div 2 - 1

VARIABLES
    at,
    timer_tick_count,
    now, next_mac_tick, next_post,
    ticked,          \* the timer interrupt has come in this turn of the loop
    irq,             \* the radio holds its interrupt line
    tick_count,      \* tinymac_ctx->tick_count
    timer,           \* a tinymac_timer_t, callback TRUE if not NULL
    fired,           \* the last step invoked its callback
    owed             \* timer interrupts less MAC ticks, at most MaxOwed

mac == <<tick_count, timer>>
sensorvars == <<at, timer_tick_count, now, next_mac_tick, next_post, ticked, irq, mac, fired, owed>>

MaxOwed == 2     \* those that count: one before the count is read, one after

SensorInit ==
    /\ at = "read"
    /\ timer_tick_count = 0 /\ now = 0 /\ next_mac_tick = 0 /\ next_post = 0
    /\ ticked = FALSE /\ irq = FALSE
    /\ tick_count = 0 /\ timer = [callback |-> FALSE, expiry |-> 0]
    /\ fired = FALSE
    /\ owed = 1

\* (int32_t)x
Signed(x) ==
    LET u == x % COUNT_MOD IN IF u < COUNT_MOD \div 2 THEN u ELSE u - COUNT_MOD

----------------------------------------------------------------------------
(* The MAC's timers. *)

Cleared(t) == [t EXCEPT !.callback = FALSE]

SetTimer(delay) ==
    [callback |-> TRUE, expiry |-> (tick_count + delay) % COUNT_MOD]

\* Faulty variant: the counts are compared, not their difference.
DueUnsigned(t) == t.callback /\ tick_count >= t.expiry

Due(t) == t.callback /\ Signed(tick_count - t.expiry) >= 0

\* tinymac_despatch_timer: cleared first, as the callback may set it again.
Despatched(t) ==
    IF Due(t) THEN {Cleared(t)} \cup {SetTimer(d) : d \in Delays \ {0}} ELSE {t}

\* tinymac_tick_handler, which may set a timer before it despatches it.
MacTick ==
    \E armed \in {timer} \cup {SetTimer(d) : d \in Delays \ {0}} :
        /\ fired' = Due(armed)
        /\ timer' \in Despatched(armed)
        /\ tick_count' = (tick_count + 1) % COUNT_MOD
        /\ owed' = owed - 1

----------------------------------------------------------------------------
(* The main loop. *)

At(here, next) == at = here /\ at' = next

\* now = timer_tick_count, in two parts.
Read ==
    /\ At("read", "rest")
    /\ now' = timer_tick_count
    /\ fired' = FALSE
    /\ UNCHANGED <<timer_tick_count, ticked, next_mac_tick, next_post, irq, mac, owed>>

Join(low, high) == (high - (high % LOW_MOD)) + (low % LOW_MOD)

ReadRest ==
    /\ At("rest", "tick")
    /\ now' \in {Join(now, timer_tick_count), Join(timer_tick_count, now)}
    /\ fired' = FALSE
    /\ UNCHANGED <<timer_tick_count, ticked, next_mac_tick, next_post, irq, mac, owed>>

\* What is sent may find the radio busy, and so take its interrupt.
MaySend == irq' \in {irq, FALSE}

\* Faulty variants: the next tick is due at once; only the exact tick is taken.
TickAtOnce ==
    /\ At("tick", "post")
    /\ IF Signed(now - next_mac_tick) >= 0
       THEN next_mac_tick' = now /\ MacTick /\ MaySend
       ELSE fired' = FALSE /\ UNCHANGED <<next_mac_tick, irq, mac, owed>>
    /\ UNCHANGED <<timer_tick_count, ticked, now, next_post>>

TickExact ==
    /\ At("tick", "post")
    /\ IF now = next_mac_tick
       THEN next_mac_tick' = (now + 1) % COUNT_MOD /\ MacTick /\ MaySend
       ELSE fired' = FALSE /\ UNCHANGED <<next_mac_tick, irq, mac, owed>>
    /\ UNCHANGED <<timer_tick_count, ticked, now, next_post>>

Tick ==
    /\ At("tick", "post")
    /\ IF Signed(now - next_mac_tick) >= 0
       THEN next_mac_tick' = (now + 1) % COUNT_MOD /\ MacTick /\ MaySend
       ELSE fired' = FALSE /\ UNCHANGED <<next_mac_tick, irq, mac, owed>>
    /\ UNCHANGED <<timer_tick_count, ticked, now, next_post>>

\* post_message asks for no acknowledgement, so sets no timer.
Post ==
    /\ At("post", "phy")
    /\ IF Signed(now - next_post) >= 0
       THEN next_post' = (now + POST_TICKS) % COUNT_MOD /\ MaySend
       ELSE UNCHANGED <<next_post, irq>>
    /\ fired' = FALSE
    /\ UNCHANGED <<timer_tick_count, ticked, now, next_mac_tick, mac, owed>>

\* phy_event_handler; a packet, also one whose interrupt a phy_send has taken,
\* may set or cancel a timer.
Phy ==
    /\ At("phy", "sleep")
    /\ irq' = FALSE
    /\ timer' \in {timer, Cleared(timer)} \cup {SetTimer(d) : d \in Delays}
    /\ fired' = FALSE
    /\ UNCHANGED <<timer_tick_count, ticked, now, next_mac_tick, next_post, tick_count, owed>>

\* Faulty variant: the radio's interrupt is taken on its edge.
SleepEdge ==
    /\ At("sleep", "asleep")
    /\ ticked' = FALSE /\ fired' = FALSE
    /\ UNCHANGED <<timer_tick_count, now, next_mac_tick, next_post, irq, mac, owed>>

\* The radio's interrupt is enabled, and being level sensitive ends the sleep
\* also when it came earlier; a timer interrupt that came earlier does not.
Sleep ==
    /\ At("sleep", IF irq THEN "read" ELSE "asleep")
    /\ ticked' = FALSE /\ fired' = FALSE
    /\ UNCHANGED <<timer_tick_count, now, next_mac_tick, next_post, irq, mac, owed>>

----------------------------------------------------------------------------
(* Interrupts. *)

Wake == at' = IF at = "asleep" THEN "read" ELSE at

\* A turn of the loop takes less than the time between two interrupts.
TimerInterrupt ==
    /\ ~ticked /\ ticked' = TRUE
    /\ timer_tick_count' = (timer_tick_count + 1) % COUNT_MOD
    /\ owed' = IF owed < MaxOwed THEN owed + 1 ELSE owed
    /\ Wake
    /\ fired' = FALSE
    /\ UNCHANGED <<now, next_mac_tick, next_post, irq, mac>>

RadioInterrupt ==
    /\ ~irq /\ irq' = TRUE
    /\ Wake
    /\ fired' = FALSE
    /\ UNCHANGED <<timer_tick_count, ticked, now, next_mac_tick, next_post, mac, owed>>

----------------------------------------------------------------------------
Loop == Read \/ ReadRest \/ Tick \/ Post \/ Phy \/ Sleep

SensorNext ==
    \/ Loop
    \/ TimerInterrupt
    \/ RadioInterrupt

\* The processor runs; interrupts are not promised.
SensorSpec == SensorInit /\ [][SensorNext]_sensorvars /\ WF_sensorvars(Loop)

----------------------------------------------------------------------------
\* MAC time never runs ahead: a call of tinymac_tick_handler has a timer
\* interrupt of its own, when the count wraps and is read in parts too.
OncePerInterrupt == [][tick_count' # tick_count => owed > 0]_sensorvars

\* As long as the timer runs so do the MAC and the posts, over wrap-around,
\* reads in parts and interrupts that come just before the processor sleeps.
TicksKeepComing ==
    []<><<TimerInterrupt>>_sensorvars =>
        []<><<tick_count' # tick_count>>_sensorvars /\ []<><<next_post' # next_post>>_sensorvars

\* A radio that asks for service gets it, without waiting for the timer.
RadioServed == irq ~> at = "phy"

Relative == INSTANCE RelativeTimer WITH
    left <- IF timer.callback THEN Signed(timer.expiry - tick_count) ELSE -1

\* The absolute timers, whose counts wrap, are the relative timers that the
\* other modules take them for: they fire on the tick they are set for.
RelativeTime == Relative!Spec
=============================================================================
