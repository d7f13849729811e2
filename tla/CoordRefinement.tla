-------------------------- MODULE CoordRefinement --------------------------
(***************************************************************************)
(* The orderly coordinator implements the service its application relies   *)
(* on: what is in flight for a node is the callback its busy slot holds.   *)
(***************************************************************************)
EXTENDS TinyMacCoord

Service == INSTANCE MacService WITH
    Addresses  <- Slots,
    Messages   <- Msgs,
    Nothing    <- NoMsg,
    registered <- live,
    inflight   <- [s \in Slots |-> IF Busy(nodes[s]) THEN nodes[s].cb ELSE NoMsg],
    fate       <- sends

\* Whatever the deferrals, retries, acknowledgements, expiries, lapses and
\* re-registrations, every step of the coordinator is one the service allows: a
\* callback comes once, for a packet that was taken, and a node is not given up
\* with a packet in flight.
ImplementsService == Service!Spec

\* Ticks alone see to it that every packet taken is settled.
ImplementsFairService == Service!FairSpec
=============================================================================
