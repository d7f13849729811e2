----------------------------- MODULE MacService -----------------------------
(***************************************************************************)
(* What the MAC of a coordinator promises its application (lib/tinymac.h): *)
(* it announces the nodes that come and go, takes at most one packet for a *)
(* node at a time, and tells the fate of each packet it has taken once, as *)
(* delivered or as failed.  A node is given up only when it has nothing in *)
(* flight, or together with the failure of what it had.  Packets, timers,  *)
(* retries, sleep and acknowledgements are not mentioned.                  *)
(***************************************************************************)
CONSTANTS
    Addresses,   \* the short addresses a node can have
    Messages,    \* what the application sends
    Nothing      \* no message

VARIABLES
    registered,  \* the nodes the application knows, from reg_cb and dereg_cb
    inflight,    \* the message taken and not settled yet, for each node
    fate         \* what the application knows of each message

vars == <<registered, inflight, fate>>

Init ==
    /\ registered = {}
    /\ inflight = [a \in Addresses |-> Nothing]
    /\ fate = [m \in Messages |-> "idle"]

NodeRegistered(a) ==
    /\ registered' = registered \cup {a}
    /\ UNCHANGED <<inflight, fate>>

\* A packet whose fate the MAC will tell.
Take(a, m) ==
    /\ a \in registered
    /\ inflight[a] = Nothing /\ fate[m] # "pending"
    /\ inflight' = [inflight EXCEPT ![a] = m]
    /\ fate' = [fate EXCEPT ![m] = "pending"]
    /\ UNCHANGED registered

\* A packet that is sent and forgotten.
SendUnconfirmed(a, m) ==
    /\ a \in registered
    /\ inflight[a] = Nothing /\ fate[m] # "pending"
    /\ fate' = [fate EXCEPT ![m] = "unconfirmed"]
    /\ UNCHANGED <<registered, inflight>>

\* One call may settle the packets of several nodes and give up others.
Settle(delivered, failed, gone) ==
    /\ delivered \cup failed \subseteq {a \in registered : inflight[a] # Nothing}
    /\ delivered \cap failed = {}
    /\ gone \subseteq registered
    /\ \A a \in gone : inflight[a] = Nothing \/ a \in failed
    /\ registered' = registered \ gone
    /\ inflight' = [a \in Addresses |-> IF a \in delivered \cup failed THEN Nothing ELSE inflight[a]]
    /\ fate' = [m \in Messages |->
                   CASE \E a \in delivered : inflight[a] = m -> "delivered"
                     [] \E a \in failed : inflight[a] = m -> "failed"
                     [] OTHER -> fate[m]]

Next ==
    \/ \E a \in Addresses : NodeRegistered(a)
    \/ \E a \in Addresses, m \in Messages : Take(a, m) \/ SendUnconfirmed(a, m)
    \/ \E delivered, failed, gone \in SUBSET Addresses : Settle(delivered, failed, gone)

Spec == Init /\ [][Next]_vars

\* Every packet taken is settled in the end.
FairSpec == Spec /\ \A m \in Messages : fate[m] = "pending" ~> fate[m] # "pending"
=============================================================================
