--------------------------- MODULE DeliveryLedger ---------------------------
(***************************************************************************)
(* What the delivery log promises about one notification delivery: it is   *)
(* opened pending, is attempted a bounded number of times while pending,   *)
(* becomes delivered only if the receiver got it, becomes delivered or     *)
(* failed at most once and for good, and its row can disappear at any time *)
(* with its channel or its alert.  NotificationQueue implements this.      *)
(***************************************************************************)
EXTENDS Naturals

CONSTANTS DeliveryIds, MaxRetries

VARIABLES
    status,      \* none, pending, delivered or failed
    present,     \* the row is in the table
    sends,       \* attempts made
    received     \* attempts that reached the receiver

vars == <<status, present, sends, received>>

Init ==
    /\ status = [d \in DeliveryIds |-> "none"]
    /\ present = [d \in DeliveryIds |-> FALSE]
    /\ sends = [d \in DeliveryIds |-> 0]
    /\ received = [d \in DeliveryIds |-> 0]

Open(d) ==
    /\ status[d] = "none"
    /\ status' = [status EXCEPT ![d] = "pending"]
    /\ present' = [present EXCEPT ![d] = TRUE]
    /\ UNCHANGED <<sends, received>>

Attempt(d) ==
    /\ status[d] = "pending"
    /\ sends[d] < MaxRetries
    /\ sends' = [sends EXCEPT ![d] = @ + 1]
    /\ \/ received' = [received EXCEPT ![d] = @ + 1]
       \/ UNCHANGED received
    /\ UNCHANGED <<status, present>>

Settle(d, outcome) ==
    /\ present[d]
    /\ status[d] = "pending"
    /\ outcome = "delivered" => received[d] > 0
    /\ status' = [status EXCEPT ![d] = outcome]
    /\ UNCHANGED <<present, sends, received>>

Remove(gone) ==
    /\ present' = [d \in DeliveryIds |-> present[d] /\ d \notin gone]
    /\ UNCHANGED <<status, sends, received>>

Next ==
    \/ \E d \in DeliveryIds :
        Open(d) \/ Attempt(d) \/ Settle(d, "delivered") \/ Settle(d, "failed")
    \/ \E gone \in SUBSET DeliveryIds : Remove(gone)

Spec == Init /\ [][Next]_vars
=============================================================================
