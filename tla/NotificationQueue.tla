------------------------- MODULE NotificationQueue -------------------------
(***************************************************************************)
(* The notification queue of internal/notifications: callers (evaluation   *)
(* goroutines inside Enqueue) log one delivery per enabled channel and     *)
(* offer a job to a bounded channel without blocking; workers send, and    *)
(* put a failed job back without blocking after a pause; the operator      *)
(* creates and deletes channels; a restart empties the memory and leaves   *)
(* the tables.                                                             *)
(*                                                                         *)
(* The receivers are external.  The contents of a notification are its     *)
(* alert and event; the pause of time.Sleep only delays the next step.     *)
(***************************************************************************)
EXTENDS Integers, Sequences, FiniteSets

CONSTANTS
    Channels,        \* ids of notification channels, never reused
    Alerts,          \* alerts that are notified about
    DeliveryIds,     \* ids of delivery rows; a bound: past it inserts fail
    Callers,         \* slots for goroutines inside Enqueue (a bound)
    Workers,         \* workerCount goroutines
    QueueSize,       \* capacity of Queue.jobs
    MaxRetries,      \* Queue.maxRetries
    Faults,          \* the repository calls whose database statement may fail
    MaxRestarts,     \* bound: restarts of the server
    None             \* no channel, no delivery, no notification

ASSUME QueueAssumption ==
    /\ QueueSize \in Nat \ {0}
    /\ MaxRetries \in Nat \ {0}
    /\ MaxRestarts \in Nat
ASSUME DeliveryAssumption ==
    /\ IsFiniteSet(DeliveryIds)
    /\ None \notin DeliveryIds

Events        == {"firing", "resolved"}
Notifications == [alert : Alerts, event : Events]

VARIABLES
    channels,        \* table notification_channels
    alertRows,       \* the alerts whose row is in the table (external)
    deliveries,      \* table notification_deliveries
    jobs,            \* Queue.jobs
    enqueued,        \* the notifications Enqueue was called with
    cpc, notification, todo, opened,   \* where each caller is, and its locals
    wpc, job,                          \* where each worker is, and its job
    sends, received, \* attempts made, and attempts that reached the receiver
    restarts

tableVars    == <<channels, alertRows, deliveries>>
callerVars   == <<enqueued, cpc, notification, todo, opened>>
workerVars   == <<wpc, job>>
receiverVars == <<sends, received>>
vars == <<tableVars, jobs, callerVars, workerVars, receiverVars, restarts>>

Jobs == [delivery : DeliveryIds, attempt : 1 .. MaxRetries]
ASSUME JobsAssumption == None \notin Jobs
Row  == [status   : {"none", "pending", "delivered", "failed"},
         present  : BOOLEAN, attempts : 0 .. MaxRetries,
         channel  : Channels \cup {None}, alert : Alerts \cup {None}]
NoRow == [status |-> "none", present |-> FALSE, attempts |-> 0,
          channel |-> None, alert |-> None]

Enabled == {c \in Channels : channels[c] = "enabled"}
Exists(c) == channels[c] \in {"enabled", "disabled"}
Fresh == {d \in DeliveryIds : deliveries[d].status = "none"}

(* The tables after the rows of some deliveries went with their channel or *)
(* alert (ON DELETE CASCADE).                                              *)
Without(gone) == [d \in DeliveryIds |->
    [deliveries[d] EXCEPT !.present = @ /\ d \notin gone]]

(* UpdateDelivery: no row, no update; every caller ignores its error.      *)
Updated(d, status, attempts) ==
    (IF deliveries[d].present
     THEN {[deliveries EXCEPT ![d].status = status, ![d].attempts = attempts]}
     ELSE {deliveries})
    \cup (IF "update" \in Faults THEN {deliveries} ELSE {})

HasRoomIgnored == TRUE
HasRoom == Len(jobs) < QueueSize

----------------------------------------------------------------------------
(* Enqueue, in the goroutine of the alert engine.                          *)

(* The engine enqueues each transition of an alert at most once.           *)
Call(c, n) ==
    /\ cpc[c] = "idle"
    /\ n \notin enqueued
    /\ enqueued' = enqueued \cup {n}
    /\ cpc' = [cpc EXCEPT ![c] = "list"]
    /\ notification' = [notification EXCEPT ![c] = n]
    /\ UNCHANGED <<tableVars, jobs, todo, opened, workerVars, receiverVars, restarts>>

NextChannel(c, rest) ==
    /\ cpc' = [cpc EXCEPT ![c] = IF rest = {} THEN "idle" ELSE "create"]
    /\ notification' = [notification EXCEPT ![c] = IF rest = {} THEN None ELSE @]
    /\ opened' = [opened EXCEPT ![c] = None]
    /\ todo' = [todo EXCEPT ![c] = rest]

(* A failed ListChannels ends the call; an interrupted iteration is not    *)
(* reported and hides a part of the channels.                              *)
ListChannels(c) ==
    /\ cpc[c] = "list"
    /\ \E listed \in IF "list" \in Faults THEN SUBSET Enabled ELSE {Enabled} :
            NextChannel(c, listed)
    /\ UNCHANGED <<tableVars, jobs, enqueued, workerVars, receiverVars, restarts>>

(* The insert fails: a database error, the channel or the alert is gone    *)
(* (foreign keys), or the model ran out of identities.                     *)
CreateDeliveryFails(c) ==
    /\ cpc[c] = "create"
    /\ \E ch \in todo[c] :
         /\ \/ "create" \in Faults \/ Fresh = {}
            \/ ~Exists(ch) \/ notification[c].alert \notin alertRows
         /\ NextChannel(c, todo[c] \ {ch})
    /\ UNCHANGED <<tableVars, jobs, enqueued, workerVars, receiverVars, restarts>>

(* The insert commits; the caller learns it, or sees an error instead and  *)
(* goes on to the next channel.                                            *)
CreateDelivery(c) ==
    /\ cpc[c] = "create"
    /\ \E ch \in todo[c], d \in Fresh :
         /\ Exists(ch) /\ notification[c].alert \in alertRows
         /\ deliveries' = [deliveries EXCEPT ![d] =
                [status |-> "pending", present |-> TRUE, attempts |-> 0,
                 channel |-> ch, alert |-> notification[c].alert]]
         /\ \/ /\ cpc' = [cpc EXCEPT ![c] = "offer"]
               /\ opened' = [opened EXCEPT ![c] = d]
               /\ todo' = [todo EXCEPT ![c] = @ \ {ch}]
               /\ UNCHANGED notification
            \/ "create" \in Faults /\ NextChannel(c, todo[c] \ {ch})
    /\ UNCHANGED <<channels, alertRows, jobs, enqueued, workerVars,
                   receiverVars, restarts>>

OfferForgetting(c) ==
    /\ cpc[c] = "offer"
    /\ jobs' = IF HasRoom
               THEN Append(jobs, [delivery |-> opened[c], attempt |-> 1]) ELSE jobs
    /\ NextChannel(c, todo[c])
    /\ UNCHANGED <<tableVars, enqueued, workerVars, receiverVars, restarts>>
Offer(c) ==
    /\ cpc[c] = "offer"
    /\ IF HasRoom
       THEN /\ jobs' = Append(jobs, [delivery |-> opened[c], attempt |-> 1])
            /\ NextChannel(c, todo[c])
       ELSE /\ cpc' = [cpc EXCEPT ![c] = "full"]
            /\ UNCHANGED <<jobs, notification, opened, todo>>
    /\ UNCHANGED <<tableVars, enqueued, workerVars, receiverVars, restarts>>

RecordFull(c) ==
    /\ cpc[c] = "full"
    /\ deliveries' \in Updated(opened[c], "failed", 0)
    /\ NextChannel(c, todo[c])
    /\ UNCHANGED <<channels, alertRows, jobs, enqueued, workerVars,
                   receiverVars, restarts>>

----------------------------------------------------------------------------
(* processJob, in a worker.                                                *)

Take(w) ==
    /\ wpc[w] = "idle"
    /\ jobs # <<>>
    /\ job' = [job EXCEPT ![w] = Head(jobs)]
    /\ jobs' = Tail(jobs)
    /\ wpc' = [wpc EXCEPT ![w] = "send"]
    /\ UNCHANGED <<tableVars, callerVars, receiverVars, restarts>>

(* provider.Send: the receiver answers 2xx; or it does not, or not in time,*)
(* whether or not the request reached it.  The job's copy of the channel   *)
(* is used, so the channel may be deleted by now.                          *)
Sent(w) == sends' = [sends EXCEPT ![job[w].delivery] = @ + 1]
Reached(w) == received' = [received EXCEPT ![job[w].delivery] = @ + 1]

SendSucceeds(w) ==
    /\ wpc[w] = "send"
    /\ Sent(w) /\ Reached(w)
    /\ wpc' = [wpc EXCEPT ![w] = "delivered"]
    /\ UNCHANGED <<tableVars, jobs, callerVars, job, restarts>>

LastAttemptLate(j) == j.attempt > MaxRetries
LastAttempt(j) == j.attempt >= MaxRetries

SendFails(w) ==
    /\ wpc[w] = "send"
    /\ Sent(w) /\ (Reached(w) \/ UNCHANGED received)
    /\ wpc' = [wpc EXCEPT ![w] = IF LastAttempt(job[w]) THEN "failed" ELSE "pause"]
    /\ UNCHANGED <<tableVars, jobs, callerVars, job, restarts>>

(* The pause is over: count the next attempt and put the job back, or give *)
(* up if the queue is full.                                                *)
RequeueBlocking(w) ==
    /\ wpc[w] = "pause" /\ HasRoom
    /\ jobs' = Append(jobs, [job[w] EXCEPT !.attempt = @ + 1])
    /\ wpc' = [wpc EXCEPT ![w] = "idle"]
    /\ job' = [job EXCEPT ![w] = None]
    /\ UNCHANGED <<tableVars, callerVars, receiverVars, restarts>>
RequeueSameAttempt(w) ==
    /\ wpc[w] = "pause" /\ HasRoom
    /\ jobs' = Append(jobs, job[w])
    /\ wpc' = [wpc EXCEPT ![w] = "idle"]
    /\ job' = [job EXCEPT ![w] = None]
    /\ UNCHANGED <<tableVars, callerVars, receiverVars, restarts>>
RequeueTwice(w) ==
    /\ wpc[w] = "pause" /\ HasRoom
    /\ jobs' = Append(jobs, [job[w] EXCEPT !.attempt = @ + 1])
    /\ wpc' = [wpc EXCEPT ![w] = "failed"]
    /\ UNCHANGED <<job, tableVars, callerVars, receiverVars, restarts>>
Requeue(w) ==
    LET next == [job[w] EXCEPT !.attempt = @ + 1] IN
    /\ wpc[w] = "pause"
    /\ IF HasRoom
       THEN /\ jobs' = Append(jobs, next)
            /\ wpc' = [wpc EXCEPT ![w] = "idle"]
            /\ job' = [job EXCEPT ![w] = None]
       ELSE /\ wpc' = [wpc EXCEPT ![w] = "failed"]
            /\ job' = [job EXCEPT ![w] = next]
            /\ UNCHANGED jobs
    /\ UNCHANGED <<tableVars, callerVars, receiverVars, restarts>>

RecordResult(w) ==
    /\ wpc[w] \in {"delivered", "failed"}
    /\ deliveries' \in Updated(job[w].delivery, wpc[w], job[w].attempt)
    /\ wpc' = [wpc EXCEPT ![w] = "idle"]
    /\ job' = [job EXCEPT ![w] = None]
    /\ UNCHANGED <<channels, alertRows, jobs, callerVars, receiverVars, restarts>>

----------------------------------------------------------------------------
(* The operator, the rest of the database, a crash and the next start.     *)

CreateChannel(ch) ==
    /\ channels[ch] = "absent"
    /\ \E state \in {"enabled", "disabled"} :
            channels' = [channels EXCEPT ![ch] = state]
    /\ UNCHANGED <<alertRows, deliveries, jobs, callerVars, workerVars,
                   receiverVars, restarts>>

DeleteChannel(ch) ==
    /\ Exists(ch)
    /\ channels' = [channels EXCEPT ![ch] = "deleted"]
    /\ deliveries' = Without({d \in DeliveryIds : deliveries[d].channel = ch})
    /\ UNCHANGED <<alertRows, jobs, callerVars, workerVars, receiverVars, restarts>>

(* The alert's rule is deleted.                                            *)
RemoveAlert(a) ==
    /\ a \in alertRows
    /\ alertRows' = alertRows \ {a}
    /\ deliveries' = Without({d \in DeliveryIds : deliveries[d].alert = a})
    /\ UNCHANGED <<channels, jobs, callerVars, workerVars, receiverVars, restarts>>

Restart ==
    /\ restarts < MaxRestarts
    /\ restarts' = restarts + 1
    /\ jobs' = <<>>
    /\ cpc' = [c \in Callers |-> "idle"]
    /\ notification' = [c \in Callers |-> None]
    /\ todo' = [c \in Callers |-> {}]
    /\ opened' = [c \in Callers |-> None]
    /\ wpc' = [w \in Workers |-> "idle"]
    /\ job' = [w \in Workers |-> None]
    /\ UNCHANGED <<tableVars, enqueued, receiverVars>>

Init ==
    /\ channels \in [Channels -> {"absent", "enabled"}]
    /\ alertRows = Alerts
    /\ deliveries = [d \in DeliveryIds |-> NoRow]
    /\ jobs = <<>>
    /\ enqueued = {}
    /\ cpc = [c \in Callers |-> "idle"]
    /\ notification = [c \in Callers |-> None]
    /\ todo = [c \in Callers |-> {}]
    /\ opened = [c \in Callers |-> None]
    /\ wpc = [w \in Workers |-> "idle"]
    /\ job = [w \in Workers |-> None]
    /\ sends = [d \in DeliveryIds |-> 0]
    /\ received = [d \in DeliveryIds |-> 0]
    /\ restarts = 0

Enqueue(c) == ListChannels(c) \/ CreateDeliveryFails(c) \/ CreateDelivery(c)
                \/ Offer(c) \/ RecordFull(c)
ProcessJob(w) == Take(w) \/ SendSucceeds(w) \/ SendFails(w) \/ Requeue(w)
                \/ RecordResult(w)

Next ==
    \/ \E c \in Callers : Enqueue(c) \/ \E n \in Notifications : Call(c, n)
    \/ \E w \in Workers : ProcessJob(w)
    \/ \E ch \in Channels : CreateChannel(ch) \/ DeleteChannel(ch)
    \/ \E a \in Alerts : RemoveAlert(a)
    \/ Restart

Spec == Init /\ [][Next]_vars

(* The goroutines are scheduled and every HTTP request ends (timeout 10 s).*)
FairSpec == /\ Spec
            /\ \A c \in Callers : WF_vars(Enqueue(c))
            /\ \A w \in Workers : WF_vars(ProcessJob(w))

----------------------------------------------------------------------------
(* Properties.                                                             *)

TypeOK ==
    /\ channels \in [Channels -> {"absent", "enabled", "disabled", "deleted"}]
    /\ alertRows \in SUBSET Alerts
    /\ deliveries \in [DeliveryIds -> Row]
    /\ jobs \in Seq(Jobs) /\ Len(jobs) <= QueueSize
    /\ enqueued \in SUBSET Notifications
    /\ cpc \in [Callers -> {"idle", "list", "create", "offer", "full"}]
    /\ notification \in [Callers -> Notifications \cup {None}]
    /\ todo \in [Callers -> SUBSET Channels]
    /\ opened \in [Callers -> DeliveryIds \cup {None}]
    /\ wpc \in [Workers -> {"idle", "send", "pause", "delivered", "failed"}]
    /\ job \in [Workers -> Jobs \cup {None}]
    /\ sends \in [DeliveryIds -> 0 .. MaxRetries]
    /\ received \in [DeliveryIds -> 0 .. MaxRetries]
    /\ restarts \in 0 .. MaxRestarts

(* Who can still settle delivery d: a caller, a queued job, a worker.      *)
Owners(d) ==
    {<<"caller", c>> : c \in {c \in Callers : opened[c] = d}}
    \cup {<<"queue", k>> : k \in {k \in DOMAIN jobs : jobs[k].delivery = d}}
    \cup {<<"worker", w>> : w \in {w \in Workers : job[w] # None /\ job[w].delivery = d}}

(* A retried job is never in two places at once, so no two workers send    *)
(* one delivery concurrently.                                              *)
OneOwner == \A d \in DeliveryIds : Cardinality(Owners(d)) <= 1

(* A delivery stays pending only while somebody is going to settle it;     *)
(* what is not covered: a crash, and statements whose error nobody handles.*)
PendingHasOwner ==
    restarts = 0 /\ Faults \cap {"create", "update"} = {} =>
        \A d \in DeliveryIds :
            deliveries[d].status = "pending" /\ deliveries[d].present
                => Owners(d) # {}

(* The log tells the truth: a delivery logged delivered reached its        *)
(* receiver, on the attempt it names; one logged failed names the attempts *)
(* made, or one more if the last retry found the queue full.               *)
LogIsTrue ==
    \A d \in DeliveryIds :
        /\ deliveries[d].status = "delivered" =>
                received[d] > 0 /\ deliveries[d].attempts = sends[d]
        /\ deliveries[d].status = "failed" =>
                deliveries[d].attempts \in {sends[d], sends[d] + 1}

(* The queue implements the ledger: no delivery is sent more than          *)
(* MaxRetries times, none is settled twice or sent after it was settled.   *)
Ledger == INSTANCE DeliveryLedger WITH
    status  <- [d \in DeliveryIds |-> deliveries[d].status],
    present <- [d \in DeliveryIds |-> deliveries[d].present]
LedgerSpec == Ledger!Spec

(* Without crashes and database errors every delivery is settled, although *)
(* the workers that empty the queue also refill it.                        *)
Settles ==
    \A d \in DeliveryIds :
        deliveries[d].status = "pending" ~>
            deliveries[d].status \in {"delivered", "failed"} \/ ~deliveries[d].present
=============================================================================
