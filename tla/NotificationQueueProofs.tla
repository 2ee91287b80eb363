----------------------- MODULE NotificationQueueProofs -----------------------
(***************************************************************************)
(* Proofs about NotificationQueue, for any channels, alerts, callers and   *)
(* workers, any capacity of the queue, any number of retries and restarts, *)
(* and any statements that fail.                                           *)
(*                                                                         *)
(* The argument: a delivery that somebody may still settle is in one place *)
(* (Alone), is still pending, and the attempt number of its job tells how  *)
(* often it was sent (OwnedIsCounted).  So whoever settles it is the last  *)
(* to touch it, and what it writes is what happened (RowIsTrue).           *)
(***************************************************************************)
EXTENDS NotificationQueue, TLAPS, FiniteSetTheorems

Busy(w) == wpc[w] # "idle"

(* Which locals a goroutine has at which place.                            *)
Locals ==
    /\ \A c \in Callers :
        /\ cpc[c] # "idle" => notification[c] \in Notifications
        /\ IF cpc[c] \in {"offer", "full"} THEN opened[c] \in DeliveryIds
           ELSE opened[c] = None
    /\ \A w \in Workers : IF Busy(w) THEN job[w] \in Jobs ELSE job[w] = None

(* No two places hold the same delivery.                                   *)
CallersApart ==
    \A c, e \in Callers : opened[c] \in DeliveryIds /\ opened[c] = opened[e] => c = e
QueueApart ==
    \A k, l \in 1 .. Len(jobs) : jobs[k].delivery = jobs[l].delivery => k = l
WorkersApart ==
    \A w, v \in Workers :
        Busy(w) /\ Busy(v) /\ job[w].delivery = job[v].delivery => w = v
KindsApart ==
    /\ \A c \in Callers, k \in 1 .. Len(jobs) : jobs[k].delivery # opened[c]
    /\ \A c \in Callers, w \in Workers : Busy(w) => job[w].delivery # opened[c]
    /\ \A w \in Workers, k \in 1 .. Len(jobs) :
            Busy(w) => job[w].delivery # jobs[k].delivery
Alone == CallersApart /\ QueueApart /\ WorkersApart /\ KindsApart

(* How often a delivery was sent, by the place it is in.                   *)
Pending(d) == deliveries[d].status = "pending"
WorkerCounts(w) ==
    LET d == job[w].delivery
        n == job[w].attempt
    IN  /\ Pending(d)
        /\ wpc[w] = "send" => n = sends[d] + 1
        /\ wpc[w] = "pause" => n = sends[d] /\ n < MaxRetries
        /\ wpc[w] = "delivered" => n = sends[d] /\ received[d] > 0
        /\ wpc[w] = "failed" => n \in {sends[d], sends[d] + 1}
OwnedIsCounted ==
    /\ \A c \in Callers :
        opened[c] \in DeliveryIds => Pending(opened[c]) /\ sends[opened[c]] = 0
    /\ \A k \in 1 .. Len(jobs) :
        Pending(jobs[k].delivery) /\ jobs[k].attempt = sends[jobs[k].delivery] + 1
    /\ \A w \in Workers : Busy(w) => WorkerCounts(w)

RowIsTrue ==
    \A d \in DeliveryIds :
        /\ deliveries[d].status = "none" =>
                ~deliveries[d].present /\ sends[d] = 0 /\ received[d] = 0
        /\ received[d] <= sends[d]

QueueInv == TypeOK /\ Locals /\ Alone /\ OwnedIsCounted /\ RowIsTrue /\ LogIsTrue

----------------------------------------------------------------------------
(* Types.                                                                  *)

(* What Append and Tail make of a queue.                                   *)
LEMMA AppendOf ==
    ASSUME NEW s \in Seq(Jobs), NEW j \in Jobs
    PROVE  /\ Append(s, j) \in Seq(Jobs) /\ Len(Append(s, j)) = Len(s) + 1
           /\ Len(s) \in Nat
           /\ Append(s, j)[Len(s) + 1] = j
           /\ \A k \in 1 .. Len(s) : s[k] \in Jobs /\ Append(s, j)[k] = s[k]
OBVIOUS

(* What is left of a list without its first.                               *)
LEMMA TailOf ==
    ASSUME NEW s \in Seq(Jobs), s # <<>>
    PROVE  /\ Head(s) = s[1] /\ Head(s) \in Jobs /\ 1 \in 1 .. Len(s)
           /\ Tail(s) \in Seq(Jobs) /\ Len(Tail(s)) = Len(s) - 1
           /\ \A k \in 1 .. Len(Tail(s)) : /\ k + 1 \in 1 .. Len(s)
                                           /\ Tail(s)[k] = s[k + 1]
OBVIOUS

(* A row that is updated stays a row.                                      *)
LEMMA UpdatedType ==
    ASSUME deliveries \in [DeliveryIds -> Row],
           NEW d \in DeliveryIds, NEW status \in {"delivered", "failed"},
           NEW n \in 0 .. MaxRetries,
           deliveries' \in Updated(d, status, n)
    PROVE  /\ deliveries' \in [DeliveryIds -> Row]
           /\ \A e \in DeliveryIds :
                /\ deliveries'[e].present = deliveries[e].present
                /\ e # d => deliveries'[e] = deliveries[e]
           /\ \/ deliveries'[d] = deliveries[d]
              \/ /\ deliveries[d].present
                 /\ deliveries'[d].status = status /\ deliveries'[d].attempts = n
BY DEF Updated, Row

(* Cascades only take rows away.                                           *)
LEMMA WithoutType ==
    ASSUME deliveries \in [DeliveryIds -> Row], NEW gone, deliveries' = Without(gone)
    PROVE  /\ deliveries' \in [DeliveryIds -> Row]
           /\ \A e \in DeliveryIds :
                /\ deliveries'[e].present = (deliveries[e].present /\ e \notin gone)
                /\ deliveries'[e].status = deliveries[e].status
                /\ deliveries'[e].attempts = deliveries[e].attempts
BY DEF Without, Row

(* The next channel, or the end of the call.                               *)
LEMMA NextChannelType ==
    ASSUME QueueInv, NEW c \in Callers, cpc[c] # "idle", NEW rest \in SUBSET Channels,
           NextChannel(c, rest)
    PROVE  /\ cpc' \in [Callers -> {"idle", "list", "create", "offer", "full"}]
           /\ notification' \in [Callers -> Notifications \cup {None}]
           /\ todo' \in [Callers -> SUBSET Channels]
           /\ opened' \in [Callers -> DeliveryIds \cup {None}]
           /\ opened' = [opened EXCEPT ![c] = None]
           /\ \A e \in Callers :
                /\ cpc'[e] # "idle" => notification'[e] \in Notifications
                /\ IF cpc'[e] \in {"offer", "full"} THEN opened'[e] \in DeliveryIds
                   ELSE opened'[e] = None
BY DEF NextChannel, QueueInv, TypeOK, Locals

(* Every place holds a job, of a delivery.                                 *)
LEMMA HeldType ==
    ASSUME QueueInv
    PROVE  /\ \A k \in 1 .. Len(jobs) : jobs[k] \in Jobs /\ jobs[k].delivery \in DeliveryIds
           /\ \A w \in Workers :
                Busy(w) => job[w] \in Jobs /\ job[w].delivery \in DeliveryIds
<1>1. jobs \in Seq(Jobs) /\ Len(jobs) \in Nat
    BY DEF QueueInv, TypeOK
<1>2. \A k \in 1 .. Len(jobs) : jobs[k] \in Jobs
    BY <1>1
<1>3. \A w \in Workers : Busy(w) => job[w] \in Jobs
    BY DEF QueueInv, Locals
<1> QED BY <1>2, <1>3 DEF Jobs

----------------------------------------------------------------------------
(* Nothing was ever enqueued, and every table is empty.                    *)
LEMMA QueueInit == Init => QueueInv
<1> SUFFICES ASSUME Init PROVE QueueInv OBVIOUS
<1>1. NoRow \in Row /\ NoRow.status = "none" /\ NoRow.present = FALSE
    BY QueueAssumption DEF NoRow, Row
<1>2. TypeOK
    BY <1>1, QueueAssumption DEF Init, TypeOK, Jobs
<1>3. Locals /\ Alone
    BY DeliveryAssumption DEF Init, Locals, Busy, Alone, CallersApart, QueueApart,
                              WorkersApart, KindsApart
<1>4. OwnedIsCounted /\ RowIsTrue /\ LogIsTrue
    BY <1>1, DeliveryAssumption DEF Init, OwnedIsCounted, RowIsTrue, LogIsTrue, Busy
<1> QED BY <1>2, <1>3, <1>4 DEF QueueInv

----------------------------------------------------------------------------
(* Steps that leave the places and the log alone.                          *)
LEMMA QuietKeeps ==
    ASSUME QueueInv, TypeOK', Locals',
           UNCHANGED <<opened, jobs, wpc, job, sends, received>>,
           \A d \in DeliveryIds :
                /\ deliveries'[d].status = deliveries[d].status
                /\ deliveries'[d].attempts = deliveries[d].attempts
                /\ deliveries'[d].present => deliveries[d].present
    PROVE  QueueInv'
<1> USE DEF QueueInv
<1>1. Alone'
    BY DEF Alone, CallersApart, QueueApart, WorkersApart, KindsApart, Busy
<1>2. /\ \A k \in 1 .. Len(jobs) : jobs[k].delivery \in DeliveryIds
      /\ \A w \in Workers : Busy(w) => job[w].delivery \in DeliveryIds
    BY HeldType
<1>3. OwnedIsCounted'
    BY <1>2 DEF OwnedIsCounted, WorkerCounts, Pending, Busy
<1>4. RowIsTrue' /\ LogIsTrue'
    BY DEF RowIsTrue, LogIsTrue, TypeOK, Row
<1> QED BY <1>1, <1>3, <1>4

(* A call that starts holds no delivery yet.                               *)
LEMMA CallKeeps ==
    ASSUME QueueInv, NEW c \in Callers, NEW n \in Notifications, Call(c, n)
    PROVE  QueueInv'
<1> USE DEF QueueInv
<1>1. TypeOK'
    BY DEF Call, TypeOK, tableVars, workerVars, receiverVars
<1>2. Locals'
    BY DEF Call, TypeOK, Locals, Busy, workerVars
<1>3. UNCHANGED <<deliveries, opened, jobs, wpc, job, sends, received>>
    BY DEF Call, tableVars, workerVars, receiverVars
<1> QED BY <1>1, <1>2, <1>3, QuietKeeps

(* Enqueue finds its channels, or gives one up.                            *)
LEMMA GivesUpKeeps ==
    ASSUME QueueInv, NEW c \in Callers, ListChannels(c) \/ CreateDeliveryFails(c)
    PROVE  QueueInv'
<1> USE DEF QueueInv
<1>1. PICK rest \in SUBSET Channels : NextChannel(c, rest)
    BY DEF ListChannels, CreateDeliveryFails, Enabled, TypeOK
<1>2. /\ cpc[c] \in {"list", "create"}
      /\ UNCHANGED <<tableVars, jobs, enqueued, workerVars, receiverVars, restarts>>
    BY DEF ListChannels, CreateDeliveryFails
<1>3. TypeOK' /\ Locals'
    BY <1>1, <1>2, NextChannelType
    DEF TypeOK, Locals, Busy, tableVars, workerVars, receiverVars
<1>4. opened' = opened
  <2>1. opened' = [opened EXCEPT ![c] = None]
    BY <1>1, <1>2, NextChannelType
  <2> QED BY <1>2, <2>1 DEF TypeOK, Locals
<1> QED BY <1>2, <1>3, <1>4, QuietKeeps DEF tableVars, workerVars, receiverVars

(* The operator, and the cascades.                                         *)
LEMMA OperatorKeeps ==
    ASSUME QueueInv,
           \/ \E ch \in Channels : CreateChannel(ch) \/ DeleteChannel(ch)
           \/ \E a \in Alerts : RemoveAlert(a)
    PROVE  QueueInv'
<1> USE DEF QueueInv
<1>1. /\ UNCHANGED <<jobs, callerVars, workerVars, receiverVars, restarts>>
      /\ channels' \in [Channels -> {"absent", "enabled", "disabled", "deleted"}]
      /\ alertRows' \in SUBSET Alerts
      /\ deliveries' = deliveries \/ \E gone : deliveries' = Without(gone)
    BY DEF CreateChannel, DeleteChannel, RemoveAlert, TypeOK
<1>2. /\ deliveries' \in [DeliveryIds -> Row]
      /\ \A d \in DeliveryIds :
            /\ deliveries'[d].status = deliveries[d].status
            /\ deliveries'[d].attempts = deliveries[d].attempts
            /\ deliveries'[d].present => deliveries[d].present
    BY <1>1, WithoutType DEF TypeOK
<1>3. TypeOK' /\ Locals'
    BY <1>1, <1>2 DEF TypeOK, Locals, Busy, callerVars, workerVars, receiverVars
<1> QED BY <1>1, <1>2, <1>3, QuietKeeps DEF callerVars, workerVars, receiverVars

----------------------------------------------------------------------------
(* A delivery gets its first owner, unless the commit was not noticed.     *)
LEMMA CreateDeliveryKeeps ==
    ASSUME QueueInv, NEW c \in Callers, CreateDelivery(c)
    PROVE  QueueInv'
<1> USE DEF QueueInv
<1>1. PICK ch \in todo[c], d \in Fresh :
        /\ Exists(ch) /\ notification[c].alert \in alertRows
        /\ deliveries' = [deliveries EXCEPT ![d] =
                [status |-> "pending", present |-> TRUE, attempts |-> 0,
                 channel |-> ch, alert |-> notification[c].alert]]
        /\ \/ /\ cpc' = [cpc EXCEPT ![c] = "offer"]
              /\ opened' = [opened EXCEPT ![c] = d]
              /\ todo' = [todo EXCEPT ![c] = @ \ {ch}]
              /\ UNCHANGED notification
           \/ NextChannel(c, todo[c] \ {ch})
    BY DEF CreateDelivery
<1>2. /\ cpc[c] = "create"
      /\ UNCHANGED <<channels, alertRows, jobs, enqueued, wpc, job, sends, received,
                     restarts>>
    BY DEF CreateDelivery, workerVars, receiverVars
<1>3. /\ d \in DeliveryIds /\ deliveries[d].status = "none"
      /\ sends[d] = 0 /\ received[d] = 0
      /\ opened[c] = None /\ None \notin DeliveryIds
    BY <1>1, <1>2, DeliveryAssumption DEF Fresh, RowIsTrue, Locals
<1>4. /\ deliveries' \in [DeliveryIds -> Row]
      /\ deliveries'[d].status = "pending" /\ deliveries'[d].present
      /\ \A e \in DeliveryIds : e # d => deliveries'[e] = deliveries[e]
    BY <1>1, <1>3 DEF TypeOK, Row
<1>5. /\ TypeOK' /\ Locals'
      /\ opened' = opened \/ opened' = [opened EXCEPT ![c] = d]
  <2>1. CASE NextChannel(c, todo[c] \ {ch})
    <3>1. todo[c] \ {ch} \in SUBSET Channels
        BY DEF TypeOK
    <3>2. TypeOK' /\ Locals'
        BY <1>2, <1>4, <2>1, <3>1, NextChannelType DEF TypeOK, Locals, Busy
    <3>3. opened' = opened
      <4>1. opened' = [opened EXCEPT ![c] = None]
        BY <1>2, <2>1, <3>1, NextChannelType
      <4> QED BY <1>3, <4>1 DEF TypeOK
    <3> QED BY <3>2, <3>3
  <2>2. CASE /\ cpc' = [cpc EXCEPT ![c] = "offer"]
             /\ opened' = [opened EXCEPT ![c] = d]
             /\ todo' = [todo EXCEPT ![c] = @ \ {ch}]
             /\ UNCHANGED notification
    BY <1>2, <1>3, <1>4, <2>2 DEF TypeOK, Locals, Busy
  <2> QED BY <1>1, <2>1, <2>2
<1>6. /\ \A e \in Callers : opened[e] # d
      /\ \A k \in 1 .. Len(jobs) : jobs[k].delivery # d /\ jobs[k].delivery \in DeliveryIds
      /\ \A w \in Workers : Busy(w) => job[w].delivery # d /\ job[w].delivery \in DeliveryIds
  <2>1. ~Pending(d)
    BY <1>3 DEF Pending
  <2>2. \A e \in Callers : opened[e] # d
    BY <1>3, <2>1 DEF OwnedIsCounted
  <2>3. \A k \in 1 .. Len(jobs) : jobs[k].delivery # d
    BY <2>1 DEF OwnedIsCounted
  <2>4. \A w \in Workers : Busy(w) => job[w].delivery # d
    BY <2>1 DEF OwnedIsCounted, WorkerCounts
  <2> QED BY <2>2, <2>3, <2>4, HeldType
<1>7. /\ jobs' = jobs /\ \A w \in Workers : Busy(w)' = Busy(w) /\ job'[w] = job[w]
      /\ \A e \in Callers : opened'[e] = opened[e] \/ (e = c /\ opened'[e] = d)
    BY <1>2, <1>5 DEF Busy, TypeOK
<1>8. Alone'
  <2>1. CallersApart'
    BY <1>3, <1>6, <1>7 DEF Alone, CallersApart
  <2>2. QueueApart' /\ WorkersApart'
    BY <1>7 DEF Alone, QueueApart, WorkersApart
  <2>3. KindsApart'
    BY <1>6, <1>7 DEF Alone, KindsApart
  <2> QED BY <2>1, <2>2, <2>3 DEF Alone
<1>9. OwnedIsCounted'
  <2>1. \A e \in DeliveryIds : Pending(e) => Pending(e)'
    BY <1>4 DEF Pending
  <2>2. \A e \in Callers : opened'[e] \in DeliveryIds =>
            (Pending(opened[e]) /\ sends[opened[e]] = 0)'
    BY <1>2, <1>3, <1>4, <1>7, <2>1 DEF OwnedIsCounted, Pending
  <2>3. \A k \in 1 .. Len(jobs) :
            Pending(jobs[k].delivery)' /\ jobs[k].attempt = sends[jobs[k].delivery] + 1
    BY <1>6, <1>7, <2>1 DEF OwnedIsCounted, Pending
  <2>4. \A w \in Workers : Busy(w) => WorkerCounts(w)'
    BY <1>2, <1>6, <2>1 DEF OwnedIsCounted, WorkerCounts, Pending
  <2> QED BY <1>2, <1>7, <2>2, <2>3, <2>4 DEF OwnedIsCounted
<1>10. RowIsTrue' /\ LogIsTrue'
    BY <1>2, <1>3, <1>4 DEF RowIsTrue, LogIsTrue, TypeOK
<1> QED BY <1>5, <1>8, <1>9, <1>10

----------------------------------------------------------------------------
(* A delivery goes from its caller to the queue, or stays with a caller    *)
(* that found the queue full.                                              *)
LEMMA OfferKeeps ==
    ASSUME QueueInv, NEW c \in Callers, Offer(c)
    PROVE  QueueInv'
<1> USE DEF QueueInv
<1> DEFINE j == [delivery |-> opened[c], attempt |-> 1]
<1>1. /\ cpc[c] = "offer" /\ opened[c] \in DeliveryIds
      /\ UNCHANGED <<tableVars, enqueued, workerVars, receiverVars, restarts>>
    BY DEF Offer, Locals
<1>2. j \in Jobs
    BY <1>1, QueueAssumption DEF Jobs
<1>3. CASE HasRoom
  <2>1. /\ jobs' = Append(jobs, j) /\ NextChannel(c, todo[c])
        /\ todo[c] \in SUBSET Channels
    BY <1>3 DEF Offer, TypeOK
  <2>2. /\ jobs' \in Seq(Jobs) /\ Len(jobs') = Len(jobs) + 1
        /\ jobs'[Len(jobs) + 1] = j /\ Len(jobs) \in Nat
        /\ \A k \in 1 .. Len(jobs) : jobs'[k] = jobs[k]
    BY <1>2, <2>1, AppendOf DEF TypeOK
  <2>3. TypeOK' /\ Locals'
    <3>1. Len(jobs') <= QueueSize
        BY <1>3, <2>2, QueueAssumption DEF HasRoom
    <3>2. TypeOK'
        BY <1>1, <2>1, <2>2, <3>1, NextChannelType
        DEF TypeOK, tableVars, workerVars, receiverVars
    <3>3. Locals'
        BY <1>1, <2>1, NextChannelType DEF Locals, Busy, workerVars
    <3> QED BY <3>2, <3>3
  <2>4. opened' = [opened EXCEPT ![c] = None]
    BY <1>1, <2>1, NextChannelType
  <2>5. /\ \A e \in Callers : opened'[e] \in DeliveryIds => opened'[e] = opened[e] /\ e # c
        /\ \A w \in Workers : Busy(w)' = Busy(w) /\ job'[w] = job[w]
        /\ \A k \in 1 .. Len(jobs') : jobs'[k] = j \/ k \in 1 .. Len(jobs)
        /\ \A k \in 1 .. Len(jobs') : k \notin 1 .. Len(jobs) => k = Len(jobs) + 1
        /\ \A e \in Callers : opened'[e] \in DeliveryIds \/ opened'[e] = None
    BY <1>1, <2>2, <2>4, DeliveryAssumption DEF Busy, TypeOK, workerVars
  <2>6. Alone'
    <3>1. CallersApart' /\ WorkersApart'
        BY <2>5 DEF Alone, CallersApart, WorkersApart
    <3>2. QueueApart'
        BY <1>1, <2>2, <2>5 DEF Alone, QueueApart, KindsApart
    <3>3. KindsApart'
        BY <1>1, <2>2, <2>5, HeldType, DeliveryAssumption
        DEF Alone, KindsApart, CallersApart
    <3> QED BY <3>1, <3>2, <3>3 DEF Alone
  <2>7. UNCHANGED <<deliveries, sends, received, wpc, job>>
    BY <1>1 DEF tableVars, workerVars, receiverVars
  <2>8. OwnedIsCounted'
    <3>1. \A e \in Callers : opened'[e] \in DeliveryIds =>
            Pending(opened'[e]) /\ sends[opened'[e]] = 0
        BY <2>5 DEF OwnedIsCounted
    <3>2. \A k \in 1 .. Len(jobs') :
            Pending(jobs'[k].delivery) /\ jobs'[k].attempt = sends[jobs'[k].delivery] + 1
        BY <1>1, <2>2, <2>5 DEF OwnedIsCounted
    <3> QED BY <2>5, <2>7, <3>1, <3>2 DEF OwnedIsCounted, WorkerCounts, Pending
  <2>9. RowIsTrue' /\ LogIsTrue'
    BY <2>7 DEF RowIsTrue, LogIsTrue
  <2> QED BY <2>3, <2>6, <2>8, <2>9
<1>4. CASE ~HasRoom
  <2>1. /\ cpc' = [cpc EXCEPT ![c] = "full"]
        /\ UNCHANGED <<jobs, notification, opened, todo, deliveries, wpc, job, sends,
                       received>>
    BY <1>1, <1>4 DEF Offer, tableVars, workerVars, receiverVars
  <2>2. TypeOK' /\ Locals'
    BY <1>1, <2>1 DEF TypeOK, Locals, Busy, tableVars, workerVars, receiverVars
  <2> QED BY <2>1, <2>2, QuietKeeps
<1> QED BY <1>3, <1>4

(* A worker takes the first job.                                           *)
LEMMA TakeKeeps ==
    ASSUME QueueInv, NEW w \in Workers, Take(w)
    PROVE  QueueInv'
<1> USE DEF QueueInv
<1>1. /\ wpc[w] = "idle" /\ jobs # <<>>
      /\ job' = [job EXCEPT ![w] = Head(jobs)] /\ jobs' = Tail(jobs)
      /\ wpc' = [wpc EXCEPT ![w] = "send"]
      /\ UNCHANGED <<tableVars, callerVars, receiverVars, restarts>>
    BY DEF Take
<1>2. /\ job'[w] = jobs[1] /\ jobs[1] \in Jobs /\ 1 \in 1 .. Len(jobs)
      /\ jobs' \in Seq(Jobs) /\ Len(jobs') = Len(jobs) - 1 /\ Len(jobs) \in Nat
      /\ \A k \in 1 .. Len(jobs') : k + 1 \in 1 .. Len(jobs) /\ jobs'[k] = jobs[k + 1]
    BY <1>1, TailOf DEF TypeOK
<1>3. TypeOK' /\ Locals'
  <2>1. Len(jobs') <= QueueSize
    BY <1>2, QueueAssumption DEF TypeOK
  <2>2. TypeOK'
    BY <1>1, <1>2, <2>1 DEF TypeOK, tableVars, callerVars, receiverVars
  <2>3. Locals'
    BY <1>1, <1>2 DEF TypeOK, Locals, Busy, callerVars
  <2> QED BY <2>2, <2>3
<1>4. /\ UNCHANGED <<deliveries, opened, sends, received>>
      /\ ~Busy(w) /\ Busy(w)' /\ wpc'[w] = "send"
      /\ \A v \in Workers : v # w =>
            Busy(v)' = Busy(v) /\ job'[v] = job[v] /\ wpc'[v] = wpc[v]
    BY <1>1 DEF Busy, TypeOK, tableVars, callerVars, receiverVars
<1>5. Alone'
  <2>1. CallersApart'
    BY <1>4 DEF Alone, CallersApart
  <2>2. QueueApart'
    BY <1>2 DEF Alone, QueueApart
  <2>3. WorkersApart'
    BY <1>2, <1>4 DEF Alone, WorkersApart, KindsApart
  <2>4. ASSUME NEW v \in Workers, Busy(v)', NEW k \in 1 .. Len(jobs')
        PROVE  job'[v].delivery # jobs'[k].delivery
    <3>1. CASE v = w
        BY <1>2, <3>1 DEF Alone, QueueApart
    <3>2. CASE v # w
        BY <1>2, <1>4, <2>4, <3>2 DEF Alone, KindsApart
    <3> QED BY <3>1, <3>2
  <2>5. \A c \in Callers, v \in Workers : Busy(v)' => job'[v].delivery # opened[c]
    BY <1>2, <1>4 DEF Alone, KindsApart
  <2>6. \A c \in Callers, k \in 1 .. Len(jobs') : jobs'[k].delivery # opened[c]
    BY <1>2 DEF Alone, KindsApart
  <2> QED BY <1>4, <2>1, <2>2, <2>3, <2>4, <2>5, <2>6 DEF Alone, KindsApart
<1>6. OwnedIsCounted'
  <2>1. \A k \in 1 .. Len(jobs') :
            Pending(jobs'[k].delivery) /\ jobs'[k].attempt = sends[jobs'[k].delivery] + 1
    BY <1>2 DEF OwnedIsCounted
  <2>2. Pending(job'[w].delivery) /\ job'[w].attempt = sends[job'[w].delivery] + 1
    BY <1>2 DEF OwnedIsCounted
  <2>3. \A v \in Workers : Busy(v)' => WorkerCounts(v)'
    BY <1>4, <2>2 DEF OwnedIsCounted, WorkerCounts, Pending
  <2> QED BY <1>4, <2>1, <2>3 DEF OwnedIsCounted, Pending
<1>7. RowIsTrue' /\ LogIsTrue'
    BY <1>4 DEF RowIsTrue, LogIsTrue
<1> QED BY <1>3, <1>5, <1>6, <1>7

----------------------------------------------------------------------------
(* Places that are only left, or keep what they hold, stay apart.          *)
LEMMA AloneShrinks ==
    ASSUME QueueInv,
           \A c \in Callers : opened'[c] \in {opened[c], None},
           jobs' \in {jobs, <<>>},
           \A w \in Workers : Busy(w)' => Busy(w) /\ job'[w].delivery = job[w].delivery
    PROVE  Alone'
<1>1. \A k \in 1 .. Len(jobs') : k \in 1 .. Len(jobs) /\ jobs'[k] = jobs[k]
    OBVIOUS
<1>2. CallersApart'
    BY DeliveryAssumption DEF QueueInv, Alone, CallersApart
<1>3. QueueApart' /\ WorkersApart'
    BY <1>1 DEF QueueInv, Alone, QueueApart, WorkersApart
<1>4. KindsApart'
    BY <1>1, HeldType, DeliveryAssumption DEF QueueInv, Alone, KindsApart
<1> QED BY <1>2, <1>3, <1>4 DEF Alone

(* A delivery is sent: only its worker holds it, so only that worker's     *)
(* count changes.                                                          *)
LEMMA SendKeeps ==
    ASSUME QueueInv, NEW w \in Workers, SendSucceeds(w) \/ SendFails(w)
    PROVE  QueueInv'
<1> USE DEF QueueInv
<1> DEFINE d == job[w].delivery
           n == job[w].attempt
<1>1. /\ wpc[w] = "send" /\ Busy(w) /\ job[w] \in Jobs
      /\ d \in DeliveryIds /\ n \in 1 .. MaxRetries
      /\ Pending(d) /\ n = sends[d] + 1
      /\ UNCHANGED <<tableVars, jobs, callerVars, job, restarts>>
      /\ sends' = [sends EXCEPT ![d] = @ + 1]
  <2>1. wpc[w] = "send" /\ Busy(w)
    BY DEF SendSucceeds, SendFails, Busy
  <2>2. job[w] \in Jobs
    BY <2>1 DEF Locals
  <2>3. Pending(d) /\ n = sends[d] + 1
    BY <2>1 DEF OwnedIsCounted, WorkerCounts
  <2>4. d \in DeliveryIds /\ n \in 1 .. MaxRetries
    BY <2>2 DEF Jobs
  <2>5. /\ UNCHANGED <<tableVars, jobs, callerVars, job, restarts>>
        /\ sends' = [sends EXCEPT ![d] = @ + 1]
    BY DEF SendSucceeds, SendFails, Sent
  <2> QED BY <2>1, <2>2, <2>3, <2>4, <2>5
<1>2. /\ sends[d] \in Nat /\ received[d] \in Nat /\ received[d] <= sends[d]
      /\ sends[d] + 1 \in 0 .. MaxRetries
    BY <1>1, QueueAssumption DEF TypeOK, RowIsTrue
<1>3. PICK l \in {"delivered", "failed", "pause"}, r \in {received[d], received[d] + 1} :
        /\ wpc' = [wpc EXCEPT ![w] = l] /\ received' = [received EXCEPT ![d] = r]
        /\ l = "delivered" => r > 0
        /\ l = "pause" => n < MaxRetries
  <2>1. CASE SendSucceeds(w)
    BY <1>2, <2>1 DEF SendSucceeds, Reached
  <2>2. CASE SendFails(w)
    <3>1. received' = [received EXCEPT ![d] = received[d]]
            \/ received' = [received EXCEPT ![d] = received[d] + 1]
        BY <2>2 DEF SendFails, Reached, TypeOK
    <3>2. \/ wpc' = [wpc EXCEPT ![w] = "failed"]
          \/ wpc' = [wpc EXCEPT ![w] = "pause"] /\ n < MaxRetries
      <4>1. wpc' = [wpc EXCEPT ![w] = IF n >= MaxRetries THEN "failed" ELSE "pause"]
        BY <2>2 DEF SendFails, LastAttempt
      <4>2. n \in Nat /\ MaxRetries \in Nat
        BY <1>1, QueueAssumption
      <4>3. CASE n >= MaxRetries
        BY <4>1, <4>3
      <4>4. CASE n < MaxRetries
        BY <4>1, <4>2, <4>4
      <4> QED BY <4>2, <4>3, <4>4
    <3> QED BY <3>1, <3>2
  <2> QED BY <2>1, <2>2
<1>4. /\ sends' \in [DeliveryIds -> 0 .. MaxRetries] /\ sends'[d] = sends[d] + 1
      /\ received' \in [DeliveryIds -> 0 .. MaxRetries] /\ received'[d] = r
      /\ \A e \in DeliveryIds : e # d => sends'[e] = sends[e] /\ received'[e] = received[e]
    BY <1>1, <1>2, <1>3, QueueAssumption DEF TypeOK
<1>5. /\ wpc' \in [Workers -> {"idle", "send", "pause", "delivered", "failed"}]
      /\ \A v \in Workers : Busy(v)' = Busy(v) /\ (v # w => wpc'[v] = wpc[v])
      /\ wpc'[w] = l
    BY <1>1, <1>3 DEF TypeOK, Busy
<1>6. TypeOK' /\ Locals'
    BY <1>1, <1>4, <1>5 DEF TypeOK, Locals, tableVars, callerVars
<1>7. Alone'
    BY <1>1, <1>5, AloneShrinks DEF callerVars
<1>8. OwnedIsCounted'
  <2>1. \A c \in Callers : opened[c] # d
    BY <1>1 DEF Alone, KindsApart
  <2>2. \A k \in 1 .. Len(jobs) : jobs[k].delivery # d /\ jobs[k].delivery \in DeliveryIds
    BY <1>1, HeldType DEF Alone, KindsApart
  <2>3. \A v \in Workers : Busy(v) /\ v # w =>
            job[v].delivery # d /\ job[v].delivery \in DeliveryIds
    BY <1>1, HeldType DEF Alone, WorkersApart
  <2>4. UNCHANGED <<deliveries, opened, jobs, job>>
    BY <1>1 DEF tableVars, callerVars
  <2>5. \A c \in Callers : opened[c] \in DeliveryIds =>
            Pending(opened[c]) /\ sends'[opened[c]] = 0
    BY <1>4, <2>1 DEF OwnedIsCounted
  <2>6. \A k \in 1 .. Len(jobs) :
            Pending(jobs[k].delivery) /\ jobs[k].attempt = sends'[jobs[k].delivery] + 1
    BY <1>4, <2>2 DEF OwnedIsCounted
  <2>7. ASSUME NEW v \in Workers, Busy(v) PROVE WorkerCounts(v)'
    <3>1. CASE v = w
        BY <1>1, <1>2, <1>3, <1>4, <1>5, <2>4, <3>1 DEF WorkerCounts, Pending
    <3>2. CASE v # w
        BY <1>4, <1>5, <2>3, <2>4, <2>7, <3>2 DEF OwnedIsCounted, WorkerCounts, Pending
    <3> QED BY <3>1, <3>2
  <2> QED BY <1>5, <2>4, <2>5, <2>6, <2>7 DEF OwnedIsCounted, Pending
<1>9. RowIsTrue' /\ LogIsTrue'
  <2>1. UNCHANGED deliveries
    BY <1>1 DEF tableVars
  <2>2. deliveries[d].status = "pending"
    BY <1>1 DEF Pending
  <2>3. ASSUME NEW e \in DeliveryIds, e # d
        PROVE  /\ deliveries[e].status = "none" =>
                    ~deliveries[e].present /\ sends'[e] = 0 /\ received'[e] = 0
               /\ received'[e] <= sends'[e]
               /\ deliveries[e].status = "delivered" =>
                    received'[e] > 0 /\ deliveries[e].attempts = sends'[e]
               /\ deliveries[e].status = "failed" =>
                    deliveries[e].attempts \in {sends'[e], sends'[e] + 1}
    BY <1>4, <2>3 DEF RowIsTrue, LogIsTrue
  <2>4. received'[d] <= sends'[d]
    BY <1>2, <1>3, <1>4
  <2> QED BY <2>1, <2>2, <2>3, <2>4 DEF RowIsTrue, LogIsTrue
<1> QED BY <1>6, <1>7, <1>8, <1>9

(* The pause is over: the job returns to the queue, or the worker gives up *)
(* with an attempt that was never made.                                    *)
LEMMA RequeueKeeps ==
    ASSUME QueueInv, NEW w \in Workers, Requeue(w)
    PROVE  QueueInv'
<1> USE DEF QueueInv
<1> DEFINE d == job[w].delivery
           n == job[w].attempt
           next == [job[w] EXCEPT !.attempt = @ + 1]
<1>1. /\ wpc[w] = "pause" /\ Busy(w) /\ job[w] \in Jobs
      /\ UNCHANGED <<tableVars, callerVars, receiverVars, restarts>>
    BY DEF Requeue, Busy, Locals
<1>2. /\ d \in DeliveryIds /\ n \in 1 .. MaxRetries
      /\ Pending(d) /\ n = sends[d] /\ n < MaxRetries
    BY <1>1 DEF OwnedIsCounted, WorkerCounts, Jobs
<1>3. next \in Jobs /\ next.delivery = d /\ next.attempt = n + 1
  <2>1. next = [delivery |-> d, attempt |-> n + 1]
    BY <1>1 DEF Jobs
  <2>2. n + 1 \in 1 .. MaxRetries
    BY <1>2, QueueAssumption
  <2> QED BY <1>2, <2>1, <2>2 DEF Jobs
<1>4. UNCHANGED <<deliveries, opened, sends, received>>
    BY <1>1 DEF tableVars, callerVars, receiverVars
<1>5. CASE HasRoom
  <2>1. /\ jobs' = Append(jobs, next)
        /\ wpc' = [wpc EXCEPT ![w] = "idle"] /\ job' = [job EXCEPT ![w] = None]
    BY <1>5 DEF Requeue
  <2>2. /\ jobs' \in Seq(Jobs) /\ Len(jobs') = Len(jobs) + 1
        /\ jobs'[Len(jobs) + 1] = next /\ Len(jobs) \in Nat
        /\ \A k \in 1 .. Len(jobs) : jobs'[k] = jobs[k]
    BY <1>3, <2>1, AppendOf DEF TypeOK
  <2>3. Len(jobs') <= QueueSize
    BY <1>5, <2>2, QueueAssumption DEF HasRoom
  <2>4. TypeOK' /\ Locals'
    BY <1>1, <2>1, <2>2, <2>3
    DEF TypeOK, Locals, Busy, tableVars, callerVars, receiverVars
  <2>5. /\ \A v \in Workers : Busy(v)' =>
                Busy(v) /\ v # w /\ job'[v] = job[v] /\ wpc'[v] = wpc[v]
        /\ \A k \in 1 .. Len(jobs') :
                \/ k \in 1 .. Len(jobs) /\ jobs'[k] = jobs[k]
                \/ k = Len(jobs) + 1 /\ jobs'[k].delivery = d /\ jobs'[k].attempt = n + 1
    BY <1>3, <2>1, <2>2 DEF Busy, TypeOK
  <2>6. Alone'
    <3>1. CallersApart' /\ WorkersApart'
        BY <1>4, <2>5 DEF Alone, CallersApart, WorkersApart
    <3>2. QueueApart'
        BY <1>1, <2>5 DEF Alone, QueueApart, KindsApart
    <3>3. \A c \in Callers, k \in 1 .. Len(jobs') : jobs'[k].delivery # opened[c]
        BY <1>1, <2>5 DEF Alone, KindsApart
    <3>4. \A c \in Callers, v \in Workers : Busy(v)' => job'[v].delivery # opened[c]
        BY <2>5 DEF Alone, KindsApart
    <3>5. ASSUME NEW v \in Workers, Busy(v)', NEW k \in 1 .. Len(jobs')
          PROVE  job'[v].delivery # jobs'[k].delivery
      <4>1. job[v].delivery # d
        BY <1>1, <2>5, <3>5 DEF Alone, WorkersApart
      <4> QED BY <2>5, <3>5, <4>1 DEF Alone, KindsApart
    <3> QED BY <1>4, <3>1, <3>2, <3>3, <3>4, <3>5 DEF Alone, KindsApart
  <2>7. OwnedIsCounted'
    <3>1. \A k \in 1 .. Len(jobs') :
            Pending(jobs'[k].delivery) /\ jobs'[k].attempt = sends[jobs'[k].delivery] + 1
        BY <1>2, <2>5 DEF OwnedIsCounted
    <3> QED BY <1>4, <2>5, <3>1 DEF OwnedIsCounted, WorkerCounts, Pending
  <2>8. RowIsTrue' /\ LogIsTrue'
    BY <1>4 DEF RowIsTrue, LogIsTrue
  <2> QED BY <2>4, <2>6, <2>7, <2>8
<1>6. CASE ~HasRoom
  <2>1. /\ wpc' = [wpc EXCEPT ![w] = "failed"] /\ job' = [job EXCEPT ![w] = next]
        /\ jobs' = jobs
    BY <1>6 DEF Requeue
  <2>2. TypeOK' /\ Locals'
    BY <1>1, <1>3, <2>1 DEF TypeOK, Locals, Busy, tableVars, callerVars, receiverVars
  <2>3. /\ Busy(w)' /\ wpc'[w] = "failed" /\ job'[w] = next
        /\ \A v \in Workers : v # w =>
                Busy(v)' = Busy(v) /\ job'[v] = job[v] /\ wpc'[v] = wpc[v]
    BY <2>1 DEF Busy, TypeOK
  <2>4. Alone'
    BY <1>1, <1>3, <1>4, <2>1, <2>3, AloneShrinks
  <2>5. WorkerCounts(w)'
    BY <1>2, <1>3, <1>4, <2>3 DEF WorkerCounts, Pending
  <2>6. OwnedIsCounted'
    BY <1>4, <2>1, <2>3, <2>5 DEF OwnedIsCounted, WorkerCounts, Pending
  <2>7. RowIsTrue' /\ LogIsTrue'
    BY <1>4 DEF RowIsTrue, LogIsTrue
  <2> QED BY <2>2, <2>4, <2>6, <2>7
<1> QED BY <1>5, <1>6

----------------------------------------------------------------------------
(* A delivery is settled by whoever holds it, and then nobody does.        *)
LEMMA SettleKeeps ==
    ASSUME QueueInv, TypeOK', Locals', Alone',
           NEW d \in DeliveryIds, NEW outcome \in {"delivered", "failed"},
           NEW n \in 0 .. MaxRetries,
           deliveries' \in Updated(d, outcome, n), Pending(d),
           outcome = "delivered" => n = sends[d] /\ received[d] > 0,
           outcome = "failed" => n \in {sends[d], sends[d] + 1},
           UNCHANGED <<jobs, sends, received>>,
           \A c \in Callers : opened'[c] \in DeliveryIds =>
                opened'[c] = opened[c] /\ opened[c] # d,
           \A k \in 1 .. Len(jobs) : jobs[k].delivery # d,
           \A v \in Workers : Busy(v)' =>
                /\ Busy(v) /\ wpc'[v] = wpc[v] /\ job'[v] = job[v]
                /\ job[v].delivery # d
    PROVE  QueueInv'
<1>1. deliveries \in [DeliveryIds -> Row]
    BY DEF QueueInv, TypeOK
<1>2. /\ \A e \in DeliveryIds :
            /\ deliveries'[e].present = deliveries[e].present
            /\ e # d => deliveries'[e] = deliveries[e]
      /\ \/ deliveries'[d] = deliveries[d]
         \/ deliveries'[d].status = outcome /\ deliveries'[d].attempts = n
    BY <1>1, UpdatedType
<1>3. OwnedIsCounted'
  <2>1. \A e \in DeliveryIds : e # d => (Pending(e)' <=> Pending(e))
    BY <1>2 DEF Pending
  <2>2. \A c \in Callers : (opened[c] \in DeliveryIds =>
                            Pending(opened[c]) /\ sends[opened[c]] = 0)'
    BY <2>1 DEF QueueInv, OwnedIsCounted, Pending
  <2>3. \A k \in 1 .. Len(jobs) : (Pending(jobs[k].delivery)
                                /\ jobs[k].attempt = sends[jobs[k].delivery] + 1)'
    BY <2>1, HeldType DEF QueueInv, OwnedIsCounted, Pending
  <2>4. \A v \in Workers : Busy(v)' => WorkerCounts(v)'
    BY <2>1, HeldType DEF QueueInv, OwnedIsCounted, WorkerCounts, Pending
  <2> QED BY <2>2, <2>3, <2>4 DEF OwnedIsCounted
<1>4. RowIsTrue' /\ LogIsTrue'
    BY <1>2 DEF QueueInv, RowIsTrue, LogIsTrue, Pending
<1> QED BY <1>3, <1>4 DEF QueueInv

(* A caller that found the queue full settles what it holds.               *)
LEMMA RecordFullKeeps ==
    ASSUME QueueInv, NEW c \in Callers, RecordFull(c)
    PROVE  QueueInv'
<1> USE DEF QueueInv
<1> DEFINE d == opened[c]
<1>1. /\ cpc[c] = "full" /\ deliveries' \in Updated(d, "failed", 0)
      /\ NextChannel(c, todo[c]) /\ todo[c] \in SUBSET Channels
      /\ UNCHANGED <<channels, alertRows, jobs, enqueued, wpc, job, sends, received,
                     restarts>>
    BY DEF RecordFull, TypeOK, workerVars, receiverVars
<1>2. d \in DeliveryIds /\ Pending(d) /\ sends[d] = 0
    BY <1>1 DEF Locals, OwnedIsCounted
<1>3. 0 \in 0 .. MaxRetries
    BY QueueAssumption
<1>4. deliveries' \in [DeliveryIds -> Row]
    BY <1>1, <1>2, <1>3, UpdatedType DEF TypeOK
<1>5. TypeOK'
    BY <1>1, <1>4, NextChannelType DEF TypeOK
<1>6. Locals'
    BY <1>1, NextChannelType DEF Locals, Busy
<1>7. opened' = [opened EXCEPT ![c] = None]
    BY <1>1, NextChannelType
<1>8. \A e \in Callers : opened'[e] \in {opened[e], None} /\ (e = c => opened'[e] = None)
    BY <1>7 DEF TypeOK
<1>9. Alone'
    BY <1>1, <1>8, AloneShrinks DEF Busy
<1>10. \A e \in Callers : opened'[e] \in DeliveryIds => opened'[e] = opened[e] /\ opened[e] # d
    BY <1>2, <1>8, DeliveryAssumption DEF Alone, CallersApart
<1>11. /\ \A k \in 1 .. Len(jobs) : jobs[k].delivery # d
       /\ \A v \in Workers : Busy(v)' =>
                /\ Busy(v) /\ wpc'[v] = wpc[v] /\ job'[v] = job[v]
                /\ job[v].delivery # d
    BY <1>1 DEF Alone, KindsApart, Busy
<1>12. 0 \in {sends[d], sends[d] + 1}
    BY <1>2
<1> QED
    BY <1>1, <1>2, <1>3, <1>5, <1>6, <1>9, <1>10, <1>11, <1>12, SettleKeeps

(* So does a worker that is done with its job.                             *)
LEMMA RecordResultKeeps ==
    ASSUME QueueInv, NEW w \in Workers, RecordResult(w)
    PROVE  QueueInv'
<1> USE DEF QueueInv
<1> DEFINE d == job[w].delivery
           n == job[w].attempt
<1>1. /\ wpc[w] \in {"delivered", "failed"} /\ Busy(w) /\ job[w] \in Jobs
      /\ deliveries' \in Updated(d, wpc[w], n)
      /\ wpc' = [wpc EXCEPT ![w] = "idle"] /\ job' = [job EXCEPT ![w] = None]
      /\ UNCHANGED <<channels, alertRows, jobs, callerVars, receiverVars, restarts>>
    BY DEF RecordResult, Busy, Locals
<1>2. /\ d \in DeliveryIds /\ n \in 0 .. MaxRetries /\ Pending(d)
      /\ wpc[w] = "delivered" => n = sends[d] /\ received[d] > 0
      /\ wpc[w] = "failed" => n \in {sends[d], sends[d] + 1}
    BY <1>1 DEF OwnedIsCounted, WorkerCounts, Jobs
<1>3. deliveries' \in [DeliveryIds -> Row]
    BY <1>1, <1>2, UpdatedType DEF TypeOK
<1>4. TypeOK' /\ Locals'
    BY <1>1, <1>3 DEF TypeOK, Locals, Busy, callerVars, receiverVars
<1>5. \A v \in Workers : Busy(v)' =>
            /\ Busy(v) /\ v # w /\ wpc'[v] = wpc[v] /\ job'[v] = job[v]
    BY <1>1 DEF Busy, TypeOK
<1>6. UNCHANGED <<opened, jobs, sends, received>>
    BY <1>1 DEF callerVars, receiverVars
<1>7. Alone'
    BY <1>5, <1>6, AloneShrinks
<1>8. /\ \A c \in Callers : opened[c] # d
      /\ \A k \in 1 .. Len(jobs) : jobs[k].delivery # d
      /\ \A v \in Workers : Busy(v) /\ v # w => job[v].delivery # d
    BY <1>1 DEF Alone, KindsApart, WorkersApart
<1> QED BY <1>1, <1>2, <1>4, <1>5, <1>6, <1>7, <1>8, SettleKeeps

(* A restart forgets all that was held.                                    *)
LEMMA RestartKeeps == QueueInv /\ Restart => QueueInv'
<1> SUFFICES ASSUME QueueInv, Restart PROVE QueueInv' OBVIOUS
<1> USE DEF QueueInv
<1>1. /\ \A c \in Callers : cpc'[c] = "idle" /\ opened'[c] = None
      /\ jobs' = <<>> /\ \A w \in Workers : ~Busy(w)' /\ job'[w] = None
      /\ UNCHANGED <<deliveries, sends, received>>
    BY DEF Restart, Busy, tableVars, receiverVars
<1>2. TypeOK'
    BY QueueAssumption DEF Restart, TypeOK, tableVars, receiverVars
<1>3. Locals'
    BY <1>1 DEF Locals
<1>4. Alone'
    BY <1>1, AloneShrinks
<1>5. OwnedIsCounted' /\ RowIsTrue' /\ LogIsTrue'
    BY <1>1, DeliveryAssumption DEF OwnedIsCounted, RowIsTrue, LogIsTrue
<1> QED BY <1>2, <1>3, <1>4, <1>5

(* Every step keeps the invariant.                                         *)
LEMMA QueueStep == QueueInv /\ [Next]_vars => QueueInv'
<1> SUFFICES ASSUME QueueInv, [Next]_vars PROVE QueueInv' OBVIOUS
<1>1. ASSUME NEW c \in Callers, Enqueue(c) PROVE QueueInv'
    BY <1>1, GivesUpKeeps, CreateDeliveryKeeps, OfferKeeps, RecordFullKeeps DEF Enqueue
<1>2. ASSUME NEW w \in Workers, ProcessJob(w) PROVE QueueInv'
    BY <1>2, TakeKeeps, SendKeeps, RequeueKeeps, RecordResultKeeps DEF ProcessJob
<1>3. ASSUME NEW ch \in Channels, CreateChannel(ch) \/ DeleteChannel(ch) PROVE QueueInv'
    BY <1>3, OperatorKeeps
<1>4. ASSUME NEW a \in Alerts, RemoveAlert(a) PROVE QueueInv'
    BY <1>4, OperatorKeeps
<1>5. CASE UNCHANGED vars
  <2>1. UNCHANGED <<channels, alertRows, deliveries, jobs, enqueued, cpc, notification,
                    todo, opened, wpc, job, sends, received, restarts>>
    BY <1>5 DEF vars, tableVars, callerVars, workerVars, receiverVars
  <2>2. TypeOK' /\ Locals'
    BY <2>1 DEF QueueInv, TypeOK, Locals, Busy
  <2> QED BY <2>1, <2>2, QuietKeeps
<1> QED BY <1>1, <1>2, <1>3, <1>4, <1>5, CallKeeps, RestartKeeps DEF Next

----------------------------------------------------------------------------
(* Theorems.                                                               *)
(* The invariant always holds.                                             *)
LEMMA QueueInvariant == Spec => []QueueInv
BY QueueInit, QueueStep, PTL DEF Spec

(* Every reachable state is well typed: the bounded channel is never       *)
(* overfilled, and no delivery is sent more than MaxRetries times.         *)
THEOREM QueueTypeCorrect == Spec => []TypeOK
<1>1. QueueInv => TypeOK
    BY DEF QueueInv
<1> QED BY <1>1, QueueInvariant, PTL

(* Two owners of a delivery are the same.                                  *)
LEMMA OwnersAgree ==
    ASSUME QueueInv, NEW d \in DeliveryIds, NEW o \in Owners(d), NEW p \in Owners(d)
    PROVE  o = p
<1> USE DEF QueueInv
<1> DEFINE Calling(c) == c \in Callers /\ opened[c] = d
           Queued(k) == k \in 1 .. Len(jobs) /\ jobs[k].delivery = d
           Working(w) == w \in Workers /\ Busy(w) /\ job[w].delivery = d
<1>1. ASSUME NEW x \in Owners(d)
      PROVE  \/ \E c \in Callers : Calling(c) /\ x = <<"caller", c>>
             \/ \E k \in 1 .. Len(jobs) : Queued(k) /\ x = <<"queue", k>>
             \/ \E w \in Workers : Working(w) /\ x = <<"worker", w>>
  <2>1. DOMAIN jobs = 1 .. Len(jobs)
    BY DEF TypeOK
  <2>2. \A w \in Workers : job[w] # None => Busy(w)
    BY DEF Locals
  <2> QED BY <2>1, <2>2, Zenon DEF Owners
<1>2. CASE \E c \in Callers : Calling(c)
  <2>1. PICK c \in Callers : Calling(c)
    BY <1>2
  <2>2. \A x \in Callers : Calling(x) => x = c
    BY <2>1 DEF Alone, CallersApart
  <2>3. /\ \A k \in 1 .. Len(jobs) : ~Queued(k)
        /\ \A w \in Workers : ~Working(w)
    BY <2>1 DEF Alone, KindsApart
  <2>4. o = <<"caller", c>> /\ p = <<"caller", c>>
    BY <1>1, <2>2, <2>3
  <2> QED BY <2>4
<1>3. CASE \E k \in 1 .. Len(jobs) : Queued(k)
  <2>1. PICK k \in 1 .. Len(jobs) : Queued(k)
    BY <1>3
  <2>2. \A x \in 1 .. Len(jobs) : Queued(x) => x = k
    BY <2>1 DEF Alone, QueueApart
  <2>3. /\ \A c \in Callers : ~Calling(c)
        /\ \A w \in Workers : ~Working(w)
    BY <2>1 DEF Alone, KindsApart
  <2>4. o = <<"queue", k>> /\ p = <<"queue", k>>
    BY <1>1, <2>2, <2>3
  <2> QED BY <2>4
<1>4. CASE /\ \A c \in Callers : ~Calling(c)
           /\ \A k \in 1 .. Len(jobs) : ~Queued(k)
  <2>1. PICK w \in Workers : Working(w) /\ o = <<"worker", w>>
    BY <1>1, <1>4
  <2>2. PICK v \in Workers : Working(v) /\ p = <<"worker", v>>
    BY <1>1, <1>4
  <2>3. v = w
    BY <2>1, <2>2 DEF Alone, WorkersApart
  <2> QED BY <2>1, <2>2, <2>3
<1> QED BY <1>2, <1>3, <1>4

(* A delivery is never in two places at once, so no two workers send it    *)
(* concurrently, whatever is deleted, fails, is retried or restarted.      *)
THEOREM DeliveryHasOneOwner == Spec => []OneOwner
<1>1. QueueInv => OneOwner
  <2> SUFFICES ASSUME QueueInv, NEW d \in DeliveryIds PROVE Cardinality(Owners(d)) <= 1
    BY DEF OneOwner
  <2>1. CASE Owners(d) = {}
    BY <2>1, FS_EmptySet
  <2>2. CASE \E o : o \in Owners(d)
    <3>1. PICK o : o \in Owners(d)
        BY <2>2
    <3>2. Owners(d) = {o}
        BY <3>1, OwnersAgree
    <3> QED BY <3>2, FS_Singleton
  <2> QED BY <2>1, <2>2
<1> QED BY <1>1, QueueInvariant, PTL

(* The delivery log tells what happened, for any faults and restarts.      *)
THEOREM LogTellsTheTruth == Spec => []LogIsTrue
<1>1. QueueInv => LogIsTrue
    BY DEF QueueInv
<1> QED BY <1>1, QueueInvariant, PTL

----------------------------------------------------------------------------
(* Refinement.                                                             *)

(* A step of the queue that settles a delivery, or whose error nobody      *)
(* handles, is a step of the ledger or none.                               *)
LEMMA SettleIsLedgers ==
    ASSUME QueueInv, NEW d \in DeliveryIds, NEW outcome \in {"delivered", "failed"},
           NEW n \in 0 .. MaxRetries,
           deliveries' \in Updated(d, outcome, n), Pending(d),
           outcome = "delivered" => received[d] > 0,
           UNCHANGED <<sends, received>>
    PROVE  [Ledger!Next]_(Ledger!vars)
<1>1. deliveries \in [DeliveryIds -> Row]
    BY DEF QueueInv, TypeOK
<1>2. /\ deliveries' \in [DeliveryIds -> Row]
      /\ \A e \in DeliveryIds :
            /\ deliveries'[e].present = deliveries[e].present
            /\ e # d => deliveries'[e] = deliveries[e]
      /\ \/ deliveries'[d] = deliveries[d]
         \/ deliveries[d].present /\ deliveries'[d].status = outcome
    BY <1>1, UpdatedType
<1> DEFINE st == [e \in DeliveryIds |-> deliveries[e].status]
           pr == [e \in DeliveryIds |-> deliveries[e].present]
<1>3. pr' = pr
    BY <1>2
<1>4. CASE deliveries'[d] = deliveries[d]
  <2>1. st' = st
    BY <1>2, <1>4
  <2> QED BY <1>3, <2>1 DEF Ledger!vars
<1>5. CASE deliveries[d].present /\ deliveries'[d].status = outcome
  <2>1. st' = [st EXCEPT ![d] = outcome]
    BY <1>2, <1>5
  <2>2. Ledger!Settle(d, outcome)
    BY <1>3, <1>5, <2>1 DEF Ledger!Settle, Pending
  <2> QED BY <2>2 DEF Ledger!Next
<1> QED BY <1>2, <1>4, <1>5

(* At the start the ledger is empty.                                       *)
LEMMA LedgerInit == Init => Ledger!Init
BY DEF Init, Ledger!Init, NoRow

(* Every step is one of the ledger, or none.                               *)
LEMMA LedgerStep == QueueInv /\ [Next]_vars => [Ledger!Next]_(Ledger!vars)
<1> SUFFICES ASSUME QueueInv, [Next]_vars PROVE [Ledger!Next]_(Ledger!vars) OBVIOUS
<1> DEFINE st == [e \in DeliveryIds |-> deliveries[e].status]
           pr == [e \in DeliveryIds |-> deliveries[e].present]
<1>0. deliveries \in [DeliveryIds -> Row]
    BY DEF QueueInv, TypeOK
<1>1. CASE UNCHANGED <<deliveries, sends, received>>
    BY <1>1 DEF Ledger!vars
<1>2. ASSUME NEW c \in Callers, CreateDelivery(c) PROVE Ledger!Next
  <2>1. PICK ch \in todo[c], d \in Fresh :
            deliveries' = [deliveries EXCEPT ![d] =
                [status |-> "pending", present |-> TRUE, attempts |-> 0,
                 channel |-> ch, alert |-> notification[c].alert]]
    BY <1>2 DEF CreateDelivery
  <2>2. d \in DeliveryIds /\ deliveries[d].status = "none"
    BY DEF Fresh
  <2>3. st' = [st EXCEPT ![d] = "pending"] /\ pr' = [pr EXCEPT ![d] = TRUE]
    BY <1>0, <2>1, <2>2
  <2>4. UNCHANGED <<sends, received>>
    BY <1>2 DEF CreateDelivery, receiverVars
  <2>5. Ledger!Open(d)
    BY <2>2, <2>3, <2>4 DEF Ledger!Open
  <2> QED BY <2>2, <2>5 DEF Ledger!Next
<1>3. ASSUME NEW c \in Callers, RecordFull(c) PROVE [Ledger!Next]_(Ledger!vars)
  <2>1. /\ deliveries' \in Updated(opened[c], "failed", 0)
        /\ UNCHANGED <<sends, received>>
    BY <1>3 DEF RecordFull, receiverVars
  <2>2. opened[c] \in DeliveryIds /\ Pending(opened[c])
    BY <1>3 DEF RecordFull, QueueInv, Locals, OwnedIsCounted
  <2>3. 0 \in 0 .. MaxRetries
    BY QueueAssumption
  <2> QED BY <2>1, <2>2, <2>3, SettleIsLedgers
<1>4. ASSUME NEW w \in Workers, SendSucceeds(w) \/ SendFails(w) PROVE Ledger!Next
  <2> DEFINE d == job[w].delivery
  <2>1. wpc[w] = "send" /\ Busy(w) /\ job[w] \in Jobs
    BY <1>4 DEF SendSucceeds, SendFails, Busy, QueueInv, Locals
  <2>2. /\ d \in DeliveryIds /\ Pending(d) /\ job[w].attempt = sends[d] + 1
        /\ job[w].attempt \in 1 .. MaxRetries
    BY <2>1 DEF QueueInv, OwnedIsCounted, WorkerCounts, Jobs
  <2>3. sends[d] < MaxRetries
    BY <2>2, QueueAssumption DEF QueueInv, TypeOK
  <2>4. /\ sends' = [sends EXCEPT ![d] = @ + 1]
        /\ received' = [received EXCEPT ![d] = @ + 1] \/ received' = received
        /\ UNCHANGED deliveries
    BY <1>4 DEF SendSucceeds, SendFails, Sent, Reached, tableVars
  <2>5. Ledger!Attempt(d)
    BY <2>2, <2>3, <2>4 DEF Ledger!Attempt, Pending
  <2> QED BY <2>2, <2>5 DEF Ledger!Next
<1>5. ASSUME NEW w \in Workers, RecordResult(w) PROVE [Ledger!Next]_(Ledger!vars)
  <2>1. /\ wpc[w] \in {"delivered", "failed"} /\ Busy(w) /\ job[w] \in Jobs
        /\ deliveries' \in Updated(job[w].delivery, wpc[w], job[w].attempt)
        /\ UNCHANGED <<sends, received>>
    BY <1>5 DEF RecordResult, Busy, QueueInv, Locals, receiverVars
  <2>2. /\ job[w].delivery \in DeliveryIds /\ job[w].attempt \in 0 .. MaxRetries
        /\ Pending(job[w].delivery)
        /\ wpc[w] = "delivered" => received[job[w].delivery] > 0
    BY <2>1 DEF QueueInv, OwnedIsCounted, WorkerCounts, Jobs
  <2> QED BY <2>1, <2>2, SettleIsLedgers
<1>6. ASSUME NEW gone, deliveries' = Without(gone), UNCHANGED <<sends, received>>
      PROVE  Ledger!Next
  <2>1. /\ st' = st
        /\ pr' = [d \in DeliveryIds |-> pr[d] /\ d \notin gone \cap DeliveryIds]
    BY <1>0, <1>6, WithoutType
  <2>2. gone \cap DeliveryIds \in SUBSET DeliveryIds
    OBVIOUS
  <2>3. Ledger!Remove(gone \cap DeliveryIds)
    BY <1>6, <2>1 DEF Ledger!Remove
  <2> QED BY <2>2, <2>3 DEF Ledger!Next
<1>7. ASSUME NEW c \in Callers, Enqueue(c) PROVE [Ledger!Next]_(Ledger!vars)
    BY <1>1, <1>2, <1>3, <1>7
    DEF Enqueue, ListChannels, CreateDeliveryFails, Offer, tableVars, receiverVars
<1>8. ASSUME NEW w \in Workers, ProcessJob(w) PROVE [Ledger!Next]_(Ledger!vars)
    BY <1>1, <1>4, <1>5, <1>8 DEF ProcessJob, Take, Requeue, tableVars, receiverVars
<1>9. ASSUME \/ \E c \in Callers, n \in Notifications : Call(c, n)
             \/ \E ch \in Channels : CreateChannel(ch)
             \/ Restart \/ UNCHANGED vars
      PROVE  UNCHANGED <<deliveries, sends, received>>
    BY <1>9 DEF Call, CreateChannel, Restart, vars, tableVars, receiverVars
<1>10. ASSUME \/ \E ch \in Channels : DeleteChannel(ch)
              \/ \E a \in Alerts : RemoveAlert(a)
       PROVE  Ledger!Next
    BY <1>6, <1>10 DEF DeleteChannel, RemoveAlert, receiverVars
<1> QED BY <1>1, <1>7, <1>8, <1>9, <1>10 DEF Next

(* Every behaviour of the queue, with its faults, cascades and restarts,   *)
(* is one of the ledger: no delivery is sent more than MaxRetries times,   *)
(* settled twice, or sent after it was settled.                            *)
THEOREM QueueImplementsLedger == Spec => LedgerSpec
BY QueueInvariant, LedgerInit, LedgerStep, PTL DEF Spec, LedgerSpec, Ledger!Spec

----------------------------------------------------------------------------
(* Nobody is forgotten: without crashes, and while inserts and updates do  *)
(* not fail, a delivery changes hands but is not dropped.                  *)

Reliable == restarts = 0 /\ Faults \cap {"create", "update"} = {}
Awaits(d) == Pending(d) /\ deliveries[d].present
Owned(d) ==
    \/ \E c \in Callers : opened[c] = d
    \/ \E k \in 1 .. Len(jobs) : jobs[k].delivery = d
    \/ \E w \in Workers : Busy(w) /\ job[w].delivery = d
NoneForgotten == Reliable => \A d \in DeliveryIds : Awaits(d) => Owned(d)

(* A step that settles x, and takes it from whoever holds it.              *)
LEMMA SettledIsOver ==
    ASSUME QueueInv, Reliable, NEW x \in DeliveryIds, Pending(x),
           NEW outcome \in {"delivered", "failed"}, NEW n \in 0 .. MaxRetries,
           deliveries' \in Updated(x, outcome, n),
           \A d \in DeliveryIds : Awaits(d) => Owned(d),
           \A d \in DeliveryIds : d # x /\ Owned(d) => Owned(d)'
    PROVE  \A d \in DeliveryIds : Awaits(d)' => Owned(d)'
<1>1. deliveries \in [DeliveryIds -> Row]
    BY DEF QueueInv, TypeOK
<1>2. deliveries' = IF deliveries[x].present
                    THEN [deliveries EXCEPT ![x].status = outcome, ![x].attempts = n]
                    ELSE deliveries
    BY DEF Updated, Reliable
<1>3. ~Awaits(x)'
    BY <1>1, <1>2 DEF Awaits, Pending, Row
<1>4. \A d \in DeliveryIds : d # x => deliveries'[d] = deliveries[d]
    BY <1>1, <1>2
<1> QED BY <1>3, <1>4 DEF Awaits, Pending

(* A step that settles nothing, and hands on what it takes.                *)
LEMMA HandedOn ==
    ASSUME \A d \in DeliveryIds : Awaits(d) => Owned(d),
           \A d \in DeliveryIds :
                /\ deliveries'[d].status = deliveries[d].status
                /\ deliveries'[d].present => deliveries[d].present,
           \A d \in DeliveryIds : Owned(d) => Owned(d)'
    PROVE  \A d \in DeliveryIds : Awaits(d)' => Owned(d)'
BY DEF Awaits, Pending

(* No caller leaves a pending delivery to nobody.                          *)
LEMMA CallersForgetNone ==
    ASSUME QueueInv, Reliable, \A d \in DeliveryIds : Awaits(d) => Owned(d),
           NEW c \in Callers, Enqueue(c)
    PROVE  \A d \in DeliveryIds : Awaits(d)' => Owned(d)'
<1> USE DEF QueueInv
<1>1. CASE ListChannels(c) \/ CreateDeliveryFails(c)
  <2>1. PICK rest \in SUBSET Channels : NextChannel(c, rest)
    BY <1>1 DEF ListChannels, CreateDeliveryFails, Enabled, TypeOK
  <2>2. /\ cpc[c] \in {"list", "create"} /\ UNCHANGED <<deliveries, jobs, wpc, job>>
        /\ opened' = [opened EXCEPT ![c] = None]
    BY <1>1, <2>1 DEF ListChannels, CreateDeliveryFails, tableVars, workerVars, NextChannel
  <2>3. opened' = opened
    BY <2>2 DEF Locals, TypeOK
  <2> QED BY <2>2, <2>3, HandedOn DEF Owned, Busy
<1>2. CASE CreateDelivery(c)
  <2>1. PICK ch \in todo[c], x \in Fresh :
            /\ deliveries' = [deliveries EXCEPT ![x] =
                    [status |-> "pending", present |-> TRUE, attempts |-> 0,
                     channel |-> ch, alert |-> notification[c].alert]]
            /\ opened' = [opened EXCEPT ![c] = x]
    BY <1>2 DEF CreateDelivery, Reliable
  <2>2. cpc[c] = "create" /\ UNCHANGED <<jobs, wpc, job>>
    BY <1>2 DEF CreateDelivery, workerVars
  <2>3. opened[c] = None /\ opened'[c] = x /\ x \in DeliveryIds
    BY <2>1, <2>2 DEF Locals, TypeOK, Fresh
  <2>4. \A d \in DeliveryIds : d # x => deliveries'[d] = deliveries[d]
    BY <2>1 DEF TypeOK
  <2>5. \A d \in DeliveryIds : Owned(d) => Owned(d)'
    BY <2>1, <2>2, <2>3, DeliveryAssumption DEF Owned, Busy, TypeOK
  <2>6. Owned(x)'
    BY <2>3 DEF Owned
  <2> QED BY <2>4, <2>5, <2>6 DEF Awaits, Pending
<1>3. CASE Offer(c)
  <2>1. UNCHANGED <<deliveries, wpc, job>> /\ opened[c] \in DeliveryIds
    BY <1>3 DEF Offer, tableVars, workerVars, Locals
  <2>2. CASE ~HasRoom
    BY <1>3, <2>1, <2>2, HandedOn DEF Offer, Owned, Busy
  <2>3. CASE HasRoom
    <3>1. [delivery |-> opened[c], attempt |-> 1] \in Jobs
        BY <2>1, QueueAssumption DEF Jobs
    <3>2. /\ Len(jobs) \in Nat /\ Len(jobs') = Len(jobs) + 1
          /\ jobs'[Len(jobs) + 1].delivery = opened[c]
          /\ \A k \in 1 .. Len(jobs) : jobs'[k] = jobs[k]
        BY <1>3, <2>3, <3>1, AppendOf DEF Offer, TypeOK
    <3>3. \A e \in Callers : e # c => opened'[e] = opened[e]
        BY <1>3, <2>3 DEF Offer, NextChannel, TypeOK
    <3>4. \A d \in DeliveryIds : Owned(d) => Owned(d)'
        BY <2>1, <3>2, <3>3 DEF Owned, Busy
    <3> QED BY <2>1, <3>4, HandedOn
  <2> QED BY <2>2, <2>3
<1>4. CASE RecordFull(c)
  <2>1. /\ opened[c] \in DeliveryIds /\ Pending(opened[c]) /\ 0 \in 0 .. MaxRetries
        /\ deliveries' \in Updated(opened[c], "failed", 0)
        /\ UNCHANGED <<jobs, wpc, job>>
    BY <1>4, QueueAssumption DEF RecordFull, Locals, OwnedIsCounted, workerVars
  <2>2. \A e \in Callers : e # c => opened'[e] = opened[e]
    BY <1>4 DEF RecordFull, NextChannel, TypeOK
  <2>3. \A d \in DeliveryIds : d # opened[c] /\ Owned(d) => Owned(d)'
    BY <2>1, <2>2 DEF Owned, Busy
  <2> QED BY <2>1, <2>3, SettledIsOver
<1> QED BY <1>1, <1>2, <1>3, <1>4 DEF Enqueue

(* Nor does a worker.                                                      *)
LEMMA WorkersForgetNone ==
    ASSUME QueueInv, Reliable, \A d \in DeliveryIds : Awaits(d) => Owned(d),
           NEW w \in Workers, ProcessJob(w)
    PROVE  \A d \in DeliveryIds : Awaits(d)' => Owned(d)'
<1> USE DEF QueueInv
<1>1. CASE Take(w)
  <2>1. /\ UNCHANGED <<deliveries, opened>> /\ wpc[w] = "idle" /\ wpc'[w] = "send"
        /\ \A v \in Workers : v # w => wpc'[v] = wpc[v] /\ job'[v] = job[v]
    BY <1>1 DEF Take, tableVars, callerVars, TypeOK
  <2>2. /\ job'[w] = jobs[1] /\ Len(jobs) \in Nat /\ Len(jobs') = Len(jobs) - 1
        /\ \A k \in 1 .. Len(jobs') : jobs'[k] = jobs[k + 1]
    BY <1>1, TailOf DEF Take, TypeOK
  <2>3. ASSUME NEW d \in DeliveryIds,
               NEW k \in 1 .. Len(jobs), jobs[k].delivery = d
        PROVE  Owned(d)'
    <3>1. CASE k = 1
      <4>1. wpc'[w] = "send" /\ job'[w].delivery = d
        BY <2>1, <2>2, <2>3, <3>1
      <4> QED BY <4>1 DEF Owned, Busy
    <3>2. CASE k # 1
      <4>1. k - 1 \in 1 .. Len(jobs') /\ jobs'[k - 1].delivery = d
        BY <2>2, <2>3, <3>2
      <4> QED BY <4>1 DEF Owned
    <3> QED BY <3>1, <3>2
  <2>4. \A d \in DeliveryIds : Owned(d) => Owned(d)'
    BY <2>1, <2>3 DEF Owned, Busy
  <2> QED BY <2>1, <2>4, HandedOn
<1>2. CASE SendSucceeds(w) \/ SendFails(w)
  <2>1. /\ UNCHANGED <<deliveries, opened, jobs, job>>
        /\ \A v \in Workers : Busy(v) => Busy(v)'
    BY <1>2 DEF SendSucceeds, SendFails, tableVars, callerVars, Busy, TypeOK
  <2> QED BY <2>1, HandedOn DEF Owned
<1>3. CASE Requeue(w)
  <2> DEFINE next == [job[w] EXCEPT !.attempt = @ + 1]
  <2>1. /\ UNCHANGED <<deliveries, opened>> /\ wpc[w] = "pause" /\ Busy(w)
        /\ job[w] \in Jobs
    BY <1>3 DEF Requeue, tableVars, callerVars, Busy, Locals
  <2>2. next.delivery = job[w].delivery
    BY <2>1 DEF Jobs
  <2>3. CASE HasRoom
    <3>1. /\ Len(jobs) \in Nat /\ Len(jobs') = Len(jobs) + 1
          /\ jobs'[Len(jobs) + 1].delivery = job[w].delivery
          /\ \A k \in 1 .. Len(jobs) : jobs'[k] = jobs[k]
      <4>1. jobs' = Append(jobs, next) /\ jobs \in Seq(Jobs)
        BY <1>3, <2>3 DEF Requeue, TypeOK
      <4> HIDE DEF next
      <4> QED BY <2>2, <4>1
    <3>2. \A v \in Workers : v # w => wpc'[v] = wpc[v] /\ job'[v] = job[v]
        BY <1>3, <2>3 DEF Requeue, TypeOK
    <3>3. \A d \in DeliveryIds : Owned(d) => Owned(d)'
        BY <2>1, <3>1, <3>2 DEF Owned, Busy
    <3> QED BY <2>1, <3>3, HandedOn
  <2>4. CASE ~HasRoom
    <3>1. /\ jobs' = jobs /\ wpc'[w] = "failed" /\ job'[w].delivery = job[w].delivery
          /\ \A v \in Workers : v # w => wpc'[v] = wpc[v] /\ job'[v] = job[v]
        BY <1>3, <2>2, <2>4 DEF Requeue, TypeOK
    <3>2. \A d \in DeliveryIds : Owned(d) => Owned(d)'
        BY <2>1, <3>1 DEF Owned, Busy
    <3> QED BY <2>1, <3>2, HandedOn
  <2> QED BY <2>3, <2>4
<1>4. CASE RecordResult(w)
  <2> DEFINE x == job[w].delivery
  <2>1. /\ wpc[w] \in {"delivered", "failed"} /\ Busy(w) /\ job[w] \in Jobs
        /\ deliveries' \in Updated(x, wpc[w], job[w].attempt)
        /\ UNCHANGED <<opened, jobs>>
    BY <1>4 DEF RecordResult, Busy, Locals, callerVars
  <2>2. x \in DeliveryIds /\ job[w].attempt \in 0 .. MaxRetries /\ Pending(x)
    BY <2>1 DEF OwnedIsCounted, WorkerCounts, Jobs
  <2>3. \A v \in Workers : v # w => wpc'[v] = wpc[v] /\ job'[v] = job[v]
    BY <1>4 DEF RecordResult, TypeOK
  <2>4. \A d \in DeliveryIds : d # x /\ Owned(d) => Owned(d)'
    BY <2>1, <2>3 DEF Owned, Busy
  <2> QED BY <2>1, <2>2, <2>4, SettledIsOver
<1> QED BY <1>1, <1>2, <1>3, <1>4 DEF ProcessJob

(* Nor does any step, without crashes and failing statements.              *)
LEMMA NoneForgottenStep == QueueInv /\ NoneForgotten /\ [Next]_vars => NoneForgotten'
<1> SUFFICES ASSUME QueueInv, NoneForgotten, [Next]_vars, Reliable'
             PROVE  (\A d \in DeliveryIds : Awaits(d) => Owned(d))'
    BY DEF NoneForgotten
<1>1. restarts \in Nat
    BY QueueAssumption DEF QueueInv, TypeOK
<1>2. CASE Restart
    BY <1>1, <1>2 DEF Restart, Reliable
<1>3. CASE UNCHANGED restarts
  <2>1. Reliable /\ \A d \in DeliveryIds : Awaits(d) => Owned(d)
    BY <1>3 DEF Reliable, NoneForgotten
  <2>2. ASSUME NEW c \in Callers, Enqueue(c)
        PROVE  (\A d \in DeliveryIds : Awaits(d) => Owned(d))'
    BY <2>1, <2>2, CallersForgetNone
  <2>3. ASSUME NEW w \in Workers, ProcessJob(w)
        PROVE  (\A d \in DeliveryIds : Awaits(d) => Owned(d))'
    BY <2>1, <2>3, WorkersForgetNone
  <2>4. ASSUME UNCHANGED <<opened, jobs, wpc, job>>,
               deliveries' = deliveries \/ \E gone : deliveries' = Without(gone)
        PROVE  (\A d \in DeliveryIds : Awaits(d) => Owned(d))'
    <3>1. deliveries \in [DeliveryIds -> Row]
        BY DEF QueueInv, TypeOK
    <3>2. \A d \in DeliveryIds :
            /\ deliveries'[d].status = deliveries[d].status
            /\ deliveries'[d].present => deliveries[d].present
        BY <2>4, <3>1, WithoutType
    <3>3. \A d \in DeliveryIds : Owned(d) => Owned(d)'
        BY <2>4 DEF Owned, Busy
    <3> QED BY <2>1, <3>2, <3>3, HandedOn
  <2>5. ASSUME NEW c \in Callers, NEW n \in Notifications, Call(c, n)
        PROVE  (\A d \in DeliveryIds : Awaits(d) => Owned(d))'
    BY <2>4, <2>5 DEF Call, tableVars, workerVars
  <2>6. ASSUME NEW ch \in Channels, CreateChannel(ch) \/ DeleteChannel(ch)
        PROVE  (\A d \in DeliveryIds : Awaits(d) => Owned(d))'
    BY <2>4, <2>6 DEF CreateChannel, DeleteChannel, callerVars, workerVars
  <2>7. ASSUME NEW a \in Alerts, RemoveAlert(a)
        PROVE  (\A d \in DeliveryIds : Awaits(d) => Owned(d))'
    BY <2>4, <2>7 DEF RemoveAlert, callerVars, workerVars
  <2>8. CASE UNCHANGED vars
    BY <2>4, <2>8 DEF vars, tableVars, callerVars, workerVars
  <2>9. CASE Restart
    BY <1>2, <2>9
  <2> QED BY <2>2, <2>3, <2>5, <2>6, <2>7, <2>8, <2>9 DEF Next
<1>4. Restart \/ UNCHANGED restarts
    BY DEF Next, Enqueue, ListChannels, CreateDeliveryFails, CreateDelivery, Offer,
           RecordFull, ProcessJob, Take, SendSucceeds, SendFails, Requeue, RecordResult,
           Call, CreateChannel, DeleteChannel, RemoveAlert, vars
<1> QED BY <1>2, <1>3, <1>4

(* Without crashes and failing inserts or updates, a delivery that is      *)
(* pending has somebody who will settle it, however full the queue gets.   *)
THEOREM PendingIsOwned == Spec => []PendingHasOwner
<1>1. Init => NoneForgotten
    BY DEF Init, NoneForgotten, Awaits, Pending, NoRow
<1>2. QueueInv /\ NoneForgotten => PendingHasOwner
  <2> SUFFICES ASSUME QueueInv, Reliable, NEW d \in DeliveryIds, Owned(d)
               PROVE  Owners(d) # {}
    BY DEF NoneForgotten, PendingHasOwner, Reliable, Awaits, Pending
  <2>1. DOMAIN jobs = 1 .. Len(jobs)
    BY DEF QueueInv, TypeOK
  <2>2. \A w \in Workers : Busy(w) => job[w] # None
    BY JobsAssumption DEF QueueInv, Locals
  <2>3. CASE \E c \in Callers : opened[c] = d
    BY <2>3, Zenon DEF Owners
  <2>4. CASE \E k \in 1 .. Len(jobs) : jobs[k].delivery = d
    BY <2>1, <2>4, Zenon DEF Owners
  <2>5. CASE \E w \in Workers : Busy(w) /\ job[w].delivery = d
    BY <2>2, <2>5, Zenon DEF Owners
  <2> QED BY <2>3, <2>4, <2>5 DEF Owned
<1> QED BY <1>1, <1>2, NoneForgottenStep, QueueInvariant, PTL DEF Spec
=============================================================================
