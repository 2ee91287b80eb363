--------------------------- MODULE EventHubProofs ---------------------------
(***************************************************************************)
(* Proofs about EventHub, for any connections, any capacities of its       *)
(* channels and any number of events: the hub never sends on a channel it  *)
(* has closed, never closes one twice, and overfills none.                 *)
(***************************************************************************)
EXTENDS EventHub, DataLemmas

(* The parts of the types the argument needs.                              *)
HubTypes ==
    /\ clients \in SUBSET Clients
    /\ closed \in SUBSET Clients
    /\ register \in Seq(Clients)
    /\ unregister \in Seq(Clients)
    /\ pc \in [Clients -> {"new", "stream", "leave", "gone"}]

(* A connection is registered once in its life: before its handler queues  *)
(* it, it is nowhere, and while it is queued, it is in the queue only.     *)
NewIsNowhere == \A c \in Clients : pc[c] = "new" => c \notin clients \cup closed
QueuedOnce ==
    \A k \in 1 .. Len(register) :
        /\ pc[register[k]] # "new"
        /\ register[k] \notin clients \cup closed
        /\ \A l \in 1 .. Len(register) : register[l] = register[k] => l = k

HubInv == HubTypes /\ NewIsNowhere /\ QueuedOnce /\ RegisteredIsOpen

(* What taking the first element leaves of a queue.                        *)
LEMMA TailOf ==
    ASSUME NEW s \in Seq(Clients), s # <<>>
    PROVE  /\ Head(s) = s[1] /\ Head(s) \in Clients /\ 1 \in 1 .. Len(s)
           /\ Tail(s) \in Seq(Clients) /\ Len(Tail(s)) = Len(s) - 1
           /\ \A k \in 1 .. Len(Tail(s)) : /\ k + 1 \in 1 .. Len(s)
                                           /\ Tail(s)[k] = s[k + 1]
OBVIOUS

(* Nobody has connected yet.                                               *)
LEMMA HubInit == Init => HubInv
BY DEF Init, HubInv, HubTypes, NewIsNowhere, QueuedOnce, RegisteredIsOpen

(* Register moves the head of the queue to the clients: it is in neither   *)
(* set yet, and nowhere else in the queue.                                 *)
LEMMA RegisterKeeps == HubInv /\ Register => HubInv'
<1> SUFFICES ASSUME HubInv, Register PROVE HubInv' OBVIOUS
<1> USE DEF HubInv
<1>1. /\ register # <<>> /\ register' = Tail(register)
      /\ clients' = clients \cup {Head(register)}
      /\ UNCHANGED <<closed, unregister, pc>>
    BY DEF Register
<1>2. /\ Head(register) = register[1] /\ Head(register) \in Clients
      /\ 1 \in 1 .. Len(register)
      /\ Tail(register) \in Seq(Clients) /\ Len(Tail(register)) = Len(register) - 1
      /\ \A k \in 1 .. Len(Tail(register)) :
            k + 1 \in 1 .. Len(register) /\ Tail(register)[k] = register[k + 1]
    BY <1>1, TailOf DEF HubTypes
<1>3. Head(register) \notin clients \cup closed /\ pc[Head(register)] # "new"
    BY <1>2 DEF QueuedOnce
<1>4. HubTypes' /\ NewIsNowhere' /\ RegisteredIsOpen'
    BY <1>1, <1>2, <1>3 DEF HubTypes, NewIsNowhere, RegisteredIsOpen
<1>5. QueuedOnce'
  <2> SUFFICES ASSUME NEW k \in 1 .. Len(Tail(register))
               PROVE  /\ pc[Tail(register)[k]] # "new"
                      /\ Tail(register)[k] \notin clients' \cup closed
                      /\ \A l \in 1 .. Len(Tail(register)) :
                            Tail(register)[l] = Tail(register)[k] => l = k
    BY <1>1 DEF QueuedOnce
  <2>1. register[k + 1] # register[1]
    BY <1>2 DEF QueuedOnce
  <2>2. ASSUME NEW l \in 1 .. Len(Tail(register)),
               Tail(register)[l] = Tail(register)[k]
        PROVE  l = k
    <3>1. l + 1 \in 1 .. Len(register) /\ k + 1 \in 1 .. Len(register)
          /\ register[l + 1] = register[k + 1]
        BY <1>2, <2>2
    <3>2. l + 1 = k + 1
        BY <3>1 DEF QueuedOnce
    <3> QED BY <3>2
  <2> QED BY <1>1, <1>2, <2>1, <2>2 DEF QueuedOnce
<1> QED BY <1>4, <1>5

(* Subscribe queues a connection that is new, so it is nowhere yet.        *)
LEMMA SubscribeKeeps ==
    ASSUME HubInv, NEW c \in Clients, Subscribe(c)
    PROVE  HubInv'
<1> USE DEF HubInv
<1>1. /\ pc[c] = "new" /\ pc' = [pc EXCEPT ![c] = "stream"]
      /\ register' = Append(register, c)
      /\ UNCHANGED <<clients, closed, unregister>>
    BY DEF Subscribe, hubVars
<1>2. /\ register' \in Seq(Clients) /\ Len(register') = Len(register) + 1
      /\ register'[Len(register) + 1] = c
      /\ \A k \in 1 .. Len(register) : register'[k] = register[k] /\ register[k] \in Clients
      /\ Len(register) \in Nat
    BY <1>1 DEF HubTypes
<1>3. c \notin clients \cup closed
    BY <1>1 DEF NewIsNowhere
<1>4. \A k \in 1 .. Len(register) : register[k] # c
    BY <1>1 DEF QueuedOnce
<1>5. HubTypes' /\ NewIsNowhere' /\ RegisteredIsOpen'
    BY <1>1, <1>2 DEF HubTypes, NewIsNowhere, RegisteredIsOpen
<1>6. ASSUME NEW k \in 1 .. Len(register')
      PROVE  /\ pc'[register'[k]] # "new"
             /\ register'[k] \notin clients \cup closed
             /\ \A l \in 1 .. Len(register') : register'[l] = register'[k] => l = k
  <2>1. CASE k = Len(register) + 1
    BY <1>1, <1>2, <1>3, <1>4, <2>1 DEF HubTypes
  <2>2. CASE k \in 1 .. Len(register)
    BY <1>1, <1>2, <1>4, <2>2 DEF HubTypes, QueuedOnce
  <2> QED BY <1>2, <2>1, <2>2
<1>7. QueuedOnce'
    BY <1>1, <1>6 DEF QueuedOnce
<1> QED BY <1>5, <1>7

(* Unregister and Stop close the channels of clients only, and drop those. *)
LEMMA ClosingKeeps == HubInv /\ (Unregister \/ Stop) => HubInv'
<1> SUFFICES ASSUME HubInv, Unregister \/ Stop PROVE HubInv' OBVIOUS
<1> USE DEF HubInv
<1>1. /\ clients' \subseteq clients
      /\ closed' \subseteq closed \cup (clients \ clients')
      /\ unregister' \in Seq(Clients)
      /\ UNCHANGED <<register, pc>>
  <2>1. CASE Unregister
    BY <2>1, TailOf DEF Unregister, HubTypes
  <2>2. CASE Stop
    BY <2>2 DEF Stop, HubTypes
  <2> QED BY <2>1, <2>2
<1> QED BY <1>1 DEF HubTypes, NewIsNowhere, QueuedOnce, RegisteredIsOpen

(* A handler's step takes it out of "new" at most.                         *)
LEMMA HandlerKeeps ==
    ASSUME HubInv, UNCHANGED <<clients, closed, register>>,
           unregister' \in Seq(Clients),
           pc' \in [Clients -> {"new", "stream", "leave", "gone"}],
           \A c \in Clients : pc'[c] = "new" => pc[c] = "new"
    PROVE  HubInv'
<1>1. \A k \in 1 .. Len(register) : register[k] \in Clients
    BY DEF HubInv, HubTypes
<1> QED BY <1>1 DEF HubInv, HubTypes, NewIsNowhere, QueuedOnce, RegisteredIsOpen

(* HubInv is inductive.                                                    *)
LEMMA HubStep == HubInv /\ [Next]_vars => HubInv'
<1> SUFFICES ASSUME HubInv, [Next]_vars PROVE HubInv' OBVIOUS
<1>1. CASE Register
    BY <1>1, RegisterKeeps
<1>2. CASE Unregister \/ Stop
    BY <1>2, ClosingKeeps
<1>3. CASE Broadcast \/ Ping \/ Publish \/ UNCHANGED vars
    BY <1>3, HandlerKeeps
    DEF Broadcast, Ping, Publish, vars, hubVars, HubInv, HubTypes
<1>4. ASSUME NEW c \in Clients, Subscribe(c) PROVE HubInv'
    BY <1>4, SubscribeKeeps
<1>5. ASSUME NEW c \in Clients, Serve(c) \/ Disconnect(c) PROVE HubInv'
  <2>1. /\ UNCHANGED <<clients, closed, register>>
        /\ unregister' \in {unregister, Append(unregister, c)}
        /\ pc' \in {pc, [pc EXCEPT ![c] = "leave"], [pc EXCEPT ![c] = "gone"]}
    BY <1>5
    DEF Serve, Receive, ReceiveClosed, Unsubscribe, Disconnect, hubVars
  <2>2. unregister' \in Seq(Clients)
    BY <2>1 DEF HubInv, HubTypes
  <2>3. pc' \in [Clients -> {"new", "stream", "leave", "gone"}]
    BY <2>1 DEF HubInv, HubTypes
  <2>4. \A d \in Clients : pc'[d] = "new" => pc[d] = "new"
    BY <2>1 DEF HubInv, HubTypes
  <2> QED BY <2>1, <2>2, <2>3, <2>4, HandlerKeeps
<1> QED BY <1>1, <1>2, <1>3, <1>4, <1>5 DEF Next

(* The hub never sends on a channel it has closed and never closes one     *)
(* twice, either of which would panic, in whatever order registrations,    *)
(* deregistrations and the stop are processed.                             *)
THEOREM NoSendOnClosed == Spec => []RegisteredIsOpen
<1>1. HubInv => RegisteredIsOpen
    BY DEF HubInv
<1> QED BY <1>1, HubInit, HubStep, PTL DEF Spec

----------------------------------------------------------------------------
(* Type correctness: no channel exceeds its capacity, whoever fills it.    *)
HubTypeInv == TypeOK /\ Len(broadcast) <= accepted

(* What a queue is after one element was appended or taken.                *)
LEMMA QueueGrows ==
    ASSUME NEW S, NEW s \in Seq(S), NEW x \in S
    PROVE  Append(s, x) \in Seq(S) /\ Len(Append(s, x)) = Len(s) + 1
OBVIOUS

(* What is left of a queue whose head was taken.                           *)
LEMMA QueueShrinks ==
    ASSUME NEW S, NEW s \in Seq(S), s # <<>>
    PROVE  /\ Head(s) \in S /\ Tail(s) \in Seq(S)
           /\ Len(s) \in Nat /\ Len(Tail(s)) = Len(s) - 1
OBVIOUS

(* An offer fills no buffer beyond its capacity.                           *)
LEMMA OfferedType ==
    ASSUME TypeOK, NEW e \in 0 .. MaxEvents
    PROVE  \A c \in Clients : Offered(e)[c] \in Seq(0 .. MaxEvents)
                              /\ Len(Offered(e)[c]) <= ClientBuffer
<1> SUFFICES ASSUME NEW c \in Clients
             PROVE  Offered(e)[c] \in Seq(0 .. MaxEvents)
                    /\ Len(Offered(e)[c]) <= ClientBuffer
  OBVIOUS
<1>1. send[c] \in Seq(0 .. MaxEvents) /\ Len(send[c]) <= ClientBuffer
  BY DEF TypeOK
<1>2. CASE HasRoom(c) /\ c \in clients
  <2>1. Offered(e)[c] = Append(send[c], e)
    BY <1>2 DEF Offered
  <2>2. Len(send[c]) \in Nat
    BY <1>1
  <2> QED BY <1>1, <1>2, <2>1, <2>2, QueueGrows, BuffersAssumption DEF HasRoom
<1>3. CASE ~(HasRoom(c) /\ c \in clients)
  BY <1>1, <1>3 DEF Offered
<1> QED BY <1>2, <1>3

(* Every branch of the loop and every handler keeps the types.             *)
LEMMA HubTypeStep == HubTypeInv /\ [Next]_vars => HubTypeInv'
<1> SUFFICES ASSUME HubTypeInv, [Next]_vars PROVE HubTypeInv'
  OBVIOUS
<1> USE DEF HubTypeInv
<1>1. Taken \in 0 .. MaxEvents /\ accepted \in Nat /\ Len(broadcast) \in Nat
  BY BuffersAssumption DEF TypeOK, Taken
<1>2. CASE Register
  <2>1. Head(register) \in Clients /\ Tail(register) \in Seq(Clients)
        /\ Len(Tail(register)) <= RegisterBuffer
    BY <1>2, QueueShrinks, BuffersAssumption DEF Register, TypeOK
  <2> QED BY <1>1, <1>2, <2>1 DEF Register, TypeOK
<1>3. CASE Unregister
  <2>1. Head(unregister) \in Clients /\ Tail(unregister) \in Seq(Clients)
        /\ Len(Tail(unregister)) <= RegisterBuffer
    BY <1>3, QueueShrinks, BuffersAssumption DEF Unregister, TypeOK
  <2> QED BY <1>3, <2>1 DEF Unregister, TypeOK, historyVars
<1>4. CASE Broadcast
  <2>1. /\ Head(broadcast) \in 1 .. MaxEvents /\ Tail(broadcast) \in Seq(1 .. MaxEvents)
        /\ Len(Tail(broadcast)) = Len(broadcast) - 1
    BY <1>4, QueueShrinks DEF Broadcast, TypeOK
  <2>2. \A c \in Clients : send'[c] \in Seq(0 .. MaxEvents)
                           /\ Len(send'[c]) <= ClientBuffer
    <3>1. Head(broadcast) \in 0 .. MaxEvents
      BY <2>1
    <3> QED BY <1>4, <3>1, OfferedType DEF Broadcast
  <2>3. Len(broadcast') <= EventBuffer /\ Len(broadcast') <= accepted
    BY <1>1, <1>4, <2>1, BuffersAssumption DEF Broadcast, TypeOK
  <2> QED BY <1>4, <2>1, <2>2, <2>3 DEF Broadcast, TypeOK, Full
<1>5. CASE Ping
  <2>1. \A c \in Clients : send'[c] \in Seq(0 .. MaxEvents)
                           /\ Len(send'[c]) <= ClientBuffer
    <3>1. Heartbeat \in 0 .. MaxEvents
      BY BuffersAssumption DEF Heartbeat
    <3> QED BY <1>5, <3>1, OfferedType DEF Ping
  <2> QED BY <1>5, <2>1 DEF Ping, TypeOK, hubVars, historyVars
<1>6. CASE Stop
  BY <1>6 DEF Stop, TypeOK, historyVars
<1>7. CASE Publish
  <2>1. accepted' \in 1 .. MaxEvents
    BY <1>1, <1>7, BuffersAssumption DEF Publish
  <2>2. broadcast' \in Seq(1 .. MaxEvents) /\ Len(broadcast') = Len(broadcast) + 1
    BY <1>7, <2>1, QueueGrows DEF Publish, TypeOK
  <2>3. Len(broadcast') <= EventBuffer /\ Len(broadcast') <= accepted'
    BY <1>1, <1>7, <2>2, BuffersAssumption DEF Publish
  <2> QED BY <1>7, <2>1, <2>2, <2>3 DEF Publish, TypeOK, historyVars
<1>8. ASSUME NEW c \in Clients, Subscribe(c) PROVE HubTypeInv'
  <2>1. register' \in Seq(Clients) /\ Len(register') <= RegisterBuffer
    <3>1. Len(register) \in Nat
      BY DEF TypeOK
    <3> QED BY <1>8, <3>1, QueueGrows, BuffersAssumption DEF Subscribe, TypeOK
  <2> QED BY <1>8, <2>1 DEF Subscribe, TypeOK, hubVars, historyVars
<1>9. ASSUME NEW c \in Clients, Unsubscribe(c) PROVE HubTypeInv'
  <2>1. unregister' \in Seq(Clients) /\ Len(unregister') <= RegisterBuffer
    <3>1. Len(unregister) \in Nat
      BY DEF TypeOK
    <3> QED BY <1>9, <3>1, QueueGrows, BuffersAssumption DEF Unsubscribe, TypeOK
  <2> QED BY <1>9, <2>1 DEF Unsubscribe, TypeOK, hubVars, historyVars
<1>10. ASSUME NEW c \in Clients, Receive(c) PROVE HubTypeInv'
  <2>1. Head(send[c]) \in 0 .. MaxEvents /\ Tail(send[c]) \in Seq(0 .. MaxEvents)
        /\ Len(Tail(send[c])) <= ClientBuffer
    <3>1. /\ send[c] \in Seq(0 .. MaxEvents) /\ send[c] # <<>>
          /\ Len(send[c]) <= ClientBuffer
      BY <1>10 DEF Receive, TypeOK
    <3>2. /\ Head(send[c]) \in 0 .. MaxEvents /\ Tail(send[c]) \in Seq(0 .. MaxEvents)
          /\ Len(send[c]) \in Nat /\ Len(Tail(send[c])) = Len(send[c]) - 1
      BY <3>1, QueueShrinks
    <3> QED BY <3>1, <3>2, BuffersAssumption
  <2>2. \A d \in Clients : send'[d] \in Seq(0 .. MaxEvents)
                           /\ Len(send'[d]) <= ClientBuffer
    BY <1>10, <2>1 DEF Receive, TypeOK
  <2> QED BY <1>10, <2>1, <2>2 DEF Receive, TypeOK, hubVars, historyVars
<1>11. ASSUME NEW c \in Clients, ReceiveClosed(c) \/ Disconnect(c) PROVE HubTypeInv'
  BY <1>11 DEF ReceiveClosed, Disconnect, TypeOK, hubVars, historyVars
<1>12. CASE UNCHANGED vars
  BY <1>12 DEF vars, TypeOK, hubVars, historyVars
<1> QED BY <1>2, <1>3, <1>4, <1>5, <1>6, <1>7, <1>8, <1>9, <1>10, <1>11, <1>12
        DEF Next, Serve

(* No channel of the hub, and no buffer of a client, exceeds its capacity. *)
THEOREM HubTypeCorrect == Spec => []TypeOK
<1>1. Init => HubTypeInv
  BY BuffersAssumption DEF Init, HubTypeInv, TypeOK
<1>2. HubTypeInv => TypeOK
  BY DEF HubTypeInv
<1> QED BY <1>1, <1>2, HubTypeStep, PTL DEF Spec

----------------------------------------------------------------------------
(* No silent gap.  A connection has seen nothing before it is registered;  *)
(* what waits in broadcast are the next events, in order; and what was     *)
(* shown to a connection joins on to what waits in its buffer.             *)
Events == 1 .. MaxEvents
Following(last, n) == [k \in 1 .. n - last |-> last + k]
Latest(c) == IF shown[c] = 0 THEN since[c] ELSE shown[c]

Untouched(c) == send[c] = <<>> /\ shown[c] = 0
FreshIsUntouched ==
    \A c \in Clients :
        pc[c] = "new" \/ (\E k \in 1 .. Len(register) : register[k] = c) => Untouched(c)
Numbered == \A k \in 1 .. Len(broadcast) : broadcast[k] = Taken + k
Joined(last, buffer, n) ==
    last \in 0 .. n /\ Kept(buffer, Events) = Following(last, n)
Gapless ==
    \A c \in clients \ skipped : pc[c] = "stream" => Joined(Latest(c), send[c], Taken)

StreamInv == DOMAIN send = Clients /\ FreshIsUntouched /\ Numbered /\ Gapless

(* A connection just registered; an event; a heartbeat; an event written.  *)
LEMMA JoinedAtFirst ==
    ASSUME NEW n \in Nat
    PROVE  Joined(n, <<>>, n)
BY KeptOfNothing DEF Joined, Following

(* The next event goes to the end of a buffer without a gap.               *)
LEMMA JoinedByEvent ==
    ASSUME NEW last, NEW n \in Nat, NEW b \in Seq(0 .. MaxEvents), Joined(last, b, n),
           n + 1 \in Events
    PROVE  Joined(last, Append(b, n + 1), n + 1)
<1>1. last \in 0 .. n /\ Kept(b, Events) = Following(last, n)
  BY DEF Joined
<1>2. Kept(Append(b, n + 1), Events) = Append(Kept(b, Events), n + 1)
  <2>1. n + 1 \in 0 .. MaxEvents
    BY DEF Events
  <2> DEFINE T == 0 .. MaxEvents
  <2> HIDE DEF T, Events
  <2>2. n + 1 \in T /\ b \in Seq(T)
    BY <2>1 DEF T
  <2> QED BY <2>2, KeptOfAppend
<1>3. Append(Following(last, n), n + 1) = Following(last, n + 1)
  <2> DEFINE f == Following(last, n)
             g == Following(last, n + 1)
  <2>1. /\ f \in Seq(Int) /\ Len(f) = n - last /\ \A k \in 1 .. Len(f) : f[k] = last + k
        /\ g \in Seq(Int) /\ Len(g) = (n - last) + 1 /\ \A k \in 1 .. Len(g) : g[k] = last + k
    BY <1>1 DEF Following
  <2>2. n - last \in Nat
    BY <1>1
  <2> HIDE DEF f, g
  <2> DEFINE h == Append(f, n + 1)
  <2>3. /\ h \in Seq(Int) /\ Len(h) = (n - last) + 1 /\ h[(n - last) + 1] = n + 1
        /\ \A k \in 1 .. n - last : h[k] = f[k]
    BY <2>1, <2>2
  <2> HIDE DEF h
  <2>4. \A k \in 1 .. Len(h) : h[k] = g[k]
    <3> SUFFICES ASSUME NEW k \in 1 .. Len(h) PROVE h[k] = g[k]
      OBVIOUS
    <3>1. CASE k = (n - last) + 1
      BY <1>1, <2>1, <2>2, <2>3, <3>1
    <3>2. CASE k # (n - last) + 1
      <4>1. k \in 1 .. n - last
        BY <2>2, <2>3, <3>2
      <4> QED BY <2>1, <2>3, <4>1
    <3> QED BY <3>1, <3>2
  <2>5. h = g
    <3>1. DOMAIN h = DOMAIN g /\ DOMAIN h = 1 .. Len(h)
      BY <2>1, <2>3
    <3>2. h = [k \in DOMAIN h |-> h[k]] /\ g = [k \in DOMAIN g |-> g[k]]
      BY <2>1, <2>3
    <3> QED BY <2>4, <3>1, <3>2
  <2> QED BY <2>5 DEF f, g, h
<1> QED BY <1>1, <1>2, <1>3 DEF Joined

(* A heartbeat in the buffer is no event.                                  *)
LEMMA JoinedByHeartbeat ==
    ASSUME NEW last, NEW n \in Nat, NEW b \in Seq(0 .. MaxEvents), Joined(last, b, n)
    PROVE  Joined(last, Append(b, Heartbeat), n)
<1>1. Heartbeat \notin Events /\ Heartbeat \in 0 .. MaxEvents
  BY BuffersAssumption DEF Heartbeat, Events
<1> DEFINE T == 0 .. MaxEvents
<1>2. Kept(Append(b, Heartbeat), Events) = Kept(b, Events)
  <2>1. Heartbeat \in T /\ b \in Seq(T)
    BY <1>1
  <2> HIDE DEF T, Events
  <2> QED BY <1>1, <2>1, KeptOfAppend
<1> QED BY <1>2 DEF Joined

(* A handler that writes the head of its buffer shows the next event.      *)
LEMMA JoinedOnWrite ==
    ASSUME NEW last, NEW n \in Nat, NEW b \in Seq(0 .. MaxEvents), b # <<>>, Joined(last, b, n)
    PROVE  /\ Head(b) = Heartbeat => Joined(last, Tail(b), n)
           /\ Head(b) # Heartbeat => Head(b) # 0 /\ Joined(Head(b), Tail(b), n)
<1> DEFINE T == 0 .. MaxEvents
           e == Head(b)
           f == Following(last, n)
<1>1. e \in T /\ b \in Seq(T) /\ (e \in Events <=> e # Heartbeat)
  BY BuffersAssumption DEF Events, Heartbeat
<1>2. last \in 0 .. n /\ Kept(b, Events) = f
  BY DEF Joined
<1>3. /\ e \notin Events => Kept(Tail(b), Events) = f
      /\ e \in Events => f # <<>> /\ Head(f) = e /\ Kept(Tail(b), Events) = Tail(f)
  <2> HIDE DEF T, Events, f
  <2> QED BY <1>1, <1>2, KeptOfTail
<1>4. f \in Seq(Int) /\ Len(f) = n - last /\ (\A k \in 1 .. Len(f) : f[k] = last + k)
      /\ n - last \in Nat
  BY <1>2 DEF Following
<1>5. e \in Events => e = last + 1 /\ e \in 0 .. n /\ Tail(f) = Following(e, n)
  <2> SUFFICES ASSUME e \in Events
               PROVE  e = last + 1 /\ e \in 0 .. n /\ Tail(f) = Following(e, n)
    OBVIOUS
  <2> HIDE DEF f, e
  <2>1. f # <<>> /\ Head(f) = e
    BY <1>3
  <2>2. Len(f) # 0 /\ Head(f) = f[1]
    BY <1>4, <2>1
  <2>3. e = last + 1 /\ e \in 0 .. n
    BY <1>2, <1>4, <2>1, <2>2
  <2> DEFINE g == Tail(f)
             h == Following(e, n)
  <2>4. /\ g \in Seq(Int) /\ Len(g) = (n - last) - 1
        /\ \A k \in 1 .. Len(g) : g[k] = f[k + 1] /\ k + 1 \in 1 .. Len(f)
    BY <1>4, <2>1
  <2>5. h \in Seq(Int) /\ Len(h) = n - e /\ \A k \in 1 .. Len(h) : h[k] = e + k
    BY <2>3 DEF Following
  <2> HIDE DEF g, h
  <2>6. Len(g) = Len(h)
    BY <1>2, <2>3, <2>4, <2>5
  <2>7. \A k \in 1 .. Len(g) : g[k] = h[k]
    <3> SUFFICES ASSUME NEW k \in 1 .. Len(g) PROVE g[k] = h[k]
      OBVIOUS
    <3>1. g[k] = last + (k + 1) /\ h[k] = e + k
      BY <1>4, <2>4, <2>5, <2>6
    <3> QED BY <1>2, <2>3, <3>1
  <2>8. g = h
    <3>1. DOMAIN h = DOMAIN g /\ DOMAIN g = 1 .. Len(g)
      BY <2>4, <2>5, <2>6
    <3>2. h = [k \in DOMAIN h |-> h[k]] /\ g = [k \in DOMAIN g |-> g[k]]
      BY <2>4, <2>5
    <3> QED BY <2>7, <3>1, <3>2
  <2> QED BY <2>3, <2>8 DEF g, h
<1> HIDE DEF f
<1>6. e \in Events => e # 0
  BY DEF Events
<1> QED BY <1>1, <1>2, <1>3, <1>5, <1>6 DEF Joined

----------------------------------------------------------------------------
(* What the steps do to the streams.                                       *)
LEMMA StreamTypes ==
    ASSUME HubTypeInv
    PROVE  /\ Taken \in Nat /\ accepted \in Nat /\ Len(broadcast) \in Nat
           /\ accepted <= MaxEvents /\ broadcast \in Seq(Events)
           /\ \A c \in Clients : send[c] \in Seq(0 .. MaxEvents)
           /\ shown = [c \in Clients |-> shown[c]] /\ since = [c \in Clients |-> since[c]]
           /\ clients \subseteq Clients
BY BuffersAssumption DEF HubTypeInv, TypeOK, Taken, Events

(* Nothing new for a client: its stream, and what it is joined to, stay.   *)
LEMMA GaplessStill ==
    ASSUME Gapless, Taken' = Taken, clients' \subseteq clients, skipped \subseteq skipped',
           \A c \in clients : pc'[c] = "stream" => /\ pc[c] = "stream" /\ send'[c] = send[c]
                                       /\ shown'[c] = shown[c] /\ since'[c] = since[c]
    PROVE  Gapless'
<1> SUFFICES ASSUME NEW c \in clients' \ skipped', pc'[c] = "stream"
             PROVE  Joined(Latest(c)', send'[c], Taken')
  BY DEF Gapless, Joined
<1>1. c \in clients \ skipped /\ pc[c] = "stream" /\ send'[c] = send[c]
  OBVIOUS
<1>2. Latest(c)' = Latest(c)
  BY <1>1 DEF Latest
<1> QED BY <1>1, <1>2 DEF Gapless

(* A client that registers starts behind the events taken so far.          *)
LEMMA StreamRegister ==
    ASSUME HubInv, HubTypeInv, StreamInv, Register
    PROVE  StreamInv'
<1> DEFINE h == Head(register)
<1>1. /\ register \in Seq(Clients) /\ register # <<>> /\ register' = Tail(register)
      /\ clients' = clients \cup {h} /\ since' = [since EXCEPT ![h] = Taken]
      /\ UNCHANGED <<broadcast, accepted, send, pc, shown, skipped>>
  BY DEF Register, HubInv, HubTypes
<1>2. /\ h = register[1] /\ h \in Clients /\ 1 \in 1 .. Len(register)
      /\ \A k \in 1 .. Len(register') : k + 1 \in 1 .. Len(register)
                                        /\ register'[k] = register[k + 1]
  BY <1>1, TailOf
<1>3. Untouched(h)
  BY <1>2 DEF StreamInv, FreshIsUntouched
<1> HIDE DEF h
<1>4. FreshIsUntouched'
  <2> SUFFICES ASSUME NEW c \in Clients,
                      pc[c] = "new" \/ (\E k \in 1 .. Len(register') : register'[k] = c)
               PROVE  send[c] = <<>> /\ shown[c] = 0
    BY <1>1 DEF FreshIsUntouched, Untouched
  <2>1. pc[c] = "new" \/ (\E k \in 1 .. Len(register) : register[k] = c)
    BY <1>2
  <2> QED BY <2>1 DEF StreamInv, FreshIsUntouched, Untouched
<1>5. Taken' = Taken /\ Numbered'
  BY <1>1 DEF StreamInv, Numbered, Taken
<1>6. ASSUME NEW c \in clients' \ skipped', pc'[c] = "stream"
      PROVE  Joined(Latest(c)', send'[c], Taken')
  <2>1. since'[h] = Taken /\ \A d \in Clients : d # h => since'[d] = since[d]
    BY <1>1, <1>2, StreamTypes
  <2>2. CASE c = h
    <3>1. Latest(c)' = Taken /\ send'[c] = <<>>
      BY <1>1, <1>3, <2>1, <2>2 DEF Latest, Untouched
    <3> QED BY <1>5, <3>1, JoinedAtFirst, StreamTypes
  <2>3. CASE c # h
    <3>1. c \in clients \ skipped /\ c \in Clients
      BY <1>1, <2>3, StreamTypes
    <3>2. Latest(c)' = Latest(c) /\ send'[c] = send[c] /\ pc[c] = "stream"
      BY <1>1, <1>6, <2>1, <2>3, <3>1 DEF Latest
    <3> QED BY <1>5, <3>1, <3>2 DEF StreamInv, Gapless
  <2> QED BY <2>2, <2>3
<1>7. Gapless'
  BY <1>6 DEF Gapless, Joined
<1> QED BY <1>1, <1>4, <1>5, <1>7 DEF StreamInv

(* An offer, to those who are registered and have room.                    *)
LEMMA OfferedTo ==
    ASSUME NEW e, send' = Offered(e)
    PROVE  /\ \A c \in Clients \ clients : send'[c] = send[c]
           /\ \A c \in (Clients \cap clients) \ Full : send'[c] = Append(send[c], e)
BY DEF Offered, Full

(* A client that is new or waits to be registered is not registered yet.   *)
LEMMA NotFresh ==
    ASSUME HubInv, NEW c \in Clients,
           pc[c] = "new" \/ (\E k \in 1 .. Len(register) : register[k] = c)
    PROVE  c \notin clients
BY DEF HubInv, NewIsNowhere, QueuedOnce

(* A broadcast reaches all with room, and the rest count as skipped.       *)
LEMMA StreamBroadcast ==
    ASSUME HubInv, HubTypeInv, StreamInv, Broadcast
    PROVE  StreamInv'
<1> DEFINE e == Head(broadcast)
<1>1. /\ broadcast # <<>> /\ broadcast' = Tail(broadcast) /\ send' = Offered(e)
      /\ skipped' = skipped \cup Full
      /\ UNCHANGED <<clients, accepted, register, pc, shown, since>>
  BY DEF Broadcast
<1>2. /\ broadcast \in Seq(Events) /\ Taken \in Nat /\ accepted \in Nat
      /\ Len(broadcast) \in Nat /\ clients \subseteq Clients
  BY StreamTypes
<1>3. /\ e = broadcast[1] /\ e \in Events /\ Len(broadcast') = Len(broadcast) - 1
      /\ 1 \in 1 .. Len(broadcast)
      /\ \A k \in 1 .. Len(broadcast') :
            k \in Nat /\ k + 1 \in 1 .. Len(broadcast) /\ broadcast'[k] = broadcast[k + 1]
  BY <1>1, <1>2
<1> HIDE DEF e
<1>4. e = Taken + 1 /\ Taken' = Taken + 1
  <2>1. e = Taken + 1
    BY <1>3 DEF StreamInv, Numbered
  <2>2. Taken' = accepted - Len(broadcast')
    BY <1>1 DEF Taken
  <2> QED BY <1>2, <1>3, <2>1, <2>2 DEF Taken
<1>5. Numbered'
  <2> SUFFICES ASSUME NEW k \in 1 .. Len(broadcast') PROVE broadcast'[k] = (Taken + 1) + k
    BY <1>4 DEF Numbered
  <2>1. broadcast'[k] = Taken + (k + 1) /\ k \in Nat
    BY <1>3 DEF StreamInv, Numbered
  <2> QED BY <1>2, <2>1
<1>6. FreshIsUntouched'
  <2> SUFFICES ASSUME NEW c \in Clients,
                      pc[c] = "new" \/ (\E k \in 1 .. Len(register) : register[k] = c)
               PROVE  send'[c] = <<>> /\ shown[c] = 0
    BY <1>1 DEF FreshIsUntouched, Untouched
  <2>1. send'[c] = send[c]
    BY <1>1, NotFresh, OfferedTo
  <2> QED BY <2>1 DEF StreamInv, FreshIsUntouched, Untouched
<1>7. ASSUME NEW c \in clients' \ skipped', pc'[c] = "stream"
      PROVE  Joined(Latest(c)', send'[c], Taken')
  <2>1. c \in clients \ skipped /\ c \in (Clients \cap clients) \ Full /\ pc[c] = "stream"
    BY <1>1, <1>2, <1>7
  <2>2. send'[c] = Append(send[c], Taken + 1) /\ send[c] \in Seq(0 .. MaxEvents)
    BY <1>1, <1>4, <2>1, OfferedTo, StreamTypes
  <2>3. Latest(c)' = Latest(c)
    BY <1>1 DEF Latest
  <2>4. Joined(Latest(c), send[c], Taken)
    BY <2>1 DEF StreamInv, Gapless
  <2>5. Joined(Latest(c), Append(send[c], Taken + 1), Taken + 1)
    BY <1>2, <1>3, <1>4, <2>2, <2>4, JoinedByEvent
  <2> QED BY <1>4, <2>2, <2>3, <2>5
<1>8. Gapless'
  BY <1>7 DEF Gapless, Joined
<1>9. DOMAIN send' = Clients
  BY <1>1 DEF Offered
<1> QED BY <1>5, <1>6, <1>8, <1>9 DEF StreamInv

(* A heartbeat changes no stream.                                          *)
LEMMA StreamPing ==
    ASSUME HubInv, HubTypeInv, StreamInv, Ping
    PROVE  StreamInv'
<1>1. /\ send' = Offered(Heartbeat)
      /\ UNCHANGED <<broadcast, clients, accepted, register, pc, shown, since, skipped>>
  BY DEF Ping, hubVars, historyVars
<1>2. Taken' = Taken /\ Taken \in Nat /\ Numbered' /\ clients \subseteq Clients
  BY <1>1, StreamTypes DEF StreamInv, Numbered, Taken
<1>3. FreshIsUntouched'
  <2> SUFFICES ASSUME NEW c \in Clients,
                      pc[c] = "new" \/ (\E k \in 1 .. Len(register) : register[k] = c)
               PROVE  send'[c] = <<>> /\ shown[c] = 0
    BY <1>1 DEF FreshIsUntouched, Untouched
  <2>1. send'[c] = send[c]
    BY <1>1, NotFresh, OfferedTo
  <2> QED BY <2>1 DEF StreamInv, FreshIsUntouched, Untouched
<1>4. ASSUME NEW c \in clients' \ skipped', pc'[c] = "stream"
      PROVE  Joined(Latest(c)', send'[c], Taken')
  <2>1. c \in clients \ skipped /\ c \in Clients /\ pc[c] = "stream"
    BY <1>1, <1>2, <1>4
  <2>2. Latest(c)' = Latest(c)
    BY <1>1 DEF Latest
  <2>3. Joined(Latest(c), send[c], Taken) /\ send[c] \in Seq(0 .. MaxEvents)
    BY <2>1, StreamTypes DEF StreamInv, Gapless
  <2>4. send'[c] = send[c] \/ send'[c] = Append(send[c], Heartbeat)
    BY <1>1, <2>1 DEF Offered
  <2>5. Joined(Latest(c), send'[c], Taken)
    BY <1>2, <2>3, <2>4, JoinedByHeartbeat
  <2> QED BY <1>2, <2>2, <2>5
<1>5. Gapless'
  BY <1>4 DEF Gapless, Joined
<1>6. DOMAIN send' = Clients
  BY <1>1 DEF Offered
<1> QED BY <1>2, <1>3, <1>5, <1>6 DEF StreamInv

(* An accepted event is the last of the broadcast channel.                 *)
LEMMA StreamPublish ==
    ASSUME HubTypeInv, StreamInv, Publish
    PROVE  StreamInv'
<1>1. /\ accepted' = accepted + 1 /\ broadcast' = Append(broadcast, accepted + 1)
      /\ UNCHANGED <<clients, register, send, pc, shown, since, skipped>>
  BY DEF Publish, historyVars
<1>2. /\ broadcast \in Seq(Events) /\ Taken \in Nat /\ accepted \in Nat
      /\ Len(broadcast) \in Nat
  BY StreamTypes
<1>3. /\ Len(broadcast') = Len(broadcast) + 1 /\ broadcast'[Len(broadcast) + 1] = accepted + 1
      /\ \A k \in 1 .. Len(broadcast) : broadcast'[k] = broadcast[k]
  BY <1>1, <1>2
<1>4. Taken' = Taken
  <2>1. Taken' = accepted' - Len(broadcast')
    BY DEF Taken
  <2> QED BY <1>1, <1>2, <1>3, <2>1 DEF Taken
<1>5. Numbered'
  <2> SUFFICES ASSUME NEW k \in 1 .. Len(broadcast') PROVE broadcast'[k] = Taken + k
    BY <1>4 DEF Numbered
  <2>1. CASE k = Len(broadcast) + 1
    BY <1>2, <1>3, <2>1 DEF Taken
  <2>2. CASE k # Len(broadcast) + 1
    <3>1. k \in 1 .. Len(broadcast)
      BY <1>2, <1>3, <2>2
    <3> QED BY <1>3, <3>1 DEF StreamInv, Numbered
  <2> QED BY <2>1, <2>2
<1>6. FreshIsUntouched'
  BY <1>1 DEF StreamInv, FreshIsUntouched, Untouched
<1>7. Gapless'
  BY <1>1, <1>4, GaplessStill DEF StreamInv
<1> QED BY <1>1, <1>5, <1>6, <1>7 DEF StreamInv

(* A write moves one event from the buffer to the client.                  *)
LEMMA StreamReceive ==
    ASSUME HubInv, HubTypeInv, StreamInv, NEW c \in Clients, Receive(c)
    PROVE  StreamInv'
<1> DEFINE e == Head(send[c])
<1>1. /\ pc[c] = "stream" /\ send[c] # <<>> /\ send' = [send EXCEPT ![c] = Tail(@)]
      /\ UNCHANGED <<broadcast, clients, accepted, register, since, skipped>>
      /\ \/ /\ shown' = [shown EXCEPT ![c] = IF e = Heartbeat THEN @ ELSE e]
            /\ UNCHANGED pc
         \/ /\ pc' = [pc EXCEPT ![c] = "leave"]
            /\ UNCHANGED shown
  BY DEF Receive, hubVars, historyVars
<1>2. Taken' = Taken /\ Taken \in Nat /\ Numbered' /\ clients \subseteq Clients
  BY <1>1, StreamTypes DEF StreamInv, Numbered, Taken
<1>3. ASSUME NEW d \in Clients
      PROVE  /\ d # c => send'[d] = send[d] /\ shown'[d] = shown[d] /\ pc'[d] = pc[d]
             /\ pc'[d] = "new" => pc[d] = "new"
             /\ send'[c] = Tail(send[c])
  <2>2. pc \in [Clients -> {"new", "stream", "leave", "gone"}]
    BY DEF HubInv, HubTypes
  <2>3. shown = [x \in Clients |-> shown[x]] /\ c \in DOMAIN send /\ DOMAIN send = Clients
    BY StreamTypes DEF StreamInv
  <2> QED BY <1>1, <2>2, <2>3
<1>4. FreshIsUntouched'
  <2> SUFFICES ASSUME NEW d \in Clients,
                      pc'[d] = "new" \/ (\E k \in 1 .. Len(register) : register[k] = d)
               PROVE  send'[d] = <<>> /\ shown'[d] = 0
    BY <1>1 DEF FreshIsUntouched, Untouched
  <2>1. Untouched(d)
    BY <1>3 DEF StreamInv, FreshIsUntouched
  <2>2. d # c
    BY <1>1, <2>1 DEF Untouched
  <2> QED BY <1>3, <2>1, <2>2 DEF Untouched
<1>5. ASSUME NEW d \in clients' \ skipped', pc'[d] = "stream"
      PROVE  Joined(Latest(d)', send'[d], Taken')
  <2>1. d \in clients \ skipped /\ d \in Clients
    BY <1>1, <1>2
  <2>2. CASE d # c
    <3>1. send'[d] = send[d] /\ shown'[d] = shown[d] /\ pc[d] = "stream"
      BY <1>3, <1>5, <2>1, <2>2
    <3>2. Latest(d)' = Latest(d)
      BY <1>1, <3>1 DEF Latest
    <3> QED BY <1>2, <2>1, <3>1, <3>2 DEF StreamInv, Gapless
  <2>3. CASE d = c
    <3>1. Joined(Latest(c), send[c], Taken) /\ send[c] \in Seq(0 .. MaxEvents)
      BY <1>1, <2>1, <2>3, StreamTypes DEF StreamInv, Gapless
    <3>2. shown' = [shown EXCEPT ![c] = IF e = Heartbeat THEN @ ELSE e]
      BY <1>1, <1>5, <2>3 DEF HubInv, HubTypes
    <3>3. shown'[c] = IF e = Heartbeat THEN shown[c] ELSE e
      BY <3>2, StreamTypes
    <3>4. /\ e = Heartbeat => Joined(Latest(c), Tail(send[c]), Taken)
          /\ e # Heartbeat => e # 0 /\ Joined(e, Tail(send[c]), Taken)
      BY <1>1, <1>2, <3>1, JoinedOnWrite
    <3> HIDE DEF e
    <3>5. Latest(c)' = IF e = Heartbeat THEN Latest(c) ELSE e
      BY <1>1, <3>3, <3>4 DEF Latest
    <3>6. send'[c] = Tail(send[c])
      BY <1>3
    <3> QED BY <1>2, <2>3, <3>4, <3>5, <3>6
  <2> QED BY <2>2, <2>3
<1>6. Gapless'
  BY <1>5 DEF Gapless, Joined
<1>7. DOMAIN send' = Clients
  BY <1>1 DEF StreamInv
<1> QED BY <1>2, <1>4, <1>6, <1>7 DEF StreamInv

(* A new stream has been sent nothing.                                     *)
LEMMA StreamSubscribe ==
    ASSUME HubInv, HubTypeInv, StreamInv, NEW c \in Clients, Subscribe(c)
    PROVE  StreamInv'
<1>1. /\ pc[c] = "new" /\ pc' = [pc EXCEPT ![c] = "stream"]
      /\ register' = Append(register, c)
      /\ UNCHANGED <<broadcast, clients, accepted, send, shown, since, skipped>>
      /\ register \in Seq(Clients) /\ clients \subseteq Clients
      /\ pc \in [Clients -> {"new", "stream", "leave", "gone"}]
  BY DEF Subscribe, hubVars, historyVars, HubInv, HubTypes
<1>2. Taken' = Taken /\ Numbered'
  BY <1>1 DEF StreamInv, Numbered, Taken
<1>3. FreshIsUntouched'
  <2> SUFFICES ASSUME NEW d \in Clients,
                      pc'[d] = "new" \/ (\E k \in 1 .. Len(register') : register'[k] = d)
               PROVE  Untouched(d)
    BY <1>1 DEF FreshIsUntouched, Untouched
  <2>1. pc'[d] = "new" => pc[d] = "new"
    BY <1>1
  <2>2. \A k \in 1 .. Len(register') :
            (k \in 1 .. Len(register) /\ register'[k] = register[k]) \/ register'[k] = c
    BY <1>1
  <2> QED BY <1>1, <2>1, <2>2 DEF StreamInv, FreshIsUntouched
<1>4. Gapless'
  <2>1. c \notin clients
    BY <1>1 DEF HubInv, NewIsNowhere
  <2>2. \A d \in clients : pc'[d] = pc[d]
    BY <1>1, <2>1
  <2> QED BY <1>1, <1>2, <2>2, GaplessStill DEF StreamInv
<1> QED BY <1>1, <1>2, <1>3, <1>4 DEF StreamInv

(* The steps that take clients, or connections, away.                      *)
LEMMA StreamLeaves ==
    ASSUME StreamInv, clients' \subseteq clients,
           UNCHANGED <<broadcast, accepted, register, send, shown, since, skipped>>,
           \A c \in Clients : pc'[c] = "new" => pc[c] = "new",
           \A c \in clients : pc'[c] = "stream" => pc[c] = "stream"
    PROVE  StreamInv'
<1>1. Taken' = Taken /\ Numbered'
  BY DEF StreamInv, Numbered, Taken
<1>2. FreshIsUntouched'
  BY DEF StreamInv, FreshIsUntouched, Untouched
<1>3. Gapless'
  BY <1>1, GaplessStill DEF StreamInv
<1> QED BY <1>1, <1>2, <1>3 DEF StreamInv

(* Every branch of the loop and every handler keeps the streams whole.     *)
LEMMA StreamStep ==
    ASSUME HubInv, HubTypeInv, StreamInv, [Next]_vars
    PROVE  StreamInv'
<1>1. CASE Unregister
  BY <1>1, StreamLeaves DEF Unregister, historyVars
<1>2. CASE Stop
  BY <1>2, StreamLeaves DEF Stop, historyVars
<1>3. ASSUME NEW c \in Clients, ReceiveClosed(c) \/ Unsubscribe(c) \/ Disconnect(c)
      PROVE  StreamInv'
  <2>1. /\ UNCHANGED <<clients, broadcast, accepted, register, send, shown, since, skipped>>
        /\ pc' = [pc EXCEPT ![c] = "leave"] \/ pc' = [pc EXCEPT ![c] = "gone"]
    BY <1>3 DEF ReceiveClosed, Unsubscribe, Disconnect, hubVars, historyVars
  <2>2. pc \in [Clients -> {"new", "stream", "leave", "gone"}] /\ clients \subseteq Clients
    BY DEF HubInv, HubTypes
  <2>3. \A d \in Clients : /\ pc'[d] = "new" => pc[d] = "new"
                           /\ pc'[d] = "stream" => pc[d] = "stream"
    BY <2>1, <2>2
  <2> QED BY <2>1, <2>2, <2>3, StreamLeaves
<1>4. CASE UNCHANGED vars
  BY <1>4, StreamLeaves DEF vars, hubVars, historyVars
<1> QED BY <1>1, <1>2, <1>3, <1>4, StreamRegister, StreamBroadcast, StreamPing,
        StreamPublish, StreamSubscribe, StreamReceive DEF Next, Serve

(* At the start there are no streams.                                      *)
LEMMA StreamInit == Init => StreamInv
BY DEF Init, StreamInv, FreshIsUntouched, Untouched, Numbered, Gapless

(* Who is registered and keeps up misses nothing and gets nothing twice.   *)
THEOREM StreamsHaveNoGap == Spec => []NoSilentGap
<1>1. StreamInv => NoSilentGap
  BY DEF StreamInv, Gapless, Joined, Following, Latest, Events, NoSilentGap
<1>2. Init => HubTypeInv
  BY BuffersAssumption DEF Init, HubTypeInv, TypeOK
<1> QED BY <1>1, <1>2, HubInit, HubStep, HubTypeStep, StreamInit, StreamStep, PTL DEF Spec
=============================================================================
