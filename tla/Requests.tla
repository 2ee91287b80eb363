------------------------------ MODULE Requests ------------------------------
(***************************************************************************)
(* The way of a request through the server, as server.New wires it: the    *)
(* authentication middleware, the rate limiter, RequireRole, then the      *)
(* handler, one step for each SQL statement.  Modelled to the end are the  *)
(* handlers of tokens (internal/auth), agents, telemetry and the overview; *)
(* "operate" stands for those of alerts, rules and channels, whose tables  *)
(* other modules model, "health" for the public endpoints.                 *)
(*                                                                         *)
(* A request keeps the role it was given, whatever becomes of its token.   *)
(***************************************************************************)
EXTENDS ApiTokens, RateLimiter, Fleet

CONSTANTS
    Slots,           \* requests at a time
    DefaultLimit,    \* 120 requests per minute
    Ahead, Late,     \* how far the clock of an agent is ahead, a sample late
    Environments,    \* what config.Load may find, and the load
    Faults           \* whether statements may fail

ASSUME RequestsAssumption ==
    /\ {Ahead, Late, DefaultLimit} \subseteq Nat
    /\ Faults \in BOOLEAN
    /\ NoToken \notin Tokens
    /\ \A e \in Environments :
         /\ e.auth \in BOOLEAN
         /\ {e.limit, e.healthy, e.stale} \subseteq Int
         /\ DOMAIN e.tokens \subseteq Tokens
         /\ \A t \in DOMAIN e.tokens : e.tokens[t] \in Roles
         /\ {e.load, e.until} \subseteq Nat
         /\ e.from \subseteq Addresses
         /\ e.agents \in Seq(Agents) /\ IsInjective(e.agents)

VARIABLES
    env,             \* the configuration the server was started with
    left,            \* bound: the requests still to come
    conn,            \* [slot -> the request it serves]
    view,            \* [slot -> what an overview has counted]
    announced,       \* samples published and given to the alert engine
    stored,          \* history: samples ever committed
    seen             \* history: [slot -> [agent -> when it was seen last, as
                     \* queries of an overview could find it, and since when]]

vars == <<now, limit, limiterVars, tokenVars, fleetVars,
          env, left, conn, view, announced, stored, seen>>
\* What only its own handlers change.
worldVars == <<now, limit, env, thresholds>>
viewVars == <<view, seen>>
samplesVars == <<telemetry, announced, stored>>

Limited == {"operate", "createToken", "deleteToken", "register", "ingest"}
Public  == {"health"}
RequiredRole(kind) ==
    CASE kind \in {"createToken", "deleteToken", "listTokens"} -> "admin"
      [] kind = "operate" -> "operator"
      [] OTHER -> "any"
RequireRole(r, kind) ==
    RequiredRole(kind) = "any" \/ (r # "none" /\ HasPermission(r, RequiredRole(kind)))

(* What a request of each kind carries: the role or the token, the agent,  *)
(* the sample; "malformed" does not decode, or lacks a field.              *)
Bodies(kind) ==
    CASE kind = "createToken" -> RequestedRoles
      [] kind = "deleteToken" -> Tokens
      [] kind = "register" -> Agents \cup {"malformed"}
      [] kind = "ingest" -> {[agent |-> "malformed", time |-> now]} \cup
            {[agent |-> a, time |-> t] : a \in Agents,
                t \in {now - Late, now, now + Ahead} \cap Nat}
      [] OTHER -> {"none"}

NoRequest == [pc |-> "idle", kind |-> "none", token |-> NoToken, ip |-> "none",
              role |-> "none", body |-> "none", late |-> FALSE, answer |-> 0]
NoView == [todo |-> <<>>, total |-> 0, latest |-> None, counts |-> [c \in Classes |-> 0]]

Free(r) == conn[r].pc = "idle"
Goto(r, l) == conn' = [conn EXCEPT ![r].pc = l]
Reply(r, code) == conn' = [conn EXCEPT ![r] = [NoRequest EXCEPT !.answer = code]]

----------------------------------------------------------------------------
(* A request arrives; late is history: its token was deleted before that.  *)
Arrive(r) ==
    /\ left > 0
    /\ Free(r)
    /\ \E kind \in env.kinds[r], t \in issued \cup {NoToken}, ip \in env.from :
       \E body \in Bodies(kind) :
        conn' = [conn EXCEPT ![r] =
            [NoRequest EXCEPT !.pc = "auth", !.kind = kind, !.token = t, !.ip = ip,
                              !.body = body,
                              !.late = t \in Tokens /\ row[t] = "deleted"]]
    /\ left' = left - 1
    /\ UNCHANGED <<worldVars, limiterVars, tokenVars, agents, samplesVars, viewVars>>

(* Authenticator.Middleware                                                *)
Let(r, given) == conn' = [conn EXCEPT ![r].pc = "gate", ![r].role = given]
Authenticate(r) ==
    /\ conn[r].pc = "auth"
    /\ LET t == conn[r].token IN
       \/ ~env.auth /\ Let(r, "admin") /\ UNCHANGED touching
       \/ env.auth /\ conn[r].kind \in Public /\ Let(r, "none") /\ UNCHANGED touching
       \/ /\ env.auth /\ conn[r].kind \notin Public
          /\ \/ ~Authentic(t) /\ Reply(r, 401) /\ UNCHANGED touching
             \/ Faults /\ t # NoToken /\ Reply(r, 500) /\ UNCHANGED touching
             \/ Authentic(t) /\ Let(r, role[t]) /\ touching' = touching \cup {t}
    /\ UNCHANGED <<worldVars, limiterVars, row, role, issued, agents, samplesVars,
                   viewVars, left>>

(* RateLimiter.Limit around RequireRole: a request without the role counts.*)
Enter(r) ==
    IF RequireRole(conn[r].role, conn[r].kind) THEN Goto(r, "handle") ELSE Reply(r, 403)
Gate(r) ==
    /\ conn[r].pc = "gate"
    /\ \/ conn[r].kind \in Limited /\ Admit(conn[r].ip) /\ Enter(r)
       \/ conn[r].kind \in Limited /\ Refuse(conn[r].ip) /\ Reply(r, 429)
       \/ /\ conn[r].kind \notin Limited \/ limit <= 0
          /\ Enter(r)
          /\ UNCHANGED limiterVars
    /\ UNCHANGED <<worldVars, tokenVars, agents, samplesVars, viewVars, left>>

Handles(r, kind) == conn[r].pc = "handle" /\ conn[r].kind = kind

----------------------------------------------------------------------------
(* TokenHandler.  A statement that fails may have been committed; a token  *)
(* whose creation seems to have failed is known to nobody.                 *)

CreateToken(r) ==
    /\ Handles(r, "createToken")
    /\ \/ conn[r].body = "invalid" /\ Reply(r, 400) /\ UNCHANGED <<row, role, issued>>
       \/ /\ conn[r].body # "invalid"
          /\ \/ \E t \in Tokens :
                  /\ InsertToken(t, RoleOf(conn[r].body))
                  /\ \/ Reply(r, 201) /\ issued' = issued \cup {t}
                     \/ Faults /\ Reply(r, 500) /\ UNCHANGED issued
             \/ Faults /\ Reply(r, 500) /\ UNCHANGED <<row, role, issued>>
    /\ UNCHANGED <<worldVars, limiterVars, touching, agents, samplesVars, viewVars,
                   left>>

DeleteToken(r) ==
    /\ Handles(r, "deleteToken")
    /\ \/ DeleteRow(conn[r].body) /\ Reply(r, 204)
       \/ Faults /\ DeleteRow(conn[r].body) /\ Reply(r, 500)
       \/ Faults /\ Reply(r, 500) /\ UNCHANGED row
    /\ UNCHANGED <<worldVars, limiterVars, role, issued, touching, agents, samplesVars,
                   viewVars, left>>

(* Handlers that change nothing here; what they answer is left out.        *)
Serve(r) ==
    /\ \E kind \in {"operate", "listTokens", "health"} : Handles(r, kind)
    /\ Reply(r, 0)
    /\ UNCHANGED <<worldVars, limiterVars, tokenVars, agents, samplesVars, viewVars,
                   left>>

----------------------------------------------------------------------------
(* agent.Handler.Register; EventHub models the event it publishes.         *)

Register(r) ==
    /\ Handles(r, "register")
    /\ \/ conn[r].body = "malformed" /\ Reply(r, 400) /\ UNCHANGED agents
       \/ conn[r].body # "malformed" /\ Upsert(conn[r].body) /\ Reply(r, 201)
       \/ /\ Faults /\ conn[r].body # "malformed"
          /\ Upsert(conn[r].body) \/ UNCHANGED agents
          /\ Reply(r, 500)
    /\ UNCHANGED <<worldVars, limiterVars, tokenVars, samplesVars, viewVars, left>>

----------------------------------------------------------------------------
(* telemetry.Handler: decode, AgentExists, Store, then publish and start   *)
(* an evaluation.                                                          *)

CheckAgent(r) ==
    /\ Handles(r, "ingest")
    /\ \/ conn[r].body.agent = "malformed" /\ Reply(r, 400)
       \/ /\ conn[r].body.agent # "malformed"
          /\ IF Contains(agents, conn[r].body.agent) THEN Goto(r, "store")
             ELSE Reply(r, 404)
       \/ Faults /\ conn[r].body.agent # "malformed" /\ Reply(r, 500)
    /\ UNCHANGED <<worldVars, limiterVars, tokenVars, agents, samplesVars, viewVars,
                   left>>

(* What the queries of an overview that is under way can find.             *)
Counting == {"loop", "classify"}
Finds(latest, t) == [latest |-> latest, at |-> t]
Noted ==
    seen' = [r \in Slots |-> [a \in Agents |->
        IF conn[r].pc \in Counting /\ \A f \in seen[r][a] : f.latest # GetLatest(a)'
        THEN seen[r][a] \cup {Finds(GetLatest(a)', now)}
        ELSE seen[r][a]]]

StoreUnchecked(r) ==
    /\ conn[r].pc = "store"
    /\ \/ /\ Insert(conn[r].body.agent, conn[r].body.time, now)
          /\ stored' = stored \cup {conn[r].body}
          /\ Goto(r, "announce")
       \/ Faults /\ Goto(r, "announce") /\ UNCHANGED <<telemetry, stored>>
    /\ UNCHANGED <<worldVars, limiterVars, tokenVars, agents, announced, view, left>>
    /\ Noted
Store(r) ==
    /\ conn[r].pc = "store"
    /\ \/ /\ Insert(conn[r].body.agent, conn[r].body.time, now)
          /\ stored' = stored \cup {conn[r].body}
          /\ Goto(r, "announce") \/ (Faults /\ Reply(r, 500))
       \/ Faults /\ Reply(r, 500) /\ UNCHANGED <<telemetry, stored>>
    /\ UNCHANGED <<worldVars, limiterVars, tokenVars, agents, announced, view, left>>
    /\ Noted

Announce(r) ==
    /\ conn[r].pc = "announce"
    /\ announced' = announced \cup {conn[r].body}
    /\ Reply(r, 201)
    /\ UNCHANGED <<worldVars, limiterVars, tokenVars, agents, telemetry, stored,
                   viewVars, left>>

----------------------------------------------------------------------------
(* Service.Overview: one list, then for each agent one query, and later    *)
(* the clock.                                                              *)

ListAgents(r) ==
    /\ Handles(r, "overview")
    /\ \/ /\ Goto(r, "loop")
          /\ view' = [view EXCEPT ![r] =
                [NoView EXCEPT !.todo = agents, !.total = Len(agents)]]
          /\ seen' = [seen EXCEPT ![r] =
                [a \in Agents |-> {Finds(GetLatest(a), now)}]]
       \/ Faults /\ Reply(r, 500) /\ UNCHANGED viewVars
    /\ UNCHANGED <<worldVars, limiterVars, tokenVars, agents, samplesVars, left>>

NothingSeen == [a \in Agents |-> {}]
Forget(r) == view' = [view EXCEPT ![r] = NoView] /\ seen' = [seen EXCEPT ![r] = NothingSeen]
Found(r, latest) ==
    Goto(r, "classify") /\ view' = [view EXCEPT ![r].latest = latest] /\ UNCHANGED seen
QueryAgentIgnoring(r) ==
    /\ conn[r].pc = "loop"
    /\ view[r].todo # <<>>
    /\ \/ Found(r, GetLatest(Head(view[r].todo)))
       \/ Faults /\ Found(r, None)
    /\ UNCHANGED <<worldVars, limiterVars, tokenVars, agents, samplesVars, left>>
QueryAgent(r) ==
    /\ conn[r].pc = "loop"
    /\ view[r].todo # <<>>
    /\ \/ Found(r, GetLatest(Head(view[r].todo)))
       \/ Faults /\ Reply(r, 500) /\ Forget(r)
    /\ UNCHANGED <<worldVars, limiterVars, tokenVars, agents, samplesVars, left>>

(* By then others may have stored or purged, and time may have passed.     *)
CountAgent(r) ==
    /\ conn[r].pc = "classify"
    /\ view' = [view EXCEPT ![r].todo = Tail(@), ![r].latest = None,
                            ![r].counts[Health(view[r].latest, now)] = @ + 1]
    /\ Goto(r, "loop")
    /\ UNCHANGED <<worldVars, limiterVars, tokenVars, agents, samplesVars, seen, left>>

ShowOverview(r) ==
    /\ conn[r].pc = "loop"
    /\ view[r].todo = <<>>
    /\ Reply(r, 200)
    /\ Forget(r)
    /\ UNCHANGED <<worldVars, limiterVars, tokenVars, agents, samplesVars, left>>

----------------------------------------------------------------------------
(* Around the requests.                                                    *)

Tick ==
    /\ now < env.until
    /\ now' = now + 1
    /\ UNCHANGED <<limit, env, thresholds, limiterVars, tokenVars, agents, samplesVars,
                   conn, viewVars, left>>

(* The retention worker; Retention models all it does.                     *)
PurgeTelemetry ==
    /\ Purge(now)
    /\ UNCHANGED <<worldVars, limiterVars, tokenVars, agents, announced, stored, conn,
                   view, left>>
    /\ Noted

TokenStep(t) ==
    /\ Touch(t) \/ Lapse(t)
    /\ UNCHANGED <<worldVars, limiterVars, agents, samplesVars, conn, viewVars, left>>

Init ==
    /\ env \in Environments
    /\ now = 0
    /\ limit = LoadInt(env.limit, DefaultLimit)
    /\ thresholds = LoadThresholds(env.healthy, env.stale)
    /\ NewRateLimiter
    /\ TokenTable(env.tokens)
    /\ FleetTables(env.agents)
    /\ left = env.load
    /\ conn = [r \in Slots |-> NoRequest]
    /\ view = [r \in Slots |-> NoView]
    /\ announced = {} /\ stored = {}
    /\ seen = [r \in Slots |-> NothingSeen]

Handle(r) ==
    \/ CreateToken(r) \/ DeleteToken(r) \/ Serve(r)
    \/ Register(r)
    \/ CheckAgent(r) \/ Store(r) \/ Announce(r)
    \/ ListAgents(r) \/ QueryAgent(r) \/ CountAgent(r) \/ ShowOverview(r)

Next ==
    \/ \E r \in Slots : Arrive(r) \/ Authenticate(r) \/ Gate(r) \/ Handle(r)
    \/ Tick \/ PurgeTelemetry
    \/ \E t \in Tokens : TokenStep(t)

Spec == Init /\ [][Next]_vars

----------------------------------------------------------------------------
(* Properties.                                                             *)

ConnTypeOK ==
    \A r \in Slots :
        /\ conn[r].pc \in {"idle", "auth", "gate", "handle", "store", "announce"} \cup Counting
        /\ conn[r].token \in Tokens \cup {NoToken}
        /\ conn[r].role \in Roles \cup {"none"}
        /\ conn[r].late \in BOOLEAN
        /\ conn[r].answer \in {0, 200, 201, 204, 400, 401, 403, 404, 429, 500}
        /\ view[r].total = Len(view[r].todo) + view[r].counts["healthy"]
                + view[r].counts["stale"] + view[r].counts["offline"]

TypeOK ==
    /\ now \in Nat /\ left \in Nat
    /\ LimiterTypeOK /\ TokensTypeOK /\ FleetTypeOK /\ ConnTypeOK
    /\ seen \in [Slots -> [Agents -> SUBSET [latest : Nat \cup {None}, at : 0 .. now]]]

(* A deleted token is dead: no request that arrives after the row is gone  *)
(* gets past the middleware, although an update of last_used_at may be     *)
(* under way and ids may be deleted again (DeleteToken, Middleware).       *)
RevokedIsRefused == \A r \in Slots :
    env.auth /\ conn[r].late /\ conn[r].kind \notin Public =>
        conn[r].pc = "auth"

(* Nobody who holds a token can administer them, and no request given the  *)
(* role before is still under way.                                         *)
LockedOut ==
    /\ env.auth
    /\ \A t \in issued : ~(role[t] = "admin" /\ Authentic(t))
    /\ \A r \in Slots : conn[r].role # "admin"

(* Nobody rises to administrator but through one: when the last token of   *)
(* an administrator is gone, and the requests it authorised are over, none *)
(* is ever made again, whatever operators, viewers, failing statements and *)
(* updates of last_used_at do (RequireRole, CreateToken).                  *)
LockoutLasts == [][LockedOut => LockedOut']_vars

(* An answer 429 means that limit requests of the same address passed in   *)
(* the window before it: those refused, by whatever middleware, and those  *)
(* of other addresses do not count (RateLimiter.Limit).                    *)
RefusedOnlyAtLimit ==
    [][\A r \in Slots : conn[r].pc = "gate" /\ conn'[r].answer = 429 =>
        Len(Kept(admitted[conn[r].ip], (now - Window + 1) .. now)) >= limit]_vars

(* What the streams and the alert engine hear of was committed, even if    *)
(* statements fail or lose their reply (persistTelemetry).                 *)
AnnouncedIsStored == announced \subseteq stored

(* What the API shows as the last time an agent was seen only moves        *)
(* forward, late samples, repeated ones and purges notwithstanding, until  *)
(* everything it sent is purged (GetLatest).                               *)
LastSeenAdvances ==
    [][\A a \in Agents :
        GetLatest(a)' >= GetLatest(a) \/ GetLatest(a)' = None]_telemetry

(* The class that Health answers if nothing comes between query and clock. *)
Status(a) == Health(GetLatest(a), now)

(* An agent gets better only by a sample of its own that is stored in that *)
(* step and is its newest: not by a registration, by time, by a purge, by  *)
(* a late sample or by a clock that is ahead.                              *)
OnlyASampleHeals ==
    [][\A a \in Agents : Rank(Status(a))' > Rank(Status(a)) =>
        /\ Len(telemetry'[a]) > Len(telemetry[a])
        /\ Last(telemetry'[a]).time > GetLatest(a)]_vars

(* An agent that reports no more is offline in time, by the clock of the   *)
(* server, however far its own clock was ahead and whatever thresholds the *)
(* environment asked for (Health, NewService).                             *)
Silent(a) ==
    {0} \cup {telemetry[a][k].created : k \in DOMAIN telemetry[a]}
OfflineInTime ==
    \A a \in Agents :
        LET bound == {thresholds.stale + Second - 1, thresholds.healthy + Second}
        IN  (\A b \in bound, c \in Silent(a) : now - c >= Ahead + b)
                => Status(a) = "offline"

(* An agent passes through "stale" before it is offline, if the thresholds *)
(* in force are more than a second apart, and rows are kept that long      *)
(* (README: "tracks agent status (healthy, stale, offline)").              *)
StaleBeforeOffline ==
    [][thresholds.stale > thresholds.healthy + Second
           /\ Retention >= thresholds.healthy + Second =>
        \A a \in Agents : Status(a) = "healthy" => Status(a)' # "offline"]_vars

(* An overview counts every agent it listed once, by the time it was last  *)
(* seen at some moment while the overview was made and by the clock of     *)
(* that moment or a later one, although agents report and are purged and   *)
(* time passes between its queries and its readings of the clock.  That    *)
(* can be a class the agent never had, but none better than all it had.    *)
OverviewIsPlausible ==
    \A r \in Slots : conn[r].pc = "loop" /\ view[r].todo = <<>> =>
        \E class \in [ToSet(SubSeq(agents, 1, view[r].total)) -> Classes] :
            /\ \A a \in DOMAIN class : \E f \in seen[r][a] :
                \E t \in f.at .. now : class[a] = Health(f.latest, t)
            /\ \A c \in Classes :
                view[r].counts[c] = Cardinality({a \in DOMAIN class : class[a] = c})

(* A chart shows the newest records of its range, in the order of time,    *)
(* whenever it read the clock for the two ends of the range.               *)
ChartShowsNewest ==
    \A a \in Agents, range \in Ranges, end \in 0 .. now : \A start \in 0 .. end :
        LET points == Analytics(a, range, start, end)
            inside == Between(a, start - range, end)
            times(s) == {s[k].time : k \in DOMAIN s}
        IN  /\ \A i, j \in DOMAIN points : i < j => points[i].time <= points[j].time
            /\ Len(points) = (IF Len(inside) < MaxPoints THEN Len(inside) ELSE MaxPoints)
            /\ \A t \in times(inside) \ times(points) : \A u \in times(points) : t < u
=============================================================================
