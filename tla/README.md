# Formal models of opsnexus-backend

TLA+ models of the OpsNexus backend, the TLC runs that check them on small
instances, and TLAPS proofs of the results that matter most for every instance.
Paths below are relative to the repository; `PROJECT.json` maps every definition
to the lines it stands for.

## 1. The system

A Go HTTP server in front of PostgreSQL. Agents post samples; each accepted sample
is stored, broadcast to event streams, and evaluated against the alert rules by a
goroutine of its own. Evaluations open and resolve alerts, publish them to the
streams and enqueue notifications, which workers send to webhooks with retries. A
worker summarises and purges old samples. Operators acknowledge alerts and edit
rules and channels.

| Component | State | Operations | What is hard | What makes it correct |
|---|---|---|---|---|
| Alert engine (`alerting/engine.go`, `repository.go`, `handler.go`) | `alert_rules`, `alerts`; `Engine.sustained` in memory | evaluate a sample; acknowledge; create, update, delete rules (cascade) | no lock or transaction around lookup, write and publication; any number of evaluations at once; failing statements; restart | alerts follow their life cycle; each transition announced at most once; few duplicates, and all resolved in the end; `for_duration` respected |
| Notification queue (`notifications/queue.go`, `repository.go`) | `notification_channels`, `notification_deliveries`; job channel | Enqueue; four workers sending and retrying; create, delete channels | bounded channel that the workers also refill; ignored errors; lost replies; crash | each delivery sent a bounded number of times, settled once, truthfully, and in the end |
| Event hub (`events/hub.go`, `handler.go`) | clients, four channels, one buffer per client | register, unregister, broadcast, heartbeat, stop | one loop that learns of everything late and in any order; slow readers | no send on a closed channel; no silent gaps; clients that leave are removed |
| Retention worker (`retention/worker.go`) | `telemetry`, `telemetry_hourly` | rollup, purge, at start and every hour | cutoff inside an hour, late samples, crash between the statements, failing rollups | nothing purged before it is summarised; exact summaries; bounded age |
| Rate limiter (`middleware/middleware.go`) | times per address | admit, refuse | boundaries of window and limit; a refusal rewrites the list | never more than the limit in a window; never refused below it |
| Telemetry ingestion (`telemetry/`) | `telemetry` | decode, check agent, store, publish, start an evaluation; latest and history queries | lost replies and retries; samples late, or from a clock ahead | announced implies stored; the time an agent was last seen moves forward |
| Authentication (`auth/auth.go`) | `api_tokens` | create, delete, check tokens; roles; `last_used_at` updated later | a token deleted or expired under way; a creation that commits but seems to fail | a deleted token is dead; nobody becomes administrator but through one |
| Observability (`observability/`) | the two thresholds | health, charts, overview | defaults that cross, ages cut to seconds, one query per agent and the clock after it | silent agents are offline in time; only a sample heals; overviews are plausible, charts newest and in order |
| Agent registry (`agent/`) | `agents` | register (upsert), list | registrations repeated while overviews go on | identities are listed once |
| Server (`cmd/server`, `server`, `database`) | none | wiring, migrations at each start, shutdown | the order of the middlewares; streams that never end | each request passes authentication, limiter and role; restart keeps the tables |
| Configuration, health endpoint | none | parse with defaults, ping | values that are rejected or 0 | |

How they interact: the ingestion handler calls `Hub.Publish` (never blocks) and
starts `Engine.EvaluateTelemetry`; the engine calls `Hub.Publish` and
`Queue.Enqueue` in its own goroutine; everything else is shared through the
database, where foreign keys cascade rule, alert and delivery deletions.

## 2. The modules

| Module | Models |
|---|---|
| `AlertLifecycle` | abstract: what the alerting component promises about one alert |
| `AlertEngine` | the engine, its two tables, acknowledge requests, the rule editor, restart |
| `AlertEngineHistory` | the same with a history variable: how long ago each agent was last under each rule |
| `AlertEngineProofs`, `AlertEngineHistoryProofs` | the theorems about `AlertEngine`, and about its history |
| `DeliveryLedger` | abstract: what the delivery log promises about one delivery |
| `NotificationQueue` | Enqueue, job channel, workers, delivery log, channels, restart |
| `EventHub` | `Hub.Run`, `Publish`, `Subscribe`, the stream handlers |
| `Retention` | the worker, the raw table and the hourly table |
| `Selection` | the loop that keeps what passes a test, as the code and a WHERE have it |
| `ApiTokens` | roles, the table `api_tokens` and its statements |
| `RateLimiter` | `RateLimiter.Limit` |
| `Fleet` | the tables `agents` and `telemetry`, their queries, thresholds, health and charts |
| `Requests` | composes the three: a request from its arrival through authentication, limiter and role to its handler and its answer |
| `EventHubProofs`, `NotificationQueueProofs`, `RetentionProofs` | the theorems about those modules |
| `RequestsProofs`, `FleetProofs` | the theorems about `Requests`: tokens and the limiter, and agents and their samples |
| `DataLemmas` | facts about `Kept`, and induction over numbers and sequences |
| `MC*` | values and symmetries for TLC |

**AlertEngine.** One action is one SQL statement or one critical section of
`Engine.mu`, so that all goroutines interleave as they can. An evaluation goroutine
walks through `load` (ListRules), `rules` (the critical section of
`processSustainedAndState`), `duration` (the `for_duration` test on its own copy of
the time), `lookup` (GetActiveAlert), `create` or `resolve`, `publish`, `enqueue`,
and back to the loop over its rules. A slot of `Evaluators` stands for one such
goroutine at a time. Its sample and the rules it listed are both fixed after the
listing, so it keeps the verdicts they give. Times are kept as ages that saturate
at `MaxAge`. A failing statement (`Faults`) may commit or not; a failing listing
may hide rules, since `rows.Err()` is never asked; a failing lookup reads as "no
alert", as `repository.go:298` has it. `Restart` forgets the memory and seeds the
default rules again. An alert row that is deleted with its rule keeps its history
in the model with `present = FALSE`.

**NotificationQueue.** A caller walks through `list`, `create`, `offer` and `full`,
a worker through `send`, `pause` and the recording of the result. Receivers are
external: an attempt may reach the receiver and still fail, by a lost reply or the
timeout of 10 s.

**EventHub.** The actions of `Hub.Run` are the branches of its select. The loop over
the clients under the lock is one step, because each client has its own buffer and
the readers cannot tell the order of the sends. Events are numbered as the hub
accepts them. `since` and `skipped` are history.

**Retention.** Time advances in slots of half an hour; the server starts in any
slot, so passes are not aligned to hours. A pass takes less than a slot. One
metric stands for the aggregated columns.

**Requests.** It EXTENDS `ApiTokens`, `RateLimiter` and `Fleet`, which hold the state
and the statements of one package each, and puts the statements in the order in which
`server.New` and the handlers run them. A slot is one HTTP request at a time. Its `pc`
walks through `auth` (`Authenticator.Middleware`), `gate` (the limiter around
`RequireRole`; a request without the role counts), `handle`, and for an ingestion
`store` and `announce`, for an overview the `loop` over the agents it listed. `Service.Health` queries the newest
sample and reads the clock after that, so an agent takes two steps: `QueryAgent` keeps what
was found in `view`, and `CountAgent`, at `classify`, compares it with the clock of that
later moment, whatever was stored or purged in between. Every
SQL statement is a step of its own; with `Faults` it may fail before or after it
committed. Between the steps of one request, other requests, the asynchronous updates
of `last_used_at`, the expiry of tokens, the purge and the clock go on. What a request
knows is what it read: the role of its token, the list of agents, not the tables. The
rate limiter's body is one action, as it runs under its mutex. Rates, ages and
thresholds share one clock in ticks, `Second` ticks to the second; ages are cut to
seconds as the code cuts them. `ORDER BY timestamp DESC` leaves the order of rows of the
same time open, and so does `NewestFirst`. `operate` stands for the handlers of alerts, rules and
channels, whose tables are modelled in `AlertEngine` and `NotificationQueue`.

**How the modules fit together.** `Requests` ends where `Announce` publishes the sample
and starts an evaluation: the samples that `AlertEngine` evaluates are those that
`AnnouncedIsStored` speaks of, in any order, as its goroutines run in any order.
`AlertEngine` ends where it calls `Enqueue`: `NotificationQueue` assumes that a
transition is enqueued at most once, which is what `AnnouncedOnce` says and
`EachTransitionAnnouncedOnce` proves of the engine. `EventHub` assumes nothing of its
publishers. The purge of `Requests` is that of `Retention`.

## 3. The runs

| Run | Checks | Shows | Bounds |
|---|---|---|---|
| `AlertEngine_safety` | `TypeOK`, `DuplicatesBounded`, `AnnouncedOnce`, `PublishedOrOwned`, `LifecycleSpec` | active alerts and evaluations about to open one never outnumber the evaluations; each transition is announced at most once, and none is lost without a crash or fault; the engine implements `AlertLifecycle` | 2 evaluations, 2 alert identities, 1 operator, 1 rule edit or deletion, 1 restart, interrupted rule listings |
| `AlertEngine_single` | `OneActivePerKey`, `UneditedFiresOnlySustained` | one evaluation at a time never opens a second alert, and while no rule is edited none before its `for_duration` | 2 rules, 2 identities, failing create, resolve and acknowledge, 1 edit, 1 restart, `for_duration` 1 |
| `AlertEngine_liveness` | `Recovers`, `SustainedFires` | a lasting condition fires; all alerts, duplicates and acknowledged ones included, are resolved when the metric stays back | 2 evaluations, 2 identities, 1 operator, a rule created at any time, `for_duration` 1 |
| `AlertEngine_lookup_error` | `OneActivePerKey` | **violated**: a failing lookup opens a second alert | 1 evaluation |
| `AlertEngine_disabled_rule` | `FiresOnlySustained` | **violated**: a re-enabled rule fires on an old sustained entry | 1 evaluation, 2 edits, `for_duration` 2 |
| `NotificationQueue_ledger` | `TypeOK`, `OneOwner`, `LogIsTrue`, `LedgerSpec` | a delivery is in one place at a time; the log says what happened; the queue implements `DeliveryLedger` | 1 caller, 2 workers, queue of 1, 2 channels, 3 deliveries, 2 attempts, failing statements, lost replies, channels deleted under way, 1 restart |
| `NotificationQueue_liveness` | `PendingHasOwner`, `Settles` | every pending delivery has an owner, and every delivery is settled | 2 callers, 1 worker, queue of 1, 2 deliveries: worker and queue can both be occupied by retries |
| `EventHub_streams` | `TypeOK`, `RegisteredIsOpen`, `NoSilentGap`, `CloseEndsStream`, `LeaverIsRemoved` | no send on a closed channel; an event is missed only by a full buffer; streams end when closed; leavers are removed | 2 clients with buffers of 2, a register channel of 1, 3 events, stop at any time |
| `EventHub_forgotten` | `GoneIsForgotten` | **violated**: a client deregistered before it is registered stays for ever | 2 clients, 1 event |
| `Retention_passes` | `TypeOK`, `RetentionEnforced`, `PurgedWereSummarised`, `ExactWhileRetained` | raw samples are bounded in age although rollups fail; a pass whose rollup succeeded purges only what was summarised; retained hours are exact | 6 slots of half an hour, retention of 4, late samples, rows that cannot be cast, failing statements, 1 crash, downtimes longer than the retention |
| `Retention_partial` | `SummariesOnlyGrow` | **violated**: summaries shrink when their hour is purged in part | one slot more than `Retention_passes` |
| `Requests_path` | `TypeOK`, `RevokedIsRefused`, `LockoutLasts`, `AtMostLimit`, `RefusedOnlyAtLimit`, `AnnouncedIsStored`, `LastSeenAdvances`, `OnlyASampleHeals`, `OfflineInTime`, `StaleBeforeOffline`, `OverviewIsPlausible`, `ChartShowsNewest` | deleted tokens are dead and lockouts final; the limit holds in every window and refusals are justified; what is announced was stored; health follows the samples although clocks are ahead, samples late and thresholds left out; overviews and charts are right while rows come and go | 2 requests at a time, at most 4 in all, failing statements; see below |

`Requests_path` starts in one of five environments (`MCRequests`), one for each way in
which requests meet, since all at once would only multiply states that do not interact:

| Environment | What happens in it | Bounds |
|---|---|---|
| `Guarded` | an administrator and an operator create and delete tokens against each other | 3 tokens, 3 requests |
| `Limiting` | a viewer, from two addresses, is let through, refused for its role and refused for the limit | limit 2, window 2, 4 requests, 3 ticks |
| `Watching` | overviews go on while agents report, rows are purged and time passes | 2 agents, 3 requests, 3 ticks |
| `Aging` | an agent registers and reports, late or from a clock ahead; all its samples age until they are purged | 2 requests, 7 ticks, healthy 1, stale 4, retention 4 |
| `Unset` | the same where only the healthy threshold is configured, above the default of the stale one: the defaults cross, and no agent is ever stale; the limit is a value that is not accepted | healthy 5, stale 4 by default, 9 ticks |

In all of them a second has 2 ticks, clocks are up to 2 ticks ahead, samples up to 1
late, and a chart shows 2 records, of a range of 2 ticks, by any two readings of the clock.
With three samples in a range, one is cut off and the order of the other two shows: without
the reversal of `Analytics` the run fails.

Why the bounds are enough: the races of tokens need one request under way while another
deletes its token, and a third that arrives afterwards; the limiter needs a window that
slides past the first admissions, with refusals before and after; an overview needs a
list of two agents whose class changes between its two queries, a row that is purged in
between, and a newer sample and the boundary of a second between a query and the reading
of the clock after it; health needs a sample to pass both thresholds, the purge to come before and
after them, and more ticks than one to a second so that cutting ages matters. The races of the engine need two goroutines that meet at
one row; `DuplicatesBounded` counts the goroutines about to insert, so two identities
and two goroutines already suffice to break it when duplicates pile up. Retries, the
full queue and the blocked hub channels need capacities of one and one actor more
than fits. The retention needs an hour that is purged in part, a complete one after
it, and a downtime longer than the retention.

Deadlock is checked except where the system may stop: when there is nothing left to
enqueue, after the hub was stopped, when the bounded time is over, and when the bounded
number of requests was served.

**Violations.** `AlertEngine_lookup_error`: `GetActiveAlert` swallows every error
(`repository.go:298`), so the error branch of its caller (`engine.go:124`) is dead
and a second alert is opened. `AlertEngine_disabled_rule`: disabled rules are
skipped before their sustained entry is cleared, so that the time in which the rule
was off counts. `EventHub_forgotten`: `select` picks at random between `register`
and `unregister`, and a deregistration that comes first is ignored.
`Retention_partial`: the cutoff of the purge lies inside an hour, and the upsert
replaces the complete summary of that hour by that of the rest.

**What the properties leave out, because the code does not promise it.** Commit and
publication are separate steps of independent goroutines, so announcements of one
alert can overtake each other in the stream; their order is not a property here.
`UneditedFiresOnlySustained` is checked for one evaluation at a time: with several,
one that has passed the duration test fires although a sample under the threshold
arrived meanwhile. It is checked without interrupted listings of the rules, since a
rule that a listing hides keeps its sustained entry, as a disabled one does.
`PublishedOrOwned` speaks of runs without restarts and failing statements: an
announcement lost in a crash is never made up for. `PurgedWereSummarised` speaks of
passes whose rollup succeeded: after a failed one the purge goes on and the samples
are lost, as the code has it. A token is checked once: a request that was authorised
goes on after its token was deleted, so `RevokedIsRefused` speaks of requests that
arrive later, and `LockoutLasts` waits for those under way. A sample whose insert
committed but seemed to fail is stored and never announced; `AnnouncedIsStored` states
the direction that holds. A default for the stale threshold can lie below the healthy
one; then no agent is ever stale, and `StaleBeforeOffline` has the premise that the
thresholds are more than a second apart. An overview is no snapshot: each agent is
counted by a time it was last seen at some moment while the overview was made (`seen`
keeps those a query could find), and by the clock of that moment or a later one, not all
at the same moment. It can be a class the agent never had: the query finds an old sample, a
newer one is stored, time passes, and by the old one the agent is stale although it was
healthy throughout. `OverviewIsPlausible` allows that, as the code does; it excludes that
an agent is counted twice or not at all, by a sample from before the overview began that
was no longer the newest, or by a failed query as if it had found nothing. The
`latest_telemetry` of an overview is left out. The
order in which notifications of one alert arrive is nobody's promise either.

`Retention` bounds how late a sample may be and has no timestamps in the future, which
`Requests` has; summaries of a failed rollup are lost as said above. No property covers a
few hazards, because what can go wrong there is what the code does: announcements of one
alert that overtake each other, an announcement lost in a crash, events between the first
line of a stream and its registration, rows that a rollup could not summarise, and the
number of addresses the limiter remembers. PROJECT.json lists them with the reason.

**Fairness.** `AlertEngine`: every goroutine and request is scheduled, time passes,
agents keep reporting; nobody has to acknowledge or edit anything. The queue:
callers and workers are scheduled, and every request ends within its timeout.
`EventHub`: Go's `select` picks among ready branches at random, so a branch that
stays ready is taken; the heartbeat, the stop and the clients are not fair. Safety
runs, `Requests_path` among them, assume nothing: no client has to send, and what a
handler must eventually answer is up to the database and net/http.

## 4. What is proved

Every invariant and every action property of the passing runs, and both refinements,
are proved for all values of the constants under the assumptions the modules name; the
premises beyond those are given below. What TLC alone checks is at the end.

`AlertEngineProofs`, for any sets of rules, agents, samples, identities, goroutines
and requests, any faults and any number of edits and restarts. The assumptions are
those `AlertEngine` names: evaluators and identities are finite, metrics and
thresholds are integers, durations do not exceed `MaxAge`.

| Theorem | Statement |
|---|---|
| `TypeCorrect` | `Spec => []TypeOK` |
| `EachTransitionAnnouncedOnce` | `Spec => []AnnouncedOnce` |
| `NoTransitionIsMissed` | `Spec => []PublishedOrOwned` |
| `EngineImplementsLifecycle` | `Spec => LifecycleSpec` |
| `DuplicatesNeverAccumulate` | without lookup faults, `Spec => []DuplicatesBounded` |
| `OneAlertAtATime` | with a single evaluation slot and no lookup faults, `Spec => []OneActivePerKey` |

The argument. `TypeOK` is not inductive: what a goroutine holds depends on where it
is, so `TypeInv` adds `Located` (a goroutine that resolves or announces holds an
alert, one that creates has a triggered verdict). `AnnouncedOnce` rests on
ownership, `OwnershipInv`: a transition that has been reached and not announced is
owned by at most one goroutine or request, the one whose statement passed the WHERE
clause; only the owner announces it and gives it up by doing so; what is announced
was reached. The same invariant gives the refinement: `Publish` and `AckPublish` map
to `Announce`, the statements to `Open`, `Acknowledge` and `Resolve`, a rule deletion
to `Remove`, and all other steps stutter. `DuplicatesBounded` counts
the goroutines about to create an alert together with the active ones, which makes
it inductive on top of `TypeInv`: a goroutine gets there only if its lookup found
none, and the insert turns the goroutine into the alert it was counted for. It fails
with lookup faults, hence the premise.

`PublishedOrOwned` is the other direction of ownership: a transition that was reached
and not announced has an owner. `Handover` says that every step but a restart or a
failing statement leaves each owner in place or announces what it owns, and
`CommittedIsOwned` that whoever reaches a transition owns it in the next state. The
premise, no restart and no fault that hides a commit, is part of the property.

`AlertEngineHistoryProofs`, with a single evaluation slot and no interrupted listings,
the two premises under which the run checks the property too:

| Theorem | Statement |
|---|---|
| `AlertsAreNeverEarly` | if `Evaluators = {e}` and `"rules" \notin Faults`, `HSpec => []UneditedFiresOnlySustained` |

`UneditedInv` relates the engine's memory to the history: while no rule was edited, a
sustained entry is never older than the last sample of that agent under the threshold,
unless the goroutine holds that sample and has not reached the rule yet
(`SeenSinceClear`); the rules still to do have one verdict each (`OneVerdictPerRule`);
and a goroutine past the duration test has an entry that lasted (`LastedSoFar`).

`NotificationQueueProofs`, for any channels, alerts, callers and workers, any capacity,
number of retries, restarts and failing statements. The assumptions: capacity and
retries are positive, the ids of deliveries are finite in number, and `None` is neither
an id nor a job.

| Theorem | Statement |
|---|---|
| `QueueTypeCorrect` | `Spec => []TypeOK`: the channel never exceeds its capacity, and no delivery is sent more than `MaxRetries` times |
| `DeliveryHasOneOwner` | `Spec => []OneOwner` |
| `LogTellsTheTruth` | `Spec => []LogIsTrue` |
| `QueueImplementsLedger` | `Spec => LedgerSpec` |
| `PendingIsOwned` | `Spec => []PendingHasOwner` |

None of these is inductive. That a delivery is sent at most `MaxRetries` times follows
only if nobody else sends it too, so `QueueInv` says where a delivery can be: with one
caller, in one place of the channel, or with one worker (`Alone`). What is in such a
place is still pending, and the attempt number of its job tells how often it was sent
(`OwnedIsCounted`); hence what is written when it is settled is what happened, and the
one who settles it is the last to touch it, which gives the refinement of
`DeliveryLedger`. `Locals` says which variables of a goroutine mean something at which
place. The other direction, that a pending delivery has an owner, needs its own
invariant `NoneForgotten`, which fails as soon as an insert can seem to fail.

`EventHubProofs`, for any set of connections, any positive capacities and any number of
events:

| Theorem | Statement |
|---|---|
| `NoSendOnClosed` | `Spec => []RegisteredIsOpen` |
| `HubTypeCorrect` | `Spec => []TypeOK`: no channel or buffer exceeds its capacity |
| `StreamsHaveNoGap` | `Spec => []NoSilentGap` |

`RegisteredIsOpen` (no registered client has a closed channel) is not inductive: the
head of the register queue might be closed already. `HubInv` adds why it is not: a
connection is queued once in its life, and until its registration is processed it is
neither among the clients nor closed, since a deregistration that comes first is
ignored. The same remark makes `GoneIsForgotten` fail. `TypeOK` lacks that the broadcast
channel holds no more events than were accepted (`HubTypeInv`), without which the number
of events taken could be negative. `NoSilentGap` speaks of what a client was shown;
`StreamInv` extends it to what is on the way there: the broadcast channel holds the
events from the last one taken to the last accepted (`Numbered`), the events in the
buffer of a client that no send skipped are those that follow the last it was shown, or
the one it registered after, up to the last one taken (`Gapless`), and a connection not
registered yet has neither (`FreshIsUntouched`).

`RequestsProofs`, for any tokens, addresses, agents and requests at a time, any
configurations and any failing statements. The assumptions: the tokens of a
configuration are tokens with roles, and `NoToken` is none.

| Theorem | Statement |
|---|---|
| `DeletedTokensAreDead` | `Spec => []RevokedIsRefused` |
| `NobodyRises` | `Spec => LockoutLasts` |
| `OnlyStoredIsAnnounced` | `Spec => []AnnouncedIsStored` |
| `WindowsHoldTheLimit` | `Spec => []AtMostLimit` |
| `RefusalsAreJustified` | `Spec => RefusedOnlyAtLimit` |

`RevokedIsRefused` alone does not say why the token of a late request fails the check
at `auth`, so `Known` adds that its row is deleted, which is permanent. `LockoutLasts`
needs that a request is in a handler only with the role the handler requires
(`Credentials`), and that it shows a token that was handed out: under a lockout no
`CreateToken` can be reached. That an announced sample is stored rests on the same
invariant, as the sample waits in `announce` only after its insert.

The limiter's list is not what the properties count: a refusal rewrites it, and the times
that leave the window are dropped only by the next request. `LimiterInv` says per address
(`Tallies`) that the list and the history of admissions hold the same times of the
current window, hence of every later one, and that no window of the history ever held more
than the limit. Filtering with a later window what was filtered with an earlier one loses
nothing more (`KeptTwice`), which keeps that true over refusals.

`FleetProofs`, for any agents, thresholds, retention, clocks ahead and samples late, goes
on from there to agents and samples:

| Theorem | Statement |
|---|---|
| `LastSeenMovesForward` | `Spec => LastSeenAdvances` |
| `SamplesHeal` | `Spec => OnlyASampleHeals` |
| `SilentAgentsGoOffline` | `Spec => []OfflineInTime` |
| `StaleComesFirst` | `Spec => StaleBeforeOffline` |
| `OverviewsArePlausible` | `Spec => []OverviewIsPlausible` |
| `ChartsAreNewest` | `Spec => []ChartShowsNewest` |
| `RequestTypes` | `Spec => []TypeOK` |

`FleetInv` says that agents are listed once and never leave the list, that a request
carries a sample only of an agent that is listed, and that a row has a time at most
`Ahead` beyond the one it was inserted at (`Dated`). A step does one of five things to
agents, rows and the clock (`TableSteps`), and each has its effect on the newest time of an
agent (`NewestMoves`): it grows by an insert, and a purge can only forget it once it is
older than the retention, when the agent is offline anyway. The four properties of health
follow with the arithmetic of ages cut to seconds (`CutAge`, `CutAgeGrows`).
`OverviewIsPlausible` speaks of finished overviews; `OverviewInv` says the same of the
agents counted so far (`Viewing`), whose classes can be assigned so that the counts come
out, and of those to do, which are the rest of the list that was read: agents that are
registered meanwhile come after them. The classes are those that a time in `seen` gives by
a clock since it could be found (`Given`); they only become more as samples are stored or
purged and time passes (`GivenGrows`), so a class once counted stays justified. What a query
finds is in `seen`, since every step that changes the newest time of an agent notes it, and
stays there until the clock is read. `ChartShowsNewest` needs that any rows can be ordered
by their times at all (`OrderExists`, by induction over their number), as `NewestFirst` is
a choice among such orders, and that cutting and reversing an order leaves one.

`RetentionProofs`, for any retention of at least an hour, interval, start, downtimes and
failing statements. `NewWorker` turns a retention that is not positive into 30 days, and
days are the unit of the configuration, so the assumption `SlotsPerHour <=
RetentionSlots` is the code's.

| Theorem | Statement |
|---|---|
| `RetentionTypes` | `Spec => []TypeOK` |
| `RollupsAreExact` | `Spec => ExactWhileRetained` |
| `NothingOutlivesRetention` | if `Lateness <= RetentionSlots`, `Spec => []RetentionEnforced` |
| `PurgedHoursHaveSummaries` | if `Lateness <= RetentionSlots`, `Spec => PurgedWereSummarised` |

The premise is needed: a sample that arrives later than the retention is too old when
it is stored, and one that arrives between the rollup and the purge goes without a
summary. `RetentionEnforced` forgets when the
last purge was; `RetentionInv` says that passes are under way or due only at multiples of
the interval since the start (`OnTime`), so that the time of the last purge can be computed
from the clock. `SummaryInv` says that what is gone from the raw table is older than the
retention, so a bucket that lies within it is complete when it is summarised
(`RetainedBucket`), and that there are finitely many samples, so that minimum and maximum
exist. `Covered` carries what a rollup achieved to the purge after it: every sample about
to be purged lies in a finished hour, and has a summary.

`DataLemmas` are the facts about data that all of these keep needing: what `Kept` returns,
on an empty list, on one element more, on a tail, and when applied twice; that a set of
numbers has a least element. The induction theorems of the library take an operator as a
parameter, which the provers here cannot instantiate; `DataLemmas` states induction over
numbers and sequences with a set instead: one that contains the first and is closed under
the step contains them all. So `Kept` is a recursive function, and no module declares a
RECURSIVE operator.

Only model-checked: liveness, as fairness and ENABLED are beyond the prover (`Recovers`,
`SustainedFires`, `Settles`, `CloseEndsStream`, `LeaverIsRemoved`), and the four
properties that are violated. That `Kept` keeps what `SelectSeq` keeps is assumed nowhere,
but evaluated by TLC on all short sequences (`KeptIsSelectSeq` in `MCRequests`).

## 5. Not modelled, and why

Left out for good: formatting, logging, the texts of rules and messages, hashing of
tokens (the secret of a token is its identity), payload signatures, CORS and request
ids. `cooldown_seconds` and `duration_seconds` are stored but never read, and
`EvaluateAgentOffline` has no caller, so the seeded rule `rule-agent-offline` is never
evaluated.

- *Comments of alerts*: one insert and one event, which no other code reads.
- *Read-only lists* of rules, alerts, channels, deliveries and tokens: one statement
  each, changing nothing; `Serve` stands for them on the way of requests.
- *Queue.Stop* has no caller: `main` ends without it, and the workers end with the
  process, which is what `Restart` models.
- *Graceful shutdown* is `http.Server.Shutdown` with a timeout; what it waits for is
  decided in net/http and by the clients. `CloseEndsStream` shows the part of this code:
  streams end when the hub stops.
- *Configuration*: numbers and durations with their defaults are in `Fleet`; addresses
  and URLs are handed on.
- *The alert pipeline as one state space*: engine, queue and hub meet only in calls that
  return at once and in cascades of the database, which each module has on its side; the
  product of their interleavings is far beyond TLC and would show no step that the
  modules do not have. What each assumes of the other is stated in section 2.

What could come next: abstract specifications of the rate limiter and of a stream,
which `LimiterInv` and `StreamInv` come close to refining; and what the violated properties
promise under premises that exclude the violation, such as `SummariesOnlyGrow` when the
cutoff falls on full hours.
