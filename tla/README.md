# Nexus Analytics backend: a TLA+ model

TLA+ modules, TLC configurations and TLAPS proofs for the Django backend in this
repository. Paths such as `alerts/tasks.py:150` are relative to the source root.

- `tlc -workers 2 -config AlertHandlers.cfg MCAlerts` checks a run,
- `tlapm AlertProofs.tla` checks a module of proofs.

## 1. The system

A multi-tenant REST backend (Django REST Framework over PostgreSQL) with Celery
workers and a beat scheduler over Redis, and Channels WebSockets. Tenancy is by
organization, and everything below is inside one organization.

What runs at the same time:

- web processes, one handler per request. There is no `ATOMIC_REQUESTS`
  (`config/settings/base.py`), so every statement of a handler commits by itself
  unless the code opens `transaction.atomic`;
- Celery workers, one task at a time per worker process. Tasks are acknowledged when
  they are *taken* (`acks_late` is not set), so a worker that dies loses its task;
  `autoretry_for=(Exception,), max_retries=3` repeats a task that raises;
- beat, which enqueues `evaluate_alert_rules` and `process_due_report_schedules` every
  60 seconds, whether or not the last ones have finished (`base.py:168-177`).

They share the database (READ COMMITTED), the broker, the cache, the channel layer and
the media directory. A request, or a task, works on rows it has read into memory; what
is written is the in-memory copy, or the columns of it that `save(update_fields=...)`
names.

### Inventory

| Component | State | Operations | What is hard | What makes it correct |
|---|---|---|---|---|
| Alert rules and incidents (`alerts/tasks.py`, `alerts/views.py`) | rule rows (status, enabled, muted_until, deleted_at), incident rows | evaluation per organization (beat, and after each ingestion); create, patch, mute, resolve, reactivate, delete | overlapping evaluations, stale copies of the batch, `FOR UPDATE` of no row, a resolve in several commits, full saves | one open incident per rule; Triggered iff there is one; every incident notified; deleted stays deleted; raised and cleared in the end |
| Notification delivery and settings (`alerts/tasks.py:78-138`, `accounts/settings_views.py`) | channel rows, delivery rows, preferences | deliver to each enabled channel, retry; GET and PATCH of the settings | a retry repeats channels already served, a lost answer of a server, `get_or_create` without a constraint, a PATCH in several commits | a channel gets a message once per attempt; rows tell what happened; one channel per type |
| Report schedules and runs (`reports/`) | schedules, runs, artifacts on disk | scheduler pass; create, patch, delete; generate with retries | overlapping passes, a pass that aborts, artifact against status, lost workers | each slot once; completed has its file; no schedule starves |
| CSV jobs (`ingestion/tasks.py`, `ingestion/views.py:62-80`) | job row with counts, events | upload, row loop with checkpoints, retry | partial commits repeated by a retry, counts in memory | completed means the whole file, counted |
| Event ingestion (`ingestion/services.py`, `views.py`) | events, usage counters | single, batch, webhook, demo; post-commit effects | counters read-modify-write, effects after the commit that may fail | counters agree with events; an evaluation follows every event |
| Analytics cache (`analytics/services.py`, `ingestion/services.py:46-60`) | cache entries with a time to live | read or compute and fill; invalidate | a fill that overtakes an invalidation | a hit is no older than the time to live |
| Analytics series (`analytics/services.py:39-94,343-393`) | none | buckets, months, percent change | boundaries | buckets are disjoint and cover the range |
| Event listing (`ingestion/views.py:119-139`) | none | page by cursor | equal timestamps, the event left out | pages cover the list |
| Memberships and invitations (`organizations/`) | memberships, invitations | change role, remove, invite, accept | check then act, `update_or_create` | an organization keeps its owner |
| API keys (`api_keys/`) | keys | create, rotate, revoke, verify | saves of different columns | a key is either live or revoked |
| Dashboards (`dashboards/`) | dashboards, widgets | create, patch, delete, from template | full saves, several commits | deleted stays deleted |
| Accounts and sessions (`accounts/`, the seed command) | users, refresh tokens and their blacklist, the cookie of a browser | sign up, log in, refresh, log out, save the profile; seed the demo | look up then insert, rotation whose answer is lost or late, a save of all columns, a transaction over a customer's tenant | a sign-up fails only for a reason; a login has one live token, and the cookie is it; nobody loses a tenant |
| Billing, realtime, tenancy, configuration | plans, invoices; groups; none | reads; join and forward; lookups | – | – |

Components interact in this way: ingestion commits events and then, in `on_commit`
callbacks, invalidates the cache, moves the usage counters, broadcasts, and enqueues an
evaluation; the evaluation opens and closes incidents and enqueues their notification;
a delivery task goes through the channels as the settings requests have left them;
a report run computes the same overviews as the dashboards and writes a file. The seed command deletes and
makes a whole organization in one transaction.

## 2. The modules

| Module | Models | Notes |
|---|---|---|
| `IncidentLog` | what evaluators promise about incidents | abstract: open, close, notify |
| `AlertLifecycle` | `alerts/tasks.py`, `alerts/views.py` | state, actions, fairness |
| `AlertProperties` | – | type invariant, safety, refinement, liveness |
| `MCAlerts` | – | constants and symmetry for TLC |
| `AlertProofs` | – | TLAPS proofs |
| `ReportLedger` | what the scheduler promises | abstract: create a run, set a schedule |
| `ReportSchedules`, `MCReports` | `reports/tasks.py`, `reports/views.py` | state, actions, properties |
| `ReportProofs` | – | TLAPS proofs |
| `CsvJobs`, `MCCsv` | `ingestion/tasks.py`, the upload handler | state, actions, properties |
| `CsvProofs` | – | TLAPS proofs |
| `EventIngestion`, `MCIngestion` | `ingestion/services.py`, the cached readers of `analytics/services.py` | state, actions, properties |
| `EventProofs` | – | TLAPS proofs |
| `Workspace`, `MCWorkspace` | `organizations/`, `api_keys/`, `dashboards/`, the role checks of `common/` | state, actions, properties |
| `WorkspaceProofs` | – | TLAPS proofs |
| `TimeSeries`, `MCTimeSeries` | `analytics/services.py`, `EventsView` of `ingestion/views.py` | operators, state, actions, properties; a calendar |
| `TimeSeriesProofs` | – | TLAPS proofs |
| `Notifications`, `MCNotifications` | `alerts/tasks.py:78-138`, `accounts/settings_views.py` | state, actions, fairness, properties; what clients send |
| `NotificationProofs` | – | TLAPS proofs |
| `Accounts`, `MCAccounts` | `accounts/views.py`, `accounts/serializers.py`, `seed_demo.py` | state, actions, properties; days of the year |
| `AccountProofs` | – | TLAPS proofs |

In all of them a step is one committed statement or transaction, or one effect outside
the database. `pc` fields say where a task or handler is between two of them, and what
it has read is part of its state. Definitions marked `Mutant` in their comment are
wrong variants of the definition that follows them: they are not part of any
specification, and are there to show that a property notices the mistake.

### AlertLifecycle

`rule` is the `alert_rule` table reduced to `life` (absent, alive, deleted), `status`,
`enabled` and `mutedUntil`; `history` the `alert_history` table in commit order, with
the inserting task as a history variable; `byHand`, a history variable too, are the incidents that a
resolve handler has saved; `queued` the incidents whose notification was
enqueued; `cond` whether the metric of a rule matches now, which changes whenever events
arrive or leave the time window (`FlipCondition`).

The evaluation task `ev[w]` fetches its batch once (`StartEvaluation`), takes the rules in
any order (the query has none), and for each: skips it when muted (`SkipMuted`), lifts
an expired mute (`ExpireMute`, a save of its own), or takes it as it is; `Measure`
decides between `trigger_rule` and `resolve_rule`. These run in a transaction with
`SELECT ... FOR UPDATE`, which is two steps: `LookupOpen` takes the snapshot, `LockOpen`
waits for the row and tests it again, as PostgreSQL does at READ COMMITTED. A row
committed after the snapshot is not seen. `TriggerNew`, `TriggerExisting`, `ResolveOpen`
and `ResolveNone` are the commits. `Enqueue` is the `on_commit` callback.
`EvaluationFails` is an exception, caught by the loop (`alerts/tasks.py:239`); `Crash` is a
dead worker.

A handler `req[u]` is a fetch, which also computes the row it means to save, and a
save of the columns that `UpdateFields` gives: all of them for PATCH, `deleted_at`
included, because the serializer calls `save()` without `update_fields`. The resolve
handler then lists the open incidents and closes them one commit at a time.

Abstracted: the metric, threshold, operator and time window (`cond`), severity, channels,
messages, time stamps other than `muted_until`; broadcasts. The rules are independent of
each other but for the loop that visits them, so the runs have one rule.

### ReportSchedules

`pass[p]` is a scheduler pass: `StartPass` lists what is due by its clock; for each
schedule, a transaction takes the row lock (`LockDue`, or `SkipNotDue` when the row has
changed, or `AbortOnDeleted` when `get()` raises), inserts the run and moves the schedule
on (`CreateRun`), and enqueues it after the commit (`EnqueueRun`). A failing enqueue or
a dead worker is `EndPass`. `gen[i]` is where the task of run *i* is: taken, file written,
saved as completed, mail sent, or failed and retried. What fails before the `try` (`StartFails`: the lookup of the
run, or the save as processing) saves nothing, so that a run whose every attempt fails there is queued for good. `listed` says whether `recipients`
can be iterated over: it is a JSON column whose content nobody validates, and a value
that cannot be iterated over is an exception *after* the run was saved as completed.

Abstracted: the content of a report, mail failures (they only write `error_message`), the
frequency (`Periods`). The number of attempts a task has made is in the run.

### CsvJobs

One uploaded file with its rows good or bad, the job row, the events committed for it,
and the attempt with its counts in memory. `StoreRow` is the commit of `create_event`,
`CountProcessed` the end of its callback, `CountRow` both counters and the checkpoint.
`RejectRow` is an exception that is not a `ValueError` (the database refuses the row),
`CallbackFails` one of `post_events_created` after the commit; both end the attempt by
`Fail`, which saves the status only, and `RetryJob` starts again at the first row with
the counts that were saved.

Abstracted: columns and their values (a row is good when `EventPayload` accepts it),
row errors, messages.

### EventIngestion

`ing[i]` is one call of `create_event` or `create_events` with its batch. `Begin` is
`get_api_data_source` inside the transaction (an ingestion that is given its source, as
the webhook's is, skips it; two rows make `get_or_create` raise), `Commit` the transaction, and
the steps from `Invalidate` to `EnqueueEvaluation` are `post_events_created` in its order, as
the function `After`. Each usage counter is two steps, the read and the save, since
nothing locks the row: `half` says that an ingestion is between them and `read`, or `seen`
for the active users, what it has in hand. The counters do not exist in every
organization (`metered`). `Stop` is an exception of the callback or a dead worker: what is left
of the callback is skipped. `reader[q]` is a request for an overview: a `Hit` takes the entry; a `Miss`
queries and fills in separate steps; what either has found is given by `Answer`. `Listed` are the keys that `invalidate_analytics_cache` names; the ranges
it does not name (a 12-month overview, say) are only emptied by their time-out, `Expire`.

An entry is what its computation saw (`seen`) and, as history, the events whose invalidation had
come before the request (`known`). `counted` and `raced` are history as well: the events whose
ingestion has saved a counter, and the counters that two ingestions had in hand at once.

Abstracted: event properties, broadcasts, the values computed from the events seen, the limit
of a counter. All widgets of an overview are computed from one query here; the code's
further queries (the previous period) come after it and before the fill.

### Workspace

What the members of one organization share: `member` (role, and a number that tells a membership
from a later one of the same user), `invite`, one API `key`, one `dashboard`. A request `req[q]` begins
with the permission check (`Begin`: the role is read once and kept in `request.membership`), fetches the row it is about, and saves. The
fetch applies the handler's checks; what they were made of may have changed when the save
comes. `Permitted` is the permission class with its `Minimum`; two invitations may be open at once, of one user or of two.
`belated` and `steppedDown` are history: the changes of role and removals that have the membership of someone in hand who
became an Owner meanwhile, and the owners who have accepted a lower invitation. `KeyFields` and `DashboardFields` are the columns of each save, the whole row for a PATCH of a
dashboard. `SaveRole` finds no row when the membership was deleted (`save(update_fields=...)`
raises), also when the user is back with another one (`InPlace`). `Accept` is one transaction. A refusal,
an error and a dead process are all `End`.

`get_active_membership` takes the oldest active membership of a user, so a user who signed up, and
owns an organization of their own, acts there also after accepting an invitation. The users of
the model are those whose oldest membership is the one modelled, or who have none.

Abstracted: names, e-mail addresses (an invitation is for a user), prefixes, hashes and tokens (each
is the number of its making), widgets, broadcasts. A role read in `Begin` and the membership read in
it are one query in the code as well.

### TimeSeries

What requests compute from the events. Time is in ticks (half hours in the run), UTC as in
`base.py:115`; `Clock` are the times at which a request may look at the clock, which it does anew for
every part: `BeginOverview` for the buckets, `ReadEvents`, `ReadPrevious`, `ReadChart` and `ReadBefore` for
what follows in `overview_widgets`; `revenue` is `ReadEvents` and `ReadChart`. Each part of `rep` is the
set of the events that a number is made of. `BucketSpecs` and `MonthSpecs` are the code's, the loop that
turns months into those of the year before written as one step (`Wrapped`), because with twelve
months it never needs two. `MonthStart` is the calendar: any, in which twelve months have 365 or 366 days.

`list` is a client that walks through the pages of the listing. A page is read with one row too many
(`Newest` leaves the order of equal timestamps open), and the timestamp of that row is the cursor.

Requests write nothing that another reads, so there is one at a time (`Quiet`). Abstracted: labels,
colours, amounts, percentages, the grouping by source and feature; filters and search.

### Notifications

`channel` is the `notification_channel` table of one organization, with the address that its `config` holds
(`to`), and `delivery` the `notification_delivery` table. `task[h]` is the delivery task of incident *h*: `TakeDelivery`
evaluates the query of `enabled_channels` once, so that the attempt works on copies of the channels (`got`)
while settings requests change them; the rule's own channels are read with the incident, and may be any of
`RuleChannels`, since a PATCH of the rule may come in between. Each channel is three steps: the row is inserted
(`OpenDelivery`), the message sent (`SendMessage`, `SendingFails`), and the row saved (`SaveDelivery`). A sending
that fails is recorded and the loop goes on; when it is the *answer* of a webhook server that is late, the message has left
all the same (`left`). Other exceptions, as of the database or the broadcast, end the attempt (`AttemptFails`),
and the retry begins again with all channels. `LoseDelivery` is a worker that dies.

`req[q]` is a settings request, `UserOf[q]` the member it is from: nothing keeps two tabs of one member from sending two at a
time. GET goes through the three types with `get_or_create`, PATCH saves the preferences
it has read when it began (`SavePreferences`), and then, for each type named, looks the channel up or inserts it and saves `enabled` and `config`, and at last answers as
GET does. `get_or_create` is two steps, because nothing in the database keeps a type unique
(`LookupChannel`, `InsertChannel`); where it finds two rows it raises. `by` is, as history, the request that inserted a row. `alone` and `before` remember whether
another request overlapped, and the channels at the start.

Abstracted: payloads, subjects, response bodies; a recipient or sender given in a `config` (no code writes one);
preferences that have no channel.

### Accounts

`account` is the user table by address, reduced to whose password it has: the owner's own, or the demo's. `org` are the
organizations with their slugs: all names make the slug of the demo tenant here, so that sign-ups compete for it
and its numbered variants. `token` are the refresh tokens in the order of their issue, each with the login it descends
from; `cookie` is what the browser holds, and changes when an answer *arrives*. `req[r]` are requests of
that browser. A sign-up validates the address, finds a slug, and inserts everything in one transaction, where the unique
constraints decide (`CreateTenant`, `RejectTenant`): the loop over the slugs is the transaction's first read, and at READ COMMITTED
does not see what others commit later. A refresh is the check against the blacklist and, later, the rotation (`CheckToken`,
`Rotate`), which is the library's own order; LogoutView does the same with `blacklist()`. PATCH of the profile authenticates
with the whole row and saves it whole (`FetchMe`, `SaveMe`). `LoseAnswer` is a lost answer or a process that dies.

The seed command is one transaction: what its first query finds with the demo's slug (`StartSeed`) and the commit
(`CommitSeed`), or the IntegrityError that rolls it back (`AbortSeed`): another organization took the slug meanwhile, or
two of its four invoices, thirty days apart and numbered by their month, have one number (`InvoicesClash`).

Abstracted: passwords but for whose they are, names, access tokens, the expiry of tokens, `is_active`, leap years in the
invoices' dates, and the demo's events, dashboards, rules and reports. Browsers share no token, so one is enough; the users
who are members of somebody else's organization are in `Workspace`.

## 3. What is checked

| Run | Instance | Shows |
|---|---|---|
| `AlertHandlers` | 1 rule, 2 tasks, 2 handlers; resolve, reactivate, mute, delete; exceptions | `TypeOK`, `OpenByDistinctWorkers`, `TriggeredHasIncident`, `ResolvedIsBeingClosed`, `IncidentIsQueued`, `DeletedStaysDeleted` |
| `AlertLiveness` | 1 rule, 2 tasks, 1 handler; patch, mute; crashes, failing enqueues, abandoned requests | `ImplementsIncidentLog` and the three liveness properties |
| `AlertMuteExpiry` | 1 task, mute | violates `ActiveHasNoOpenIncident` |
| `Reports` | 2 schedules (the recipients of one are not a list), 2 passes, 1 handler, crashes, failing enqueues, starts and renderings, lost workers | `EachSlotOnce`, `RunsShowTheirTask`, `ImplementsLedger`, `DueEventuallyRuns`, `RunsEventuallySettle` |
| `CsvJobs` | every file of at most 5 rows, checkpoint at 2, 3 retries, 4 failures | `JobShowsItsFile`, `JobsEventuallyEnd` |
| `CsvRetries` | the same with 3 rows | violates `CompletedCountsOnce` |
| `Ingestion` | 2 events (one an API call), 2 ingestions, 1 reader, a listed and an unlisted key, stops and failing enqueues | `TalliesAreExact`, `ActiveIsCurrent`, `FreshAfterInvalidation`, `EvaluationFollows`, `SourcesByOverlap`, `EventsEventuallyGiven` |
| `Workspace` | 2 users, 2 invitations, 2 requests at a time and 5 in all, every operation | `RolesAreGranted`, `OwnersKeepTheirRole`, `AcceptedOnce`, `SecretsNeverReturn`, `LinkAndDeletionStay` |
| `TimeSeries` | 3 events, one at any edge of a range or bucket; 4 clock times; 5 ranges; pages of 0 to 2 | `TypeOK`, `CountsAgree`, `PagesMissOnlyCursors` |
| `Notifications` | 1 incident, 2 requests of one member who is not the owner, 1 retry, 3 requests and failures in all, every kind of failure | `ChannelsByDistinctRequests`, `QuietSettingsAreKept`, `RepeatedOnlyByRetry`, `DeliveriesTell`, `DeliveriesEnd` |
| `Accounts` | 2 requests at a time, 6 requests, losses and seedings in all, 2 addresses, seedings on 1 January | `SignupFailsOnlyByOverlap`, `OneSessionPerLogin`, `CookieWorks`, `SeedingKeepsTenants` |
| `SeedingDays` | the same with 1 input, seedings on any day of a year | violates `SeedingWorks` |

### The three violated properties

1. **An incident left open by a mute** (`AlertMuteExpiry`). A rule muted while Triggered
   comes back as Active; if the condition is gone by then, nothing closes its incident.
2. **A retried CSV file is ingested twice** (`CsvRetries`). The retry starts at row one,
   and adds to the counts of the last checkpoint. What holds instead is
   `CompletedIngestedAll` (a part of `JobShowsItsFile`): a completed job has every good row *at least* once.
3. **The demo cannot be seeded on some days** (`SeedingDays`). The four invoices of the seeding are thirty days apart and
   numbered by their months; on 31 January, and on other days on which two of them share a month, the unique number fails
   the whole transaction, although the command calls itself idempotent and its test runs it on any day. On the other days
   it works (`SeedingKeepsTenants`).

### What the alerts leave open

`trigger_rule` looks for an open incident with `select_for_update()`, which locks nothing when it finds nothing. Two
evaluations, say the one of beat and the one enqueued after an event, both insert: a rule can have two open
incidents, although repeated evaluations are said to leave one (`AtMostOneOpen`, after `tests/test_backend.py:387`). What the
model has instead, and `AlertHandlers` checks, is `OpenByDistinctWorkers`: no more open incidents than evaluations that
overlapped. That it takes an overlap is proved (`SingleEvaluatorOpensOnce`). Later evaluations keep the rule Triggered while
one is left, and each resolution closes one: a rule can go Active with another incident open.

### What `Ingestion` leaves open

The properties of `EventIngestion` say how far the code goes, and where it stops. Two ingestions that
overlap on a counter lose one of the two increments, and a late save can set a counter back:
`TalliesAreExact` has the inequality always and the equality only for a counter that was
not raced. A reader that queried before a commit may fill the cache after the invalidation
of that commit; the entry then misses the event until it expires, so `FreshAfterInvalidation`
speaks of the events invalidated before the request. Until then the stale entry is given to others as well;
`EventsEventuallyGiven` says that this ends, also for keys that are never invalidated: each reader that asked before the
commit fills the cache at most once more, and the entry expires. Two ingestions that are the first of an
organization can insert its data source twice, after which every API ingestion fails.

### What `Workspace` leaves open

There are two ways to lose an owner (`OwnersKeepTheirRole`). An invitation to a lower role takes the role away when the
owner accepts it. And a change of role or a removal goes by what it fetched: it hits a member who became Owner after that. The
second way can take the last owner: an Admin is fetched, accepts an Owner invitation, the founder accepts a
lower one, and the late request saves. Nothing else takes an owner away, and the founder, an owner from the
start, is safe from late requests until stepping down (`FounderRemains`). Two acceptances of one token that overlap both
succeed, with the same result (`AcceptedOnce`). A revocation that overlaps a rotation revokes the
new secret, and the other way round clears the revocation, but the old secret never verifies again
(`SecretsNeverReturn`). A PATCH saves every column of the dashboard: next to a deletion or to a
publication it can undo it, and the link then changes; alone it does neither (`LinkAndDeletionStay`).

### What `TimeSeries` leaves open

`CountsAgree` names what the code does not do. The sessions of the first hours of a range are in no
bucket: less than a day's, or for "24h" less than an hour's. A request that sees midnight (or the hour)
pass may count an event in both periods. An overview of "12m" has seven daily buckets and compares
their sessions with those of a year. The revenue chart of twelve months that have 366 days begins before the
total of 365 does, on the last day of January. `PagesMissOnlyCursors` has no event twice; but the row whose
timestamp is the cursor is never shown, on every page but the last, and neither is any older row with the
same timestamp.

### What `Notifications` leaves open

A retry sends again to every channel that an earlier attempt has served: `RepeatedOnlyByRetry` has the number of times, and
that one attempt never does. An e-mail without an address counts as sent, and a webhook that answered late as failed, although
the message has left; `DeliveriesTell` says what can be told from a row. Settings requests that overlap can insert the webhook's channel
twice, one by each request, be they of one member or of two (`ChannelsByDistinctRequests`), after which every settings request of the organization raises
`MultipleObjectsReturned`, and every incident is sent twice. They also overwrite each other's `config` and preferences;
`QuietSettingsAreKept` is about a request that none overlaps.

### What `Accounts` leaves open

A sign-up that overlaps another one, or a seeding, may get an error 500. Two requests that carry one token at the same time
both find it live, and the login then has two live tokens; and when an answer is lost, the browser is left with a
token that was blacklisted, and its logout leaves the new one alive (`OneSessionPerLogin`, `CookieWorks`). `SeedingKeepsTenants`
names the two things the seed command does besides its work: it takes the organization of whoever has the demo's slug,
whose members can no longer log in, and it fails when a sign-up takes the slug meanwhile; the days on which it
fails by itself are in `SeedingDays`. A profile saved late
takes the demo's password back.

### Bounds

`MaxInputs` bounds requests, condition changes and failures together, `MaxTime` the clock;
both are in the guards. Two tasks are enough for every race between evaluations, since
each conflict over a row is between two of them; three inputs allow a rule to be
triggered, changed by a handler, and changed again or failed. In `Reports` two passes
overlap on two schedules with slots 0 and 1, so that a pass may fall behind the other by a
slot, and one that ends at the first schedule leaves the second. In `CsvJobs` five rows with a checkpoint at two have a checkpoint in the middle and
rows after the last one, and four failures use up all attempts. In `Ingestion` two events
arrive one by one or together; a conflict over a counter, the source or a cache key is between
two processes, and a third ingestion after both is one of these again. In `Workspace` five requests are
what it takes to create, publish, change twice at once and look again, or to let two invitations be accepted, one of them by the
founder, next to a change of role; since they are bounded the run ends, and deadlock is not checked. The constraint `OneConcern`
of `MCWorkspace` keeps the run to one of members, key and dashboard at a time: they share nothing but the role that `Begin`
reads, and the founder, an Owner as long as there are no invitations, is let through to key and dashboard at any time. In
`TimeSeries` the clock shows the half hours around the turn of the leap year 2024 and the last one of January 2025;
each event is counted by itself, so one that takes every edge is enough, and three events with two
timestamps make pages with ties; the requests end. In `Notifications` three inputs are two requests that overlap, here of one member, and a failure,
or one request and two failures, which use up the attempts; a rule names no channel, or two of the three, and a client switches
the webhook on with an address and the e-mail off, or the webhook off without one. In `Accounts` six inputs are two sign-ups with a login and a refresh each, or a
seeding between them; all seedings are on one day, since a day either clashes by itself or does not, and `SeedingDays` goes through
all of them; a conflict is between two requests. Both end, and deadlock is not checked. The number of incidents
and runs is bounded by these. Symmetry is used in `AlertHandlers` and `Workspace`, which check no liveness.

In `AlertHandlers` clients do not patch: `DeletedStaysDeleted` and `ResolvedIsBeingClosed` are false when a PATCH
saves an older row, and a client may write Triggered itself. PATCH is in `AlertLiveness`, which shows that whatever it
saves is repaired by later evaluations. Neither do tasks crash there, since `IncidentIsQueued` speaks of what is queued
without; crashes and failing enqueues are in `AlertLiveness`.

The type invariants of the other modules are not checked again by their runs: each is proved (section 4), and its
run was made with it before.

### Fairness

`FairSpec` of `AlertLifecycle` has weak fairness of each task's own steps: beat enqueues an
evaluation every minute and a task that runs goes on. The lock wait is part of these steps;
a lock is only held by a task that can commit, so no task waits forever. In
`ReportSchedules` the passes are fair for the same reason, and the workers as a whole keep
executing run tasks (`WF` of any run's step: a worker does not idle while there is one it
can advance). In `CsvJobs` and `Notifications` the workers are. In `EventIngestion` the expiry of cache entries
is fair, because `cache.set` gives each a time-out of 60 seconds, and so is the end of a reader that has its overview, since nothing is
left for it to wait for; neither a reader that computes nor an ingestion needs to go on. Nothing is assumed of clients, of failures,
or of the condition. `CsvJobs` may deadlock, since its one job ends.

The liveness properties have the form "it is not the case that from some point on ...":
a rule that stays watched with its condition holding does not stay Active, one whose
condition stays gone does not stay Triggered, an expired mute does not stay, a due
schedule does not stay due, a run, a job and a delivery end unless their worker dies, and an overview
without a stored event is not given again and again.

## 4. What is proved

The proofs hold for any values of the constants that satisfy the assumptions in the
modules (sets of any size, any bounds).

| Theorem | Under | Statement |
|---|---|---|
| `TypeCorrect` | – | `[]TypeOK` of the alert model |
| `LockedIncidentsStayOpen` | – | `[]LockedIsOpen` |
| `OpenIncidentsAreDistinct` | – | `[]OpenByDistinctWorkers` |
| `SingleEvaluatorOpensOnce` | at most one task | `[]AtMostOneOpen` |
| `OpenAtMostWorkers` | finitely many tasks | a rule has no more open incidents than there are tasks |
| `TriggeredRulesHaveIncidents` | no patch; Triggered not written by clients | `[]TriggeredHasIncident` |
| `ResolvedRulesAreBeingClosed` | no patch; no abandoned request | `[]ResolvedIsBeingClosed` |
| `SilentRulesAreClear` | at most one task; no mute, reactivation or patch | a rule that is Active or Muted has no open incident |
| `IncidentsAreQueued` | no crash, no failing enqueue | `[]IncidentIsQueued` |
| `IncidentsAreHandedOverOnce` | – | each step hands over at most one incident, none twice; rows are never deleted, reopened or given to another rule |
| `EvaluationsTerminate` | finitely many rules | every step of an evaluation brings it nearer its end |
| `DeletedRulesStayDeleted` | no patch | `DeletedStaysDeleted` |
| `Refinement` | – | the alert model implements `IncidentLog` |
| `CsvTypeCorrect`, `JobsShowTheirFiles` | – | `[]TypeOK`, `[]JobShowsItsFile` of the CSV model |
| `RowsOncePerAttempt` | – | a row is stored at most once for each attempt, `MaxRetries + 1` times in all |
| `FirstAttemptsCountOnce` | – | `[]CompletedCountsOnce` as long as no attempt has failed |
| `JobsTerminate` | – | every step of a job brings it nearer its end |
| `ReportTypeCorrect` | – | `[]TypeOK` of the report model |
| `ReportsShowTheirTask` | – | `[]RunsShowTheirTask` |
| `EachSlotGetsOneRun` | – | `[]EachSlotOnce` |
| `SlotsRunOnce` | – | no run before its slot has come; slots grow with every run of a schedule that no PATCH moved |
| `RunsTerminate` | – | every step of a run brings it nearer its end |
| `PassesFollowTheLedger` | – | the report model implements `ReportLedger` |
| `EventTypeCorrect` | – | `[]TypeOK` of the ingestion model |
| `CountersNeverOvercount`, `ActiveUsersAreCurrent` | – | `[]TalliesAreExact`, `[]ActiveIsCurrent` |
| `CacheMissesNothingInvalidated` | – | `[]FreshAfterInvalidation` |
| `EveryEventIsEvaluated` | – | `[]EvaluationFollows` |
| `SecondSourceNeedsOverlap` | – | `[]SourcesByOverlap` |
| `EveryEventIsCounted` | – | every stored event is in each counter, on its way there, or in a batch whose callback was stopped |
| `OneAtATimeCountsAll` | one ingestion at a time, no stopped callback | one data source; at rest the counters are those of the event table |
| `WorkspaceTypeCorrect` | – | `[]TypeOK` of the workspace model |
| `OwnersLoseItLateOnly` | – | `OwnersKeepTheirRole` |
| `FounderRemains` | – | the founder is Owner until the founder accepts a lower invitation |
| `RolesComeFromAbove` | – | `[]RolesAreGranted` |
| `InvitationsAreUsedOnce` | – | `[]AcceptedOnce` |
| `ReplacedSecretsStayDead` | – | `[]SecretsNeverReturn` |
| `PublicDashboardsHaveLinks`, `OneAtATimeKeepsTheLink` | – | `[]PublicHasToken`, `LinkAndDeletionStay` |
| `OneRequestAtATime` | at most one request | invitations are used once, a link and a deletion stay, without exception |
| `TimeSeriesTypeCorrect` | – | `[]TypeOK` of the time series, which includes that the buckets and months of every chart tile time |
| `PagesMissNothingElse` | – | `[]PagesMissOnlyCursors` |
| `OverviewsAgree` | – | `[]CountsAgree` |
| `NotificationTypeCorrect` | – | `[]TypeOK` of the notification model |
| `ChannelsAreByDistinctRequests` | – | `[]ChannelsByDistinctRequests` |
| `ChannelsAtMostRequests` | finitely many requests at a time | one in-app and one e-mail channel, and no more webhooks than requests that may run at once |
| `QuietSettingsStay` | – | `[]QuietSettingsAreKept` |
| `RepeatedMessagesAreRetries`, `DeliveriesTellOutcomes` | – | `[]RepeatedOnlyByRetry`, `[]DeliveriesTell` |
| `MessagesAtMostRetries` | – | a channel gets an incident at most `MaxRetries + 1` times |
| `DeliveriesTerminate` | – | every step of a delivery brings it nearer its end |
| `AccountTypeCorrect` | – | `[]TypeOK` of the account model |
| `SignupsFailOnlyByOverlap` | – | `[]SignupFailsOnlyByOverlap` |
| `OneSessionEachLogin`, `CookiesWork` | – | `[]OneSessionPerLogin`, `[]CookieWorks` |
| `OneTabKeepsItsSession` | at most one request, no lost answer | one live token for each login, none after its logout, and the cookie works, without exception |
| `SeedingsKeepTenants` | four months for the invoices of every day of seeding | `[]SeedingKeepsTenants` |

How the arguments go:

- *Locks.* `LockInv` is `LockedIsOpen` with `LooksAtOwnRule`: every incident a task has at
  hand is one of the rule it works on. Only the holder and a resolve handler close an
  incident, and the handler waits for the lock; an open incident never changes its rule.
- *Distinct openers.* `OpenByDistinctWorkers` is not inductive by itself: between
  `LookupOpen` and `TriggerNew` a task must know that it has not overlooked an incident of
  its own. `DistinctInv` adds `KnowsOwnIncidents`: every open incident that the task itself
  inserted for the rule is in the set it has looked up, so that when no row of that set
  still matches there is none. Incidents that *other* tasks insert meanwhile are not
  covered, which is exactly the gap between lookup and insert. With one task there are
  no others, hence `SingleEvaluatorOpensOnce`; with finitely many, each has at most one (`OpenAtMostWorkers`,
  an injection from the open incidents into the tasks).
- *Silent rules.* `ClearInv` adds to the silence of a rule (`SilentIsClear`) what the one task knows of the rules it has
  fetched (`KnowsItsRules`): the stale copy of a muted rule has no open incident, and what a resolving task is to close are all.
  Only a handler that saves Active or Muted over an open incident breaks it, which is what
  `AlertMuteExpiry` does; resolving and deleting do not.
- *Handlers.* `HandlerInv` ties what a request means to save to its operation, so that,
  PATCH aside, only the delete handler writes `deleted_at` and only the resolve handler
  writes Resolved. `TriggeredInv` adds `OneInHand` (a task that has locked or inserted an
  incident has exactly that one at hand); `ResolvedInv` adds `RowsExist` (a rule with an
  incident, or at hand of a task, has been created, so that its creation no longer sets its
  status).
- *Refinement.* `LogInv` adds `QueuesOwn`: a task that is about to enqueue does so for an
  incident that it inserted itself and that is not queued yet. Then `Enqueue` is a
  `Notify`, `TriggerNew` an `Open`, and the closings a `Close` or a stutter. From the same invariant
  `IncidentsAreHandedOverOnce` justifies that `Notifications` gives each incident one task, which finds its row.
- *CSV jobs.* `CsvInv` is the conjunction of the type invariant, `RetriesLeft` (how many
  attempts the failures allow), `CountsAreStored`, `InCallback` (in the callback one event
  more is stored than counted), `InProgress` (an attempt at row *i* has stored every
  good row before *i*, and its counts cover the rows before *i*) and `EndsCompleted` (what
  a completed job shows). The counts that a failed attempt left behind only make the
  inequalities weaker, so that each attempt re-establishes it from its first row. A job without a
  processed row has then no good one; that it has rows at all is `FailedRowsExist`. `StoredEach` counts
  the events of one row: one for each failed attempt, and one more once the current attempt has passed the row.
  `FirstCounts` makes the inequalities of `CsvInv` equations as long as no attempt has failed.
- *Reports.* `RunInv` says of each run what it shows for where its task is (`TaskShows`: a file is
  never taken away, and an attempt that is repeated has retries left), and that a run which a
  pass is about to enqueue is enqueued by no other (`EnqueuesOwn`). `SlotInv` is what the row lock
  gives: a locked schedule belongs to one pass, is still active, and stands at the slot the pass has
  read (`LocksAreFresh`), whatever the pass listed before. `LastSlot` says that a schedule stands one
  period after its last run, so that the next run continues `EachSlotOnce`. With `LocksAreFresh` a
  `CreateRun` is one of the ledger; the steps of a task leave schedule and slot of every run alone
  (`KeepsSlots`) and are stutters. `RunsInOrder` relates any two runs of a schedule, not only neighbours, and holds by itself
  on top of `SlotInv`: every run lies before the schedule's next slot, and the next run is at it.

- *Ingestion.* `Located` says where the events of an ingestion are: with nobody else, not stored before
  its commit, stored after. It gives the others what they lack: `Tallied` (before its save a batch
  is not counted, and what is in hand is at most the count, and is the counter itself
  unless raced) makes the save an addition over disjoint finite sets (`TallyAdds`); `Informed`
  makes a query see all that was invalidated, which was stored before; `ActiveSeen` is the same
  for the count of users. `OneInsertEach` is independent: an ingestion that is to insert the source
  has not inserted one. TLC checked these invariants before they were proved. `CountingFollows` is the other half of
  `TalliesAreExact`: it follows each event from its commit through `Uncounted`, the steps before a counter is saved.
  `NothingRaced` says that with one ingestion at a time nobody saves between its read and its save; together, at rest, the
  counters are exact.

- *Workspace.* The type invariant needs `Entitled`: a request that gives a role was begun by an
  Admin or an Owner, because `Minimum` asked for one, so that `grantor` is a role. `FounderStays`
  follows one owner, the founder: until stepping down the founder is Owner
  and no request has fetched the founder's membership to change it. For the owners made later `OwnersInHand` says that a request
  which has an owner's membership in hand is a belated one, and that no change of role makes an owner: then every step but an acceptance
  and the save of a belated request leaves the owners alone (`OwnersKept`). `RolesGiven` adds to
  `RolesAreGranted` what requests between fetch and save have in hand, and that an invitation's role
  does not change. `UsedOnce` counts the acceptances in hand: more than one is an overlap. `SecretsApart`
  keeps the secrets replaced, in use and in the hands of rotations disjoint, so that no save brings one
  back, in any order. `RowsFresh` says that while requests had the dashboard one at a time, the one that
  has it has it as it is, so that saving every column changes only what was asked for. With one request at a time
  no overlap is ever recorded (`NothingOverlaps`), so that the exceptions of both properties fall away.

- *Time series.* Of the calendar only what `TimeSeriesConstants` says is assumed: months are
  consecutive intervals, whatever their lengths. `Wrapped` turns "month minus offset" back into the
  number 12 · year + month, so that `month_specs` lists twelve consecutive months across any year's
  end (`MonthsTile`). `Walked` is the invariant of the listing: what a walk has passed it has shown,
  but for the timestamps of its cursors, and what it has shown lies at or above its cursor, so that
  the next page, strictly below, repeats nothing. A last page has fetched fewer rows than it asked
  for, hence, the sets being finite, all that match. For `CountsAgree`, `Window` places the buckets of
  each range: the first one begins less than a unit after the range does and not before the previous
  period ends. `Counted` says what the parts read so far have caught, with lower bounds that the
  clock only relaxes (`TotalReaches`, `SessionsReach`), so that events arriving between two
  parts, and the clock moving on, keep it.

- *Notifications.* `ChannelInv` adds to `ChannelsByDistinctRequests` what is about to happen: a request that is to insert a channel
  has inserted none of its type (`Inserting`), which lasts because channels are never deleted and change neither
  type nor inserter (`Saving`: a request saves to a channel of the type whose turn it is); and the two channels of the sign-up are there (`Founded`), so that only webhooks are inserted.
  `DeliveryInv` is a conjunction over the incidents, each with its own rows only: what a row may show once its attempt has left
  it (`RowKept`), what the row being worked on shows at each step (`Current`), that an e-mail channel an attempt copied has
  an address (`Addressed`), that every channel an attempt has done with has an outcome (`Told`), and that a task at
  rest works on no row (`AtRest`). A step of one incident leaves the others' rows as they are. `Ordered` is independent:
  attempts only grow, and a channel still to be served has no row of this attempt; the rows of a channel and an incident
  are hence at most as many as the attempts (`MessagesAtMostRetries`).
  `QuietInv` follows a request that nobody overlaps from its beginning. `Switched` are the types its saves have dealt with,
  `Settled` those it has looked up as well. Each settled type has exactly one channel (`OneEach`); a channel that was there at
  the beginning is as it was, or as the PATCH makes it once its type is switched (`OldRow`); one that the request has inserted
  itself has the defaults or, for a named type, what the body asks for (`NewRow`); and between lookup and save the row
  in hand is the only one of its type (`AtWork`). At the end every named type is switched, which is `QuietSettingsAreKept`.

- *Accounts.* `TenantInv` says that slugs are unique and owners have accounts
  (`OwnersInv`), and what a sign-up that nobody overlapped may rely on: its address and its slug are as free as they were when it looked
  (`SignupInv`), and that no profile in memory takes an account away (`ProfileInv`); with it `EvictedInv` is inductive. `SessionInv` follows each login: it has one live token at most
  (`Sole`), one request carries it (`CarrierInv`), an answer brings its successor or begins a new login
  (`NewInv`), and the cookie is live unless an answer that replaces it is under way (`CookieInv`), the case distinction that
  makes answers of different logins arrive in any order. `SeedInv` says what a seeding that nobody overlaps has found.
  A browser that sends one request at a time and loses no answer mixes no login (`NothingMixed`), which leaves
  `OneSessionPerLogin` and `CookieWorks` without their exceptions.

- *Termination.* `DeliveriesTerminate`, `JobsTerminate`, `RunsTerminate` and `EvaluationsTerminate` are action properties: every step that
  changes a task makes a tuple of natural numbers smaller in the lexicographic order: the attempts left, the stage
  of this one, and the rows, channels or rules left in it. What others do meanwhile, new channels, changed schedules, rules
  created or triggered, leaves it alone. This is the half of `DeliveriesEnd`, `JobsEventuallyEnd` and `RunsEventuallySettle` that does not
  depend on fairness; the other half, that a task with steps left can and will take one, stays with TLC.

Every safety property of the passing runs and both refinements are proved. Each of the three
findings has a theorem that says under which condition the behaviour that tests and docs expect does hold: `SilentRulesAreClear`
for `AlertMuteExpiry`, `FirstAttemptsCountOnce` for `CsvRetries`, `SeedingsKeepTenants` for `SeedingDays`. `SingleEvaluatorOpensOnce` says
the same of the duplicates that `OpenByDistinctWorkers` allows; `OpenAtMostWorkers` and `RowsOncePerAttempt` bound what happens
without the condition. Likewise `OneAtATimeCountsAll`, `OneRequestAtATime` and `OneTabKeepsItsSession`
show that the exceptions which properties make for overlaps and failures are needed for nothing else.

Liveness under fairness is out of the prover's reach, as is `ENABLED`, and is model-checked only (`AlertLiveness`, `Reports`, `CsvJobs`,
`Ingestion`, `Notifications`). Some theorems hold under a restriction (the second column above); what happens without it is left
to the runs. The theorems whose statement is in words in the table, `LockedIsOpen` and `PublicHasToken` are proved and no run
checks them.

## 5. Not modelled, and the plan

What could still be added, in this order:

1. Dashboard templates and widgets (`dashboards/views.py:74-117`, `166-188`): a template becomes a dashboard in one commit per
   widget, and a bad widget leaves the first ones. What a half-built dashboard should become is written nowhere.
2. Several organizations for one user: which membership `get_active_membership` takes when the oldest one goes away.

Left out for good: the WebSocket consumers (each looks its membership up once, when it connects, joins one group and forwards;
delivery is the channel layer's), the expiry of tokens and throttling (state of libraries), billing views and the lists (reads),
serialization, rendering, and the content of the demo's data.
