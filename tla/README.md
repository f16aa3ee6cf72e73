# A verification project for neuvector-mcp

`neuvector-mcp` is an MCP server: it offers the REST API of a NeuVector controller as tools to a
language model. A tool call is an asyncio task that validates its arguments, asks a guard, and talks
to the controller through one shared HTTP client. This directory holds TLA+ models of that code, the
TLC runs that check them on small instances, and theorems about them that TLAPS checks for every
value of the constants. Paths below are relative to `src/src/neuvector_mcp/`.

## 1. Inventory

| component | state | operations | interacts with | hard part | correct means |
|---|---|---|---|---|---|
| controller client (`client.py`) | `_token`, `_login_lock`, per call `headers`, `attempt`, `_relogin_done` | `login`, `logout`, `request` | the controller over HTTP; called by every tool | concurrent calls share token and lock; lost answers; sessions that end; cancellation | results are true, sends are bounded, the lock is never left behind |
| error taxonomy (`errors.py`) | none | `classify`, `is_retryable` | the client | two keys (code, status) | the class and retry follow the code first |
| write guard (`guard.py`) | none (stateless tokens) | `confirm_token`, `authorise_write` | every mutating tool | tokens live for ever and can be replayed by any call | what is executed was shown in a plan |
| audit (`audit.py`) | the log | `on_call_tool` | around every tool | calls that end in no ordinary way | one true record per call |
| enforcement modes (`modes.py`, two tools) | none; the controller's modes | `read_service_modes`, `verify_applied` | client, controller | the controller answers before it applies; batches are read one by one; two callers | "applied" is evidence and lasts |
| write tools (`tools/*_write.py`, `*_ops.py`, `system.py`, `admission.py`, `dlp.py`, `sigstore.py`) | none | 67 mutating tools, one five-step body | guard, client | what goes into target, payload, path and query; replace-style updates | the token binds the request; no lost edits |
| read tools (`inventory.py`, `events.py`, `policy_read.py`, ...) | none | 52 tools that list and get | client; the caller, who goes on where a page tells it to and writes back what it was shown | a list changes between two pages, and between a read and a write; filters applied after the cut; lists cut without a way to the rest | a walk told it is complete has missed nothing; a caller that gives up on a cut list loses nothing |
| settings (`config.py`) | frozen `Settings` | parse, validate | all | contradictory switches | a read-only server has no mutating toolset |
| server (`server.py`, `context.py`) | client and settings for the process | `lifespan`, `build_server` | client, tools | shutdown | no session outlives the process if the controller can be reached |
| schemas (`models.py`) | none | Pydantic models, `redact_secrets` | tools | - | secrets are masked |

`PROJECT.json` lists the components with what is modelled of each, and the hazards: what can go
wrong in this code that a unit test would hardly reach, at the line where it bites.

## 2. Modules

| module | models |
|---|---|
| `NVErrors` | `errors.py`: classification of an answer by code, then status; which answers are retried |
| `AtLeastOnce` | the promise of the request path to a tool: a call ends; "ok" means executed; at most `MaxExecutions` executions; an error promises nothing |
| `NVClient` | `client.py`: any number of concurrent `request()` calls, the login lock, the shared token, cancellation, shutdown; the controller and the network around them |
| `ServiceModes` | `nv_set_service_mode` and `nv_set_group_policy_mode` over `modes.py`, on top of `AtLeastOnce`, with a controller that applies an acknowledged change later or never |
| `WriteGuard` | one mutating tool call from `tools/call` to its audit record: middleware, guard, request; parameterised by the table of tools; on top of `AtLeastOnce` |
| `ToolPlans` | the vocabulary of the tool tables: bodies, masked secrets, omitted arguments, routes, local checks |
| `PolicyTools`, `RulesetTools`, `ProfileTools`, `ScanTools`, `AdminTools` | the tables: for all write tools but the two of `ServiceModes`, what their arguments become: target, namespace, payload, route, and the local validation |
| `ToolTable` | the 65 tools of those tables in one, and what their schemas let through |
| `ReadTools` | the tables of the read tools: which route, what the controller filters, what the tool filters before and after it cuts, where it cuts |
| `ListEdits` | a list the controller keeps, callers that walk it page by page with a read tool and edit it with a write tool, and the list changing under them; on top of `AtLeastOnce` |
| `MCNVClient`, `MCServiceModes`, `MCWriteGuard`, `MCListEdits` | the constants for TLC |
| `NVClientProofs`, `NVClientRefinement`, `NVClientProgress`, `ServiceModesProofs`, `WriteGuardProofs`, `ToolTableProofs`, `ListEditsProofs` | the theorems |

`NVClient` implements `AtLeastOnce` (checked and proved). `ServiceModes`, `WriteGuard` and
`ListEdits` use `AtLeastOnce` and never look inside the client, so each stays small enough to check
with two concurrent tool calls. `MCListEdits` composes `ListEdits` with `ReadTools`: the queries
walked there are those the real read tools make of their arguments. `MCWriteGuard` composes
`WriteGuard` with `ToolTable` for some calls of each tool, `ToolTableProofs` for all of them.

### How state and actions correspond to the code

*NVClient.* A step runs from one `await` to the next, which is what asyncio makes atomic. `pc` names
the await a call stands at. `hdr` is the local `headers`, built once before the loop (line 227) and
again in the recursion after a re-login. `RequestOk`, `RequestUnauthorized`, `RequestRefused`,
`RequestTransient` and `RequestLost` are the branches after `_http.request`; `Wake` ends the
backoff. `AcquireLock`, `LoginOk`, `LoginRefused` and `LoginBroken` are `async with _login_lock:
await login()`; asyncio locks serve their waiters in order, hence `ahead`. `Cancel` is a
`CancelledError` at any await. Credentials are numbers in the order the controller issued them. The
controller executes a request, rejects its credential, or answers any error with or without having
executed it (nothing in the repository says that an HTTP 500, say, had no effect); it grants or
denies a login, and ends sessions at any time. A request given up by the client may still be handled
later, and so may one that a proxy answered in the controller's place (`GatewayGivesUp`): that a
proxy then answers 502, 503 or 504, which is what these statuses mean in HTTP, is an assumption of
the model.

*ServiceModes.* `Start` is everything before the first read (arguments, allow-list, guard); `Read`
is one `GET /v1/service`; `Decide` is the unknown-service error, the no-change answer or the PATCH;
`Verify` ends a round of `verify_applied`. `held` is a history variable: the services that were as
asked at some moment since the PATCH was acknowledged.

*WriteGuard.* `ask` is the tool and its arguments, chosen at the start. `Start` runs up to the first
await: registration, local validation and `authorise_write` (`Authorise`), in that order. Only
`nv_update_system_config` reads before the guard (`HasRead`, `ReadBreaks`). A token is the triple it
is a digest of: `canonical_json` and the separators make the digest's input unique for a given
operation, and truncation to 48 bits is ignored. A caller may come with any token it was shown by
any call, with none, or with a string that is nobody's token.

*The tool tables.* A definition bears the name of its tool and gives the plan for one call's
arguments. Optional arguments are `None`; `Given` drops them from the body as `_set_fields`,
`_optional` and the many `if x is not None` do. Where the code joins two names with a slash
(`root/verifier`, `profile/check`), in the target or in a path, a name is the sequence of its parts
between slashes and the joined name is their concatenation (`Slash`), for the join can hide where
the first name ends. Where it joins a name to a word of an enumeration, or the payload holds both
names too (`nv_update_user_role`, `nv_create_service`, `nv_scan_repository`), it hides nothing and
the model keeps the pair. Numeric bounds and enumerations of the Pydantic schemas are enforced
before the tool runs and left out, but for those a plan relies on (`SchemaAllows`). The effect text
is left out.

*ReadTools.* A definition bears the name of its tool and gives the query of one call: the route, the
filters sent with it (`asked`), the filters the tool applies before it cuts (`local`) and after
(`until`, the upper end of a time window), the order, the start and the effective limit. `pages`
tells whether the tool takes a `start`; where it does not, the caller can only ask for a larger
limit. `Everything` is the limit of the tools that return a whole object or list.

*ListEdits.* The list is a set of numbers in the order of the list; position is `Rank`. A call is a
caller's job: a walk, a walk followed by a write, or a write without a read. The caller is outside
the code, and modelled as the tool descriptions ask it to act: it goes on at the start of the hint
while it is told that there is more, sends back what it was shown with its change, and gives up if
the last page is still cut. `Read` is one GET and what `_page_items_` (and, in `events.py`, the
trimming by time) makes of it: one item more than the limit is asked for, the page is cut, then the
residual filter is applied, and the next start counts the page before that filter. `Send`, `WriteOk`
and `WriteFails` are the write tool past its guard, `Execute` the controller, at any time after and
more than once. A write replaces the list (sensor rules, criteria, profile entries, the flags of a
workload), changes single items that carry an id or a key, or inserts: the body of an insertion
carries none, so each execution adds an item of its own, one of the copies `plus` has room for.
Items of `Volatile` come and go by themselves, those of an event log (`log`) too. The controller
ignores a sort it does not support, silently (`events.py:182`), so nothing is assumed of where
events arrive and which expires; only if the variable `sorted` holds, the controller keeps the log
newest first and the last event is the one that expires (also then an event may be reported late,
anywhere). `sorted` is chosen once and never known to the caller. `stayed`, `shrunk`, `grown` and
`repeated` are history variables of a walk: what was there all the time, whether an item already
walked past vanished or appeared, whether one was shown twice.

## 3. Runs

Every cfg says `CHECK_DEADLOCK FALSE`: calls end, and when all have ended nothing is left to do.

| run | instance | shows |
|---|---|---|
| `client_safety` | 2 calls, 2 attempts each, both auth modes | lock and its queue, send budget, truth of results, what is settled after an error, what an `AuthError` says of the session, when a live session is abandoned, token order, progress of every step, refinement of `AtLeastOnce` (1.5 million states) |
| `client_liveness` | 2 calls, 1 attempt | every call ends |
| `client_retry_claim` | 1 call, 3 attempts | *violated*: SPEC.md says one retry after a re-login; the code starts a whole retry loop |
| `client_toolerror_claim` | 1 call | *violated*: a broken re-login raises a raw exception |
| `client_code3_claim` | 1 call | *violated*: code 3 under another status than 401 is not re-logged in |
| `modes_safety` | 2 calls, 2 services, 2 reads, 2 deliveries | success is evidence and lasts; the allow-list holds |
| `modes_requests` | 1 call, 3 services, every kind of request | every step uses up some of the read budget; every call ends |
| `modes_drift_claim` | 1 call, the real budget of 8 reads | *violated*: drift is reported of a change that lands late |
| `guard_safety` | 2 calls among 193 invocations of 65 tools, 4 settings | what is executed was planned; audit records are true |
| `guard_audit_claim` | 2 calls of one tool | *violated*: a cancelled write leaves no record |
| `list_edits` | 2 calls, 4 items, the 21 distinct queries of 52 read tools, 2 deliveries | a walk misses and repeats nothing but for changes behind it; where a cut page leads; a log that is kept sorted is walked without gaps; edits last; an unasked loss needs a stale read; walks end (683 thousand states) |
| `guard_token_claim` | 2 calls of `nv_delete_webhook` | *violated*: the token does not bind the scope |

*Why the bounds are enough.* Two calls already show every conflict over the lock, the token, a
service and a confirmation token, for each conflict is between two parties; a third waiter adds only
another place in the queue. Two attempts are enough to have a lost answer before the last attempt,
and a second loop after the re-login. The error answers are a transient one, a denied operation and
an unmapped HTTP 500, which the client raises after one send although it may have taken effect. Two
verification rounds have a round that is not the last. In `guard_safety` each tool has a base call
and calls that differ from it in one argument, which is what a token that leaves an argument out
needs to show. The two calls are of one tool, or base calls of any two tools (`MayMeet`): a token
names its operation, so this is where two calls can meet over one, and that operations are told
apart is checked of all pairs of tools. That run leaves out the one pair known to share a token, the
two scopes of `nv_delete_webhook`, which `guard_token_claim` holds. Passwords differ in one pair:
the masked bodies are the same there, as the README of the server says, and `Approved` compares
masked bodies.

In `list_edits` a page has none (`NV_MAX_ITEMS` of 0), one or two items of four, so a walk has pages
before, at and past the end, and a residual filter can empty a page in the middle. `AsQuery` drops
what a walk cannot tell apart (the route, which field is filtered), which leaves 21 queries of all
those the tables give; `EveryArgumentCounts`, evaluated with the run, says that the tables lose no
argument: for each tool a base call and each call that differs from it in one argument give
different queries. The second call always disturbs the first: it writes, with or without a read; of
a log, which nobody writes, it asks for a page past the end. Two plain walks do not interact, and a
third caller adds no new way to lose an item: `Becomes` treats every change of the list alike.

*Symmetry* is used over the calls in the safety runs only, never with liveness.

*Fairness.* `FairSpec` of `NVClient` and `ServiceModes` gives weak fairness to the steps of each
call that are the event loop's: a runnable task is run, and httpx ends every wait for an answer by
its timeout. Nothing is assumed of the controller, the network, the caller or the end of the
process. In `ServiceModes` the client's answer to the PATCH is one of the call's own fair steps,
which is what `NVClient`'s `EveryCallEnds` shows. In `ListEdits` only `Read` is fair: the client
ends every GET, and a caller told that there is more asks again. Nothing is assumed of writes or of
the controller. `EveryWalkEnds` rests on the next start growing with every page that is cut, also
with one that the residual filter emptied, which it does unless `NV_MAX_ITEMS` is 0, a case the
property excepts, and on `Items` being finite: a log that grows for ever as fast as it is read is
walked for ever, by the code too.

## 4. Proofs

For any number of calls, attempts, services, invocations and any settings:

* `NVClientProofs`: `TypeOK`, `LoginHoldsLock`, `SendBudget`, `OkMeansExecuted`,
  `TokenNeverGoesBack`, `SessionsBounded`, `OneSendErrorIsSettled`, `OrphansNeedARace`, and
  `AuthErrorMeansOwnSessionDied` under the hypothesis `OnlyUnauthorizedIsAuth`. Each has an
  inductive invariant of its own, because none is inductive alone: success needs that an "ok" reply
  in flight or delivered belongs to an executed send; the token order needs that only the holder of
  the lock has a login under way and that its grant is newer than the token; the session bound needs
  that a call logs in at most once. `OneSendErrorIsSettled` needs that an answer at hand to a first
  send, other than a proxy's, means that the send is off the network; it says nothing of whether the
  operation had an effect, and nothing of errors after two sends, where an earlier send may still be
  under way. `AuthErrorMeansOwnSessionDied` and `OrphansNeedARace` need that a call carries one
  credential at a time, that a 401 on its way to it is the answer to that one, and that the one it
  left behind at its re-login is older than what the re-login obtained and stays dead. The
  hypothesis excludes controllers that send the codes of auth failures (3, 47, 48) under another
  status than 401: there a single answer makes an `AuthError` with no session dead at all.
* `NVClientRefinement`: `NVClient` implements `AtLeastOnce` (`MaxExecutions` being twice
  `MaxAttempts`): initial states map to initial states, every step to a step or a stutter.
* `NVClientProgress`: `OneIsNext` (while the login lock is free and someone waits, exactly one of
  the waiters may take it: no two hold it, none is stranded by a cancelled one) and
  `EveryStepIsProgress` (each step of a call lowers a measure that nothing raises, through backoff,
  re-login and the second retry loop). `OneIsNext` needs that the queue is a strict linear order of
  its waiters; the measure needs that attempts stay within `MaxAttempts` and that the one re-login
  is spent before the second loop.
* `ServiceModesProofs`: `TypeOK`, `AllowListKept`, `SuccessLasts`, `AppliedWasSeen`. The last one
  needs that, while a call verifies, whatever is as asked or was found so in this round is recorded
  as held since the acknowledgement. `SuccessLasts` rests on the invariant that a service found as
  asked stays so in every uncontested field, since whatever is still pending for it either asks the
  same or contests it. `CallsRunDown`: each step of a call lowers what is left of its budget of
  reads. It follows by counting from the type invariant, which keeps the rounds within
  `VerifyAttempts` and what is left of a round finite.
* `ListEditsProofs`, for any finite list, any callers, queries and edits: `TypeOK`, `NoGaps`,
  `SortedLogMissesNothing`, `NoRepeats`, `HintLeadsOn`, `EditLasts`, `LossNeedsStaleRead`. Lemmas
  about positions come first: positions grow with the items and have no holes, a window is as dense
  as the list, and a list that changes only from a position on keeps what is before it
  (`FrontStays`). `NoGaps` and `NoRepeats` need `WalkOk`: while a call walks, what it has to show is
  ahead, shown or not asked for, unless an item vanished behind it, and what it has shown is behind,
  unless one appeared there. A log that the controller keeps sorted needs `LogOk`: nobody writes it,
  and what expires is its last item, so nothing vanishes behind a walk that has something ahead. Of
  a log in another order `NoGaps` says what may be missed. `LossNeedsStaleRead` follows from `NoGaps` and `Path`
  (a caller that reads writes only after a complete walk). `EditLasts` needs that what a write wants
  is fixed once it may be executed, so a late duplicate repeats it. Of an insertion it says that one
  copy at least stays: a duplicate adds another, which no property forbids, for the code can do
  nothing about it and promises nothing. `HintLeadsOn` (a cut page sends the caller on by one whole
  page, to an item of the list) rests on a cut page being a full one, however little of it the
  filter left. It holds for every limit from 0; only with a positive one is it further on than the
  caller was.
* `WriteGuardProofs`: `TypeOK`; `EveryWriteWasPlanned` under the hypothesis `TokenBindsRequest` on
  the tool table; `AuditTellsTheTruth`. The invariant (`Handshake`, `AuditWritten`) says that a
  call's token was known when it was called, that plans are never forgotten, and that a request is
  begun only past the token comparison. `TokenBindsRequest` is not provable of an arbitrary table:
  it is exactly what `nv_delete_webhook` breaks.
* `ToolTableProofs` discharges that hypothesis for the real table, with no bound on the arguments.
  Lemmas go through the tools (`PolicyToolsBind` and the like): what the route depends on is in the
  target or, unmasked, in the payload. `OneTokenOneRoute` says that two calls of any of 64 tools
  (`BoundTools`: all but `nv_delete_webhook`) with one token send one request, and
  `RealToolsPlannedFirst` concludes `EveryWriteWasPlanned` for a server that offers them. Both
  assume what the schemas enforce (`SchemaAllows`) and, for three tools, that the first of the names
  they join holds no slash (`FirstIsPlain`). The code does not enforce that, and it is needed:
  `SlashedNamesShareTokens` proves that two verifiers of slashed names share a token.
  `WebhookDeletionIsUnbound` proves the same of the two scopes of `nv_delete_webhook`, for every
  name. `PlansKeepSecrets`: two calls that differ in the values of their secrets only have one plan,
  so neither preview nor token tells a password from another, and the token shown for one confirms
  the other, as the server's README says it does.

Assumptions are those named in the modules (`CallsAssumption`, `AttemptsAssumption`,
`ModesAssumption`, `RepliesAssumption`, `ServicesAssumption`, `VerifyAssumption`,
`RequestsAssumption`, `ConfigsAssumption`, `TokensAssumption`, `ItemsAssumption`,
`MissesAssumption`, `VolatileAssumption`, `JobsAssumption`, `MaxItemsAssumption`); TLC evaluates
each on the instances of the runs.

Only model-checked: liveness (`EveryCallEnds` of `NVClient` and `ServiceModes`, `EveryWalkEnds`),
for fairness and ENABLED are outside the proof system. What is proved is the half of it that is the
code's: no step can be taken for ever (`EveryStepIsProgress`, `CallsRunDown`), nobody waits for a
lock that no one can take (`OneIsNext`, `LoginHoldsLock`), and a walk with a positive limit moves on
(`HintLeadsOn`). What is left to TLC is that the steps are taken, which is the fairness of the event
loop. Also evaluated and not proved: that the tables of the read tools lose no argument
(`EveryArgumentCounts`), and that the calls of `MCWriteGuard` are ones their schemas allow and name
every tool (`CallsFitSchemas`, `EveryToolIsCalled`).

## 5. What the violated claims mean

1. *Retry after re-login* (`client.py:257`): the recursion runs the full loop again, up to six
   sends of one write where SPEC.md 7.2 allows one more.
2. *Raw exceptions* (`client.py:256`): the re-login is in the `else` clause, which the handlers
   above it do not cover, so a timeout of `POST /v1/auth` is no `ToolError`.
3. *Code 3* (`client.py:251`): the appendix makes the code the key; the client looks at 401.
4. *Drift* (`tools/runtime_ops.py:312`): "did not take" may mean "was not seen to take in four seconds".
5. *Audit* (`audit.py:81`): `CancelledError` is not an `Exception`.
6. *Webhook scope* (`tools/response_write.py:970`): the scope is in the query string only.

Met while modelling and proving, and not made into runs:

* A target that joins two names with a slash does not tell them apart: the token shown for verifier
  `v` of root `r/s` is that for verifier `s/v` of root `r` (`sigstore.py:1070`,
  `compliance_write.py:440`). The schemas ask of a name only that it is not empty
  (`SlashedNamesShareTokens`); whether the controller accepts such names is not in the repository.
* `Page.truncated` (`models.py:34`) tells the caller to increase `start` by `returned`, but in the
  event queries `returned` counts the page after it was trimmed by time, and only the hint names the
  right start. The mutant `next_start_by_returned` of `ListEdits` is that caller: it repeats items,
  and stands still on a page that was trimmed to nothing.
* `NetworkRule.order` (`models.py:1991`) is the position in the filtered list, not in the
  controller's order of evaluation, when the list is filtered.
* The hint to raise `max_entries` (`models.py:1271`) cannot help above `NV_MAX_ITEMS`.
* `NV_MAX_ITEMS` is not checked (`config.py:237`): with 0 every page is empty, truncated and its
  hint names the start it was asked with, so a caller that follows it never ends. That is in the
  model (`EmptyWalks` of `MCListEdits`); a negative value, which slices from the end, is not
  (`MaxItemsAssumption`).
* `build_query` raises a `ValueError`, no `ToolError`, on a filter value with a comma whose first
  part is no operator (`client.py:83`).
* The namespace that `nv_update_workload_config` and `nv_quarantine_workload` hand to the guard is
  the caller's word (`runtime_ops.py:84`, `service_ops.py:270`).

## 6. Not modelled

Parsing of the environment, logging, transports and bearer tokens (FastMCP), TLS, the Pydantic
schemas, formatting of results, and `build_query` beyond which arguments reach the request. The
startup of `lifespan` before it yields: a failed login ends the process. Restarts of the server:
tokens are stateless and a restart keeps nothing else; settings are frozen in the model. Of the read
tools: the fields of the items they show, and the order of items other than events. The controller
is modelled only as far as the code meets it, and marked external in the map.

## 7. Plan

Done: the request path and its promise; the mode tools; the guard with the plans of all the other
write tools; the read tools, paging and truncation, and the read-then-replace updates with their
lost edits; theorems for every safety property the passing runs check, and for the real tool table.

1. A claim run for the allow-list over tools that take no namespace, the caller's word for it,
   or that of the new definition instead of the stored one.
2. `ResponseRules`: the ordered rule list and the webhooks as controller state, concurrent
   batches, whole and partial updates, dangling names; against an abstract ordered list.
3. The old values shown in the plan of `nv_update_system_config`, with the configuration as
   controller state.
4. Proofs: that the tables of the read tools lose no argument, for every value of it; that a
   token fixes all arguments of a call but secrets and those that only shape the answer.
