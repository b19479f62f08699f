# TLA+ models of the integration platform

The repository holds two programs and two small packages:

* `services/bitrix_gateway` - one asyncio process that takes calls to the Bitrix24 REST API over HTTP,
  runs them one after another, obeys Bitrix24's limits and repeats what may be repeated;
* `apps/nashdom_sync` - a batch program that reads buildings, developers and company groups from
  a web site, compares them with the CRM and creates what is missing, through the Gateway;
* `packages/runtime_files` and `packages/platform_logging` - run directories and logging.

This directory models the control of these programs in TLA+, checks the models with TLC on small instances
and proves the main results with TLAPS for all instances.

Paths below are relative to `services/bitrix_gateway/src/bitrix_gateway` (GW) and
`apps/nashdom_sync/src/nashdom_sync` (NS).

## Inventory

| Component | State | Operations | What makes it correct | Modules |
|---|---|---|---|---|
| HTTP handler, `GW/http_api/api.py` | one suspended `call` per request | `call`, `health` | every call gets one answer: its own job's outcome, 503 or 504 | `CallService`, `Dispatch` |
| Dispatcher and queue, `GW/dispatch` | `_pending` futures, a bounded FIFO queue, one worker | `submit`, `run`, `enqueue`, `dequeue` | nothing lost, nothing leaked, first come first served, abandoned jobs not run | `Dispatch` |
| Executor, `GW/execution/executor.py` | loop variable, remembered reset times | `execute` | NEVER sent once, SAFE at most `max_attempts` times, honest statuses | `Execution` |
| Limits, `GW/limits` | last start, blocked-until per method | `wait_turn`, `set_cooldown` | spacing of starts, a blocked method is not sent, waits end | `Execution` |
| Transport, `GW/execution/http_transport.py` | - | `call` | tells certain failures from uncertain ones | `Execution` |
| Gateway process, `GW/main.py`, `bootstrap.py`, `app.py`, `settings` | the parts above | start, stop | an answer is true of what was done to Bitrix24; a NEVER call writes once | `GatewayService`, `Gateway` |
| CRM client, `NS/bitrix_crm` | HTTP client | `add_*`, `list_*`, paging | no local repeats; a listing is whole, once and finite; answers out of contract are errors | adds in `Load`, lists in `Listing` |
| Load, `NS/load` | results so far | `load`, `execute`, `resolve` | dependents of a failure do not run; results are true; links are right | `Load` |
| Transformer, `NS/transform/transformer.py`, `service.py` | indexes | `transform` | creates what is missing, once, in an order that can be loaded | `SyncPlan`, `Transform` |
| Plan validator, `NS/transform/validator.py` | - | `validate` | a valid plan can be loaded | `SyncPlan`; assumed in `Load` |
| Orchestrator, `NS/orchestrator.py` | stage, browser, manifest | `run` | manifest and artifacts agree with what happened; no browser is forgotten; a run after a bad one repairs | `SyncRun`, `SyncRuns`, `Preparation` |
| Artifact store, `NS/run_artifacts` | `run.json`, snapshots | `start`, `mark_*`, `save_*` | readers see whole files | `SyncRun` |
| CRM context cache, browser provider, `NS/providers` | browser processes | `exists`, `load`; `provide` | a run that loads never uses the cache; failed launches are undone | `SyncRun` |
| CRM context provider, `NS/providers/crm_provider` | client, managers resolved | `provide` | nothing that exists is overlooked; ambiguity is an error; the client is closed | `CrmContext`, `CrmProvider` |
| Extract service, normalizer, validator, `NS/extract` | the lists so far | `extract`, `normalize_*`, `validate_*` | what is returned is referentially closed and consistent | `Normalizer`, `SourceData`, `Extract` |
| NashDom client, `NS/extract/nashdom/client.py` | browser tab, offset, objects, index | `get_objects`, `get_developers`, `get_company_groups` | a dead browser is told from a bad page; no object or developer slips between two batches; everything ends | `Navigation`, `ObjectListing`, `DeveloperRegistry`; groups in `Extract` |
| Settings, data contracts, run directories, logging, deployment | - | start-up | - | not modelled, see below |

How they interact: the orchestrator runs CRM_CONTEXT, EXTRACT, TRANSFORM and LOAD in this order in one
thread. CRM context and Load call the Gateway over HTTP and block. In the Gateway the handler waits, under
a timeout, for a future that the single worker sets; the worker runs the executor, which waits for the limits and
calls Bitrix24. The programs share no memory; they share Bitrix24's state, which also outlives runs.

Hard behaviours: a timeout that races the worker's answer; jobs whose callers have left; a queue full of such
jobs; a worker that dies; a write whose outcome nobody knows, or that happens after its client gave up; a load
that is cut off; a second run over what a partial one left, or beside one that is under way; lists that move while
they are read page by page, at Bitrix24 and at the site; a server that gives fewer records than asked for or
repeats itself; a browser that dies between two commands. `PROJECT.json` lists them as hazards with their lines.

## Modules

* `CallService` - what the Gateway's `call` promises, without saying how.
* `Dispatch` - handler, dispatcher and queue; implements `CallService`. `DispatchProofs` - its theorems.
  `MCDispatch` - instance for TLC.
* `Execution` - executor, limits and transport.
* `GatewayService` - what a client that writes may rely on: how often its request is carried out, and what the
  answer says of that.
* `Gateway` - composes `Dispatch` and `Execution`; implements `GatewayService`. `GatewayProofs` - the theorems of
  `Execution` and of the composition. `MCGateway`.
* `Load` - the Load stage against an unreliable Gateway and Bitrix24. `LoadProofs`, `MCLoad`.
* `SyncRun` - one run of the orchestrator with its artifact store and browser; Load is one step of it.
  `SyncRunProofs`, `MCSyncRun`.
* `SyncPlan` - transformer and validator as operators on sets and lists. `Transform` - the service over them.
  `TransformProofs`, `MCTransform`.
* `CrmContext` - what the provider makes of what it listed, as operators. `CrmProvider` - its calls one by one.
* `Lists` - lists that change while they are read. `Normalizer`, `SourceData` - Extract's normalizer and validator as
  operators. `Extract` - the service; its theorems are in `PreparationProofs`.
* `Preparation` - composes `CrmProvider` and `Extract` in the orchestrator's order, and asks whether `SyncPlan`
  accepts what comes of it. `PreparationProofs`, `MCPreparation`.
* `Listing` - the CRM client's paging against a CRM that changes. `MCListing`.
* `Navigation`, `ObjectListing`, `DeveloperRegistry` - the NashDom client: opening a page, the objects of the
  regions, the developers. An `MC` module each. `ReadingProofs` - the theorems of these three and of `Listing`, which
  share their lemmas on lists and counts.
* `SyncRuns` - composes listing, planning (`SyncPlan`, `CrmContext`) and loading of several runs over one CRM.
  `SyncRunsProofs`, `MCSyncRuns`.

```
CallService <|- Dispatch        Execution
                      \          /
    GatewayService <|- Gateway                     Listing   Navigation   ObjectListing   DeveloperRegistry
                                                                              |
SyncPlan --- Transform                Normalizer   SourceData ----------------+
   |  \                                    \        /
   |   CrmContext --- CrmProvider --+--- Extract (EXTENDS SyncPlan too)
   |       |                       Preparation
   |     SyncRuns                                    Load        SyncRun
```

The modules meet where one states what the other assumes: `GatewayService` says that FAILED means no effect, that a
NEVER request is sent once and that 503 means a job never runs, `Gateway` implements it, and `Load` and `SyncRuns` use
it;
`TransformProofs` shows that the transformer's plans pass the validator, whose order rules `Load` takes as `Valid`;
`ObjectListing` and `DeveloperRegistry` give what `Extract` receives in one step; `SyncRun` takes Extract, Transform
and Load as steps that return or raise.

Operators whose names say what is wrong with them (`TakeNewest`, `RetryAnyPolicy`, ...) stand before the
definition they vary. They are plausible mistakes; each shows that a property notices a change of the code.
They are not part of any specification.

### Dispatch

A step is what the event loop runs between two suspension points. A call has two coroutines: the handler in
`asyncio.wait_for` (`api`) and the task that runs `submit` (`task`). `future` and `pending` are the
dispatcher's futures and `_pending`; `queue` is the `asyncio.Queue`; `worker` and `mode` are the `run` task;
`answer` is the HTTP answer. `arrivals`, `begun` and `finished` are history.

| Action | Code |
|---|---|
| `Call` | `api.call` up to the suspension in `wait_for` |
| `SubmitAccepted`, `SubmitRefused` | `submit` up to `await future`, or the `QueueFullError` and its `finally` |
| `SubmitResumes` | the task resumes: result, exception or cancellation, then the `finally` |
| `Expire`, `GiveUp`, `ReplyTimeout` | the timer of `wait_for`; cancelling the task; the 504 |
| `Reply` | 200, 503, or the exception that becomes a 500 |
| `WakeWorker`, `FinishJob` | `run` from one suspension to the next, dropping abandoned jobs on the way |
| `WorkerDies`, `Stop` | a BaseException out of `execute`; the end of the lifespan |

`wait_for` is that of Python 3.8, the lowest version the package accepts: when the timer has fired, the handler
cancels the task unless the task has ended already. A future that holds a result does not save a task that has not
resumed: the mark `doomed` stands for that, and the result is lost. Later versions have fewer behaviours here.

The abstract state maps to the detailed one by `Phase` (is the caller served, timed out, answered) and the
identity on the rest. `CallService` says: one job at a time, each at most once and only for a caller being served;
an outcome only of the caller's own finished job; 503 only for a job that never runs.

### Execution

One worker runs one job after another, so the limits have one user and `RateLimiter`'s lock is never contended.
A job is a method and a retry policy. `phase` is where `execute` is suspended: in the cooldown's sleep, the rate
limiter's sleep, the request, or the sleep before a retry. Time is discrete and relative: `blocked`,
`resetIn` and `sleep` are times left, `sinceStart` is the time since the last start, cut off at the
interval. The code's clocks occur only in such differences, so nothing is lost; a step of the system's wall
clock, which `_apply_method_cooldown` reads, is not modelled. A sleep may last longer than asked for, as all
other actions may be late, and never shorter.

An answer is its HTTP class, its error code and its `operating_reset_at`. A reset in the past is one with 0 left.

What Bitrix24 may have done with a request is an assumption (`EffectsOfFailure`, `EffectsOfAnswer`): no
connection, no effect; 2xx without an error, one effect; an answer below 500 with an error or one of the two limit
errors, none; any other 5xx, a broken connection or an unreadable body, none or one. `sends`, `effects`, `gap`,
`announced` and `owed` are history: what was sent and done, and what the limits owe Bitrix24 independently of
what the code remembers.

`Raise` is any exception that leaves `execute`: a cancellation at a suspension, or an error of the HTTP client or over
a malformed answer that the transport does not turn into a `TransportError`. It leaves no status.

### Gateway

`Gateway` has the variables of both parts and adds each call's `job` and a history of how executions ended (`done`).
Its steps are those of the event loop: a handler's step is `Dispatch`'s, a step of `execute` is `Execution`'s, and
where the worker calls `execute` or gets its result the two are one step, as no suspension lies between.

| Action | Code |
|---|---|
| `Handle` | a step of `api.call` or `submit` |
| `TakeJob` | `run` wakes up with a job (or with abandoned ones only) and calls `execute` |
| `Execute`, `Elapse` | `execute` resumes after a sleep or a request; time passes |
| `ReturnJob` | `execute` returns or raises, the future is set, and `run` goes on to its next suspension |
| `Die`, `ShutDown` | a BaseException ends the worker; the lifespan cancels it: the execution is cut where it stands |

When `execute` has ended (`Returning`) nothing else runs before `run` has gone on. What `Dispatch` leaves open, whether
a job ends with a result or an error, is here decided by the executor (`CompleteJob`).

`GatewayService` knows of a call how often Bitrix24 carried its request out (`acts`), what became of the job (`verdict`)
and the answer (`code`). While a job may go on it may act, a NEVER job once and only as it ends. 200 is given for a
job with a status, 500 for one that raised, 503 for one that never acted; 504 at any time, and the job may go on
behind it.
Of a NEVER call FAILED means that nothing was done and SUCCESS that it was; UNKNOWN is only ever said of NEVER calls.

### Load

An operation is known by its place in the plan; `deps` are its dependencies, `binds` the operations whose ids it
takes, `creates` tells items and requisites from addresses, which return no id. `results` grows by one per
operation as the dictionary in `SyncPlanExecutor.execute` does. Bitrix24 is the log `crm` of the requests
carried out, and the id of an element is its place in it. `open` are the requests that Bitrix24 may still carry
out: a client that gets no answer cannot withdraw one, so `CarryOut` may happen after the operation was
recorded UNKNOWN and after the load has ended.

| Action | Code |
|---|---|
| `Block` | a source is not SUCCESS |
| `RaiseInvariantError` | a source without a result, a binding without an id (executor and resolver) |
| `Send` | bindings resolved, the add call is made under `RetryPolicy.NEVER` |
| `Succeed`, `Fail`, `Uncertain` | the Gateway's statuses and what `_call` and `execute` make of them |
| `GatewayFails` | `BitrixGatewayError`: HTTP 503/504/500, no connection, timeout, answer out of contract |
| `Interrupt` | a BaseException, or `client.close()` failing |
| `Return` | the LoadResult |

Duplicate ids cannot occur here: the validator refuses such plans. That FAILED means no effect, that a NEVER
request is sent once and that 503 means the job never runs is what `GatewayService` says.

### SyncRun

`pc` names the statement of `run` that comes next, `stage` is `current_stage`, `memory` the store's `_manifest`.
All stages share the statements "mark", "work" and "save"; Extract's work is "launch", "configure", "extract" and
"close". The run starts in the new directory that `create_run_dir` has made. `versions` is that directory after
each rename, the last one being what a reader finds; a loss of power leaves any version, since the file system
keeps renames in order but may not have written the latest ones. A file renamed before its sync would be one a
loss of power can tear; `synced` records it. The last manifest and the end of the run are steps of their own: at
"return" and "raise" the manifest is final and the process still there, and may be killed or interrupted.

| Action | Code |
|---|---|
| `OpenTemporary`, `SyncTemporary`, `Rename` | `_write_json`: temporary file, `fsync`, `os.replace` |
| `Start`, `MarkStage`, `SaveSnapshot`, `MarkCompleted`, `MarkFailed` | the end of the store's operations, with where `run` goes on |
| `Initialise`, `ProvideContext`, `Transform`, `LoadWrites`, `LoadReturns` | the work of the stages; `LoadWrites` is the first write sent |
| `CreateBrowser`, `CreationFails`, `Configured`, `ConfigurationFails`, `BinaryMissing` | `BrowserProvider.provide` |
| `ExtractReturns`, `Close`, `CloseFails`, `SessionLost`, `ExtractFails` | the session loop of `run` |
| `StatementFails`, `ReportFails`, `StartFails` | an Exception anywhere else; `mark_failed` failing, which is suppressed; `start` failing, which is outside the `try` |
| `Return`, `Raise` | the end of `run`, after `sync_completed` or with the error it caught |
| `Interrupt`, `Kill`, `PowerLoss` | a BaseException; the end of the process; of the machine |

Every quit of a browser may raise and leave it running (`refused`). Log calls do not raise: handlers catch their
own errors. A leftover temporary file is not kept, as nobody reads one.

### Transform (SyncPlan)

A plan is the set of its operations, an operation's id its kind with the source id it is for. `Before` is the order
in which the transformer appends kinds and sorts ids; the validator's rules (`ValidPlan` and what it uses) are
stated over it. Commands keep what the rest depends on: literal references, bindings, the natural key (source id or
INN), the person responsible. Titles, texts and contact details are left out. `Extracts` and `Contexts` are the data
contracts: ids are positive, lists may be anything.

`IndexError`, `ManagerError`, `DeveloperError` and `GroupError` say what makes the transformer raise, `Accepted` that
nothing does; their order is left out, since the exception is the same to its caller: a repeated index key, an object
without its developer, two groups for one developer, a group or a manager that
is not there. `RejectInput`, `Build` and `Validate` are the steps of `TransformService.transform`. The debug output is
written by the orchestrator after the plan and read by nobody.

### CrmContext, CrmProvider

An answer is the list of records a call of the client returns, each with its source id (or INN), its id and whether it
satisfies the contract. `Verdict` says what each call's answer makes the provider raise: a semantic name that is
missing or there twice, an id that is no id, a record out of contract, a second company group of a source id, an INN
on two companies. A lead that repeats a source id, a blank source id, a requisite without INN or of an unknown owner
are left out, not raised. `AskForManager` asks for the names of the settings one after another, each once, and raises
unless just one employee among the users found bears the name; `found` keeps those users, so that `ManagersAreTheOnes`
can say that an ambiguous name is never settled by the order of an answer.
`CallFails` stands for every error of the client; `Close` and `CannotClose` are the `finally`, whose error hides the
one before it.

### Extract (Normalizer, SourceData)

A field of a source record is its JSON type and what the normalizer looks at: an integer's sign, a text's emptiness.
`ReceiveObjects` is `get_objects`, normalising and `validate_objects`; `RejectObjects` is any of them raising, and so
on for developers and groups. Groups are fetched one by one (`FetchGroup`); one that the API does not know is read from
its page (`GroupUnknown`, `ReadGroupPage`, `GroupPageNotFound`). `Fail` is an error of the browser or the site.

### Listing

`present` is the CRM's list of one type in the order of ids, `start` the next page's offset. Records are created at the
end and deleted anywhere between two pages. `Receive` follows any `next` beyond `start`, as the code does, and
`MaxRecord` stands for all numbers behind the last record; `ReceiveLast` is a page without `next`, `ReceiveBadNext` a
`next` that is no number beyond `start`. `orderly` is history: has each answer named the next page as Bitrix24 documents
it, the end of this page if there is more and nothing otherwise?

### Navigation

One visit: `_navigate` with its attempts (`Get`, `RetryOrGiveUp`, `Stop`), then the check of the page
(`Check`); a context that is there already is only looked at (`ReadUrl`). The class of
what the driver raises and the marks in its message are what `_raise_if_session_unavailable` looks at. `Die` ends the
browser at any moment; what is raised from then on is among the classes that Selenium and urllib3 raise for that. A
POST is not retried by urllib3, so a cut one raises `ProtocolError` as it is.

### ObjectListing

`get_objects` per region: open the page, take its objects if they are enough or there is no button (`TakePage`,
`TakeShortPage`), else click it (`ClickLoadMore`) and ask the API batch by batch from offset 0 (`ReceiveBatch`,
`ReceiveTotalZero`, `ReceiveNothingNew`), counting the offset by what
was received and stopping at the target, the total, or a batch without progress. The site publishes objects at the
head and takes them off anywhere (`Publish`, `Remove`); it may give fewer than asked for, or answer each offset as the
first. `hidden` marks a region whose button was there and could not be used.

### DeveloperRegistry

`get_developers`: batches from the registry (sorted by name) until all requested are seen, the batch is empty or brings
nothing new (`ReceiveBulk`, `ReceiveDiffering`), then the page of each one still missing (`ReadDetail`,
`DetailNotFound`). `Enter`, `StrikeOff`, `Rename` and `Edit` change the registry;
`index` is what was seen, with the check that one id has one version.

### SyncRuns

The CRM is the log of what runs created; a listing's result is a prefix of it. `List`,
`ExtractAndTransform`, `Block`, `Send`, `Succeed`, `Fail`, `Uncertain`, `Finish` and `Stop` are a run's steps, the
last two ending the process and what it knew; requests in `open` may be carried out at any time, as
in `Load`. The plan is `SyncPlan`'s operators applied to `CrmContext`'s index of what the run saw. Listings are one step
each (`Listing` shows what a listing is worth), and a run reads nothing else.

## Runs

Each run asks one question of one component; a property that is a conjunction has named parts, explained in its
module.

| Run | Properties | Bounds and why they suffice |
|---|---|---|
| `dispatch` | `JobsAreAccounted`, `NoOvertaking`, `ImplementsCallService`, `EveryCallAnswered`, `QueueDrains` | three calls and a queue of two: one executing with two queued, or one refused before the worker wakes; an abandoned job before a live one. The safety properties are proved for any number |
| `gateway` | `SentOnce`, `ResultIsHonest`, `CooldownRespected`, `StartsSpaced`, `JobEnds`, `ImplementsGatewayService` | a call that must not be repeated and one that may be, of one method or of two; a queue of one, so that either is refused when both arrive first; two attempts: one that may be repeated and a last; delays as long as the interval, a reset longer. The call that may be repeated does not time out (`OneTimeout`): a timeout is the same for both, and what matters is the one of the write. The safety properties are proved for all values |
| `load` | `NothingTwice`, `CrmIsSound`, `ResultsAreTrue`, `OneUntold`, `BlockedDownstream`, `LoadEnds` | all plans of three operations (chains, forks, joins, none) and the transformer's plan of a new group, developer and object (six) |
| `sync_run` | `RecordIsSound`, `CrmWrittenOnRecord`, `EndIsTold`, `BrowsersAccounted`, `RunEnds` | two sessions of two launches: both loops repeat, are exhausted, and the inner one starts anew; nothing else is bounded |
| `sync_run_doc` | `SuccessIsTransform`, violated | one session, one launch |
| `transform` | `PlansAreValid`, `NaturalKeysOnce` | up to two objects, developers, groups, that share or contradict each other; a CRM that knows some or has an INN twice; a manager that is missing |
| `preparation` | `ContextIsSound`, `ResultIsClosed`, `InputsAreAccepted` | at each call an answer that is whole, incomplete, repeats or breaks the contract; two names, one used twice; up to two source records of each kind with each field absent, blank or wrong |
| `sync_runs` | `OnlyOverlapsDuplicate`, `ContextStaysUsable`, `LeadsStandOnCompanyAndGroup`, `SuccessIsComplete` | two runs at once and the listings of a third, or three in turn; see below |
| `listing` | `ListingIsSound`, `ListingEnds` | up to six records, two to a page: three pages, changes before, in and behind the page; any `next` up to one that stands for all behind the last record |
| `navigation` | `VisitIsSound`, `VisitEnds` | three attempts, as in the settings |
| `object_listing` | `ObjectsAreExplained`, `ObjectListingEnds` | two regions of four objects and one, a target of three, batches of two, pages of two or three, two publications: page and batches, a full and a cut batch, a shift in between |
| `developer_registry` | `RequestedOnce`, `DetailsOnlyForMoved`, `ReadingEnds` | up to five developers, batches of two, two changes: enough to move one over a batch's border and back |

Deadlock is not checked: calls are finitely many and the server stops; all else ends.

`sync_runs` has two modes, as one instance with everything is out of reach. Two at once: two runs in any interleaving
with late requests, and when both are over the listings of a third, which finds what they left; once the CRM holds more
than `MaxElements` elements only objects without a group are followed,
because a group is independent of all but the lead and comes first in a plan; and an address fails only together with
the requisite of its plan, on which both hang alone. In turn: three runs one after
another, each cut off anywhere, with no request outliving its run, since a lost request then leaves what a refused
one does; here the group is always there. A third run is what
it takes to meet what a second one left of a first, or what two left at once. One object of one developer, with a group
or without, is enough for
duplicates of every kind. Runs are symmetric but for the one that starts last. The theorems have none of these bounds.

What the runs show, beyond their names:

* A 504 is compatible with a job that has run: a result set just before the timer is looked at is dropped. The
  bookkeeping is still exact.
* A job whose caller left while it was queued never runs, but keeps its place in the queue until the worker gets to
  it; 503 can therefore come from a queue of dead jobs. `QueueDrains` is the promise that remains.
* If the worker dies, calls are released by their timeouts only.
* A call answered 504 may still write, once; one answered 500 may have written, and no later. After any other answer
  nothing more is done (`ImplementsGatewayService`), whatever the queue, the timer and the worker do.
* A method in its cooldown holds up all other methods, since the one worker sleeps; `JobEnds` bounds it.
* A load cut off by `BitrixGatewayError` leaves at most one operation whose fate its results do not tell. The
  results themselves are lost with the exception, though.
* A plan that binds an id to an address operation passes the validator when the field is not one of the checked
  references, and ends in `LoadInvariantError`; the transformer makes no such plan.
* A run that is interrupted or killed leaves its manifest at RUNNING, and so may one whose disk fails: RUNNING does
  not mean that a process is alive. Cut off between its last manifest and its end it leaves COMPLETED or FAILED, though
  it has neither returned nor raised; what the manifest says is true of the work all the same (`EndIsTold`).
  Whatever the manifest says, the snapshots of the stages before its stage are there.
* A run that has written to the CRM may have no `load_result.json`; its plan and the context it rests on are there.
* An error of `quit` after a complete extract discards the extract and ends the run.
* Two runs at once may both create a lead, a group or a company, and a request that outlives its run may too. Two
  groups of a source id or two companies of an INN then turn away every later run (`unusable`); two leads do not.
  `OnlyOverlapsDuplicate` says that nothing else makes duplicates, `ContextStaysUsable` that nothing else turns runs
  away: not a failure, and neither an overlap nor a late request that created nothing twice. A run overlaps with
  another (`Overlap`) until its last request is carried out, be it after its end.
* A company whose load was cut off before its requisite is invisible to the next run, which creates another one (it
  has no INN, so nothing is ambiguous). A company whose addresses failed is found by its requisite, and nobody adds the
  addresses later: `LeadsStandOnCompanyAndGroup` promises them only for the run that created the company.
* A listing during which records are deleted may miss as many others, as those behind move up a page. The next stage
  then may create again what is there; only a whole listing makes `OnlyOverlapsDuplicate` say what it says.
* A listing has no bound of its own. A server that names a `next` behind the last record, and on the empty page there a
  larger one, and so on, keeps it going for ever; `ListingEnds` excepts just that. A `next` other than the end of the
  page skips records or repeats them, and the client cannot tell; `ListingIsSound` is about answers that name it right.
* The objects of a region may miss ones that were pushed down by newer ones, and as many as were taken off between two
  batches. An object that is seen twice is not dropped: validation turns the whole extract away.
* A region whose button is hidden or disabled is taken to be whole, whatever its total says.
* Two developers with one INN pass Extract, and the transformer turns the run away.

### Fairness

`EveryCallAnswered` assumes that the event loop runs ready callbacks and that the timer fires (weak fairness of
each step of a call) and nothing of the worker. `QueueDrains` has the worker's fairness as its hypothesis: that the
worker is scheduled and that a job ends, which `JobEnds` shows of the executor. `JobEnds`, of the whole Gateway,
assumes that time passes,
sleepers are resumed and a request ends: the HTTP client has a timeout per operation. `LoadEnds` assumes the loop goes
on and a Gateway call ends, by the client's timeouts. `RunEnds` assumes that `run` goes on: every call it makes returns
or raises, again by timeouts (of the Gateway client, of page loads and of scripts). `ListingEnds` assumes
that each call to the Gateway is answered as long as the offset is not behind the last record, and that others do not
create records faster than they are listed for ever (`MaxRecord`); `ObjectListingEnds`,
`ReadingEnds` and `VisitEnds` that the browser answers each command or its timeout does. Errors, deaths, and changes
of the CRM or the site are never fair. Nothing
is assumed of Bitrix24, and no action is strongly fair.

## Where the documents and the code part

`sync_run_doc` is in `PROJECT.json` as a finding: the app's README (line 166) still says that Load is not run and that
success is COMPLETED at TRANSFORM; with `load_enabled` the run loads and completes at LOAD. The others were met while
reading; the models follow the code.

* `apps/nashdom_sync/README.md:134` says that inactive users are left out of the search for a manager.
  `_resolve_manager` (`NS/providers/crm_provider/provider.py:550`) looks at USER_TYPE only: an inactive employee becomes
  a manager, or makes the name ambiguous. `ManagersAreTheOnes` speaks of employees, active or not.
* `README.md:138` and `140` say that a record without a source id and a repeated source id are errors. The provider
  skips blank ones (504), and repeated ones of leads (515): the first lead of a source id stands for all, which is what
  `NothingOverlooked` promises.
* `README.md:138` says that the context holds all records of the types chosen; a deletion between two pages makes
  the offset paging (`NS/bitrix_crm/client.py:133`) miss one.
* `README.md:272` says that at the death of the session the whole Extract is repeated. A `get` or a stop that meets the
  death as `ProtocolError` is not taken for one (`NS/extract/nashdom/client.py:199`, 226), and ends the run.
* `docs/nashdom-sync-data-extraction.md:88` gives the minimum of the limit and the total as the number of objects of a
  region. Where the button cannot be used, the objects of the page are taken without a look at the total
  (client.py:865).

## Theorems

All are about the specifications with constants that satisfy only the named assumptions: `DispatchAssumption`,
`ExecutionAssumption`, `GatewayAssumption` (a positive capacity; each call asks for a job), `PlansAssumption`,
`AttemptsAssumption`, `InputsAssumption` and `OnSiteAssumption` (the data
contracts), `PageAssumption` (a positive page size; records numbered in the order of the list), `MaxAttemptsAssumption`,
`SizesAssumption` (positive target, batch and page sizes), `ListingsAssumption` (the site lists newer objects first),
`RegistryAssumption` (a positive batch; a developer is in the registry once), `SourceAssumption` (the source answers
with JSON of the right shape, region codes are positive) and `ProviderAssumption` (a call returns a list; the settings
name a default manager). A property that is a conjunction is proved part by part and then as a whole. Every
safety property that a run checks is stated by one of the theorems.

* `DispatchProofs`: `TypeCorrect`, `PendingExact`, `NoJobLost`, `JobsAccounted`, `FirstComeFirstServed` and
  `Refinement`. The inductive invariant ties the three coroutines together: what the handler's state says of the task's
  (`Coherent`), the task's of the future's, and that the queue is a segment of `arrivals` in order. `NoOvertaking` is
  not inductive without the last one; the refinement needs that a live future's job has not begun.
* `GatewayProofs`, first of `Execution` alone: `Invariance`, `TypeCorrect`, `NeverJobsSentOnce`, `AttemptCountIsTrue`,
  `VerdictsAreHonest`, `ResultsAreHonest`, `CooldownsAreKept`, `StartsAreSpaced`. `LoopInv` counts: before a send the
  attempt is one ahead of the sends, after it level, and while a request is out at least one send has had no effect
  yet; a NEVER job has one attempt. `LimitInv` says that what the limiter recorded is what happened, that a sleep
  covers what is missing of the interval, that the remembered reset is the announced one, and that a cooldown covers
  what is owed. Then of the composition: `GatewayDispatches`, `GatewayExecutes`, `GatewayInvariance`, `CallsSentOnce`,
  `GatewayServes`. The first two say that the Gateway implements either part, so that all theorems of `DispatchProofs`
  and of the executor hold of it. For the second the invariant must know that the executor is at work just when the
  worker has a job (`Engaged`). It consists of the invariants of both parts and of what they know of each other: a job
  that has not begun has done nothing, one that is being executed has the executor's method and policy, one that has
  ended kept its count (`KeptOnce`); a future says how its job's execution ended (`FutureTells`), and an answer says
  what
  the future said, or the job has not begun (`AnswerTells`). Each part's steps keep the part's invariant by its own
  lemmas; only the last two are argued anew.
* `LoadProofs`: `TypeCorrect`, `OperationsOnce`, `CrmClosed`, `ReferencesRight`, `CrmSound`, `ResultsTrue`,
  `AtMostOneUntold`, `FailureStopsDownstream`, `PlansAreConsistent`. The invariant adds to the properties that every
  open request already
  rests on elements that are there (so that carrying it out late is harmless), that an operation's request is open or
  carried out but not both, and that an open request was reported UNKNOWN or not at all. What is downstream of an
  operation is the least set closed under dependents (`ClosedDownstream`), so that what was blocked is in every
  such set and what was not makes one.
* `SyncRunProofs`: `TypeCorrect`, `FilesWhole`, `RecordConsistent`, `RecordSound`, `CrmOnRecord`, `EndTold`,
  `NoBrowserForgotten`, `RecordOnlyGrows`. The properties speak of the directory as it is; the invariant says of every
  version that it is consistent and synced (`History`), so that a loss of power is harmless, and ties the latest one
  to `pc`, `stage` and `product` (`Stations`, `Progress`, `Ending`): what is about to be saved fits what is there.
* `TransformProofs`: `TransformerMeetsValidator`, `KeysCreatedOnce`, `NewObjectsTied`, `NothingIdleCreated`,
  `TypeCorrect`, for every input of the contracts' shape. The argument is not one of steps but of the plan: each kind of
  operation is characterised (who is in it, with which references), its sources are shown to be in the plan, to stand
  before it, and to create an id, and what makes two operations of one key equal is that indexes have unique keys.
* `PreparationProofs`: `TypeCorrect` and `ExtractedIsClosed` of Extract; `PreparationInvariant`,
  `ContextIsAlwaysSound`, `InputsAccepted`. What one validation of Extract established no later step undoes: the
  objects' ids and regions, then that the developers are those named, then the groups. `ProviderInv` says at which stage
  which answers are there and that none of them has a fault that its call raises; that every record with a key has a
  first record of that key is the least-element principle of the naturals (`WFMin`). The acceptance then combines the
  two components, neither of which knows the other.
* `SyncRunsProofs`: `RunsTypeCorrect`, `DuplicatesFromOverlaps`, `ContextNeverSpoiled`, `LeadsHaveCompanyAndGroup`,
  `SuccessComplete`, for any number of runs, sites and elements. `RunsInv` says of every element and every open
  request what it carries of the plan it was made from (`Stands`): its run accepted what it found against what it
  had listed, it is an operation of that plan, what it refers to was made by the same run before it, and it comes
  after all its run had listed. With `OnceEach` (no operation of a run has two) and `AllSent` (a request is one that
  its run sent), two elements of one key must be of two runs, the later of which did not see the earlier's:
  the two overlapped, or a request outlived its run. As what makes a listing unusable is such a pair, it is one of
  runs that overlapped. What a lead stands on follows from `TransformProofs`: a plan that was accepted ties a new
  object to its company and its group, by the id of one that the run had listed or by a binding to one it made before.
* `ReadingProofs`: `ListingTypeCorrect`, `ListingSound`, `VisitsAreSound`, `DevelopersReadOnce`, `NoDetailsUnmoved`,
  `ObjectsExplained`.
  - `Listing`: of the old records that are neither gone nor received, those at or behind the offset are still to come;
    those before it slipped by, and each of them was moved up by a deletion of its own (`Position`, `Accounted`). The
    invariant has this only as long as the pages were `orderly`.
  - `Navigation`: the two lemmas the rest is built on are about the classes and marks of exceptions. What a browser that
    is gone raises is never passed over (`GoneIsNoFault`), what a live one raises is never a lost session
    (`LiveIsNoLoss`).
  - `DeveloperRegistry`: of a registry that kept its order, the index is what stands before the offset (`Unmoved`), so
    when the bulk reading ends no requested developer that is in it is missing.
  - `ObjectListing`: an object that stood behind the wanted ones is taken only at one of the first places, as many as
    are wanted. For it to stand there, as many must be gone as there were from the wanted ones down to it
    (`Paid`, by `PaidWithinReach`). As many distinct objects are collected as were wanted, so those missed are no more
    than those taken instead: newer ones, and ones that are paid for (`MissedForACause`). The invariant has to remember
    what the listing ever held (`Ever`) and that nothing that was behind overtakes a wanted object (`Tracked`).

Only model-checked: the liveness properties, which are out of the prover's reach. The type invariants of modules with
proofs are proved and, with the exception of those in a conjunction, not checked again by a run.

## Assumptions about the outside

* Bitrix24 acts as `EffectsOfAnswer` and `EffectsOfFailure` say, and never carries out one request twice.
* A page of Bitrix24 names the next one by the end of its own (`next` is `start` plus the size of a page) while there is
  more, and names none otherwise. `ListingIsSound` has this as its premise; the model's server may do anything.
* Bitrix24 lists items in the order of their ids, so that a new one comes last (the client asks for no order).
* uvicorn lets open requests end before the lifespan's exit, and a request that was accepted gets its coroutine.
* The file system keeps the order of renames over a loss of power, and a synced file keeps its content.
* Clocks do not jump, and `asyncio.sleep` does not return early.
* A dead browser makes Selenium and urllib3 raise what `OfGoneBrowser` lists, and never a success.
* The site lists newer objects first, and the registry by name.

## Not modelled

* The Gateway's bootstrap and settings, and the settings of the application: they validate ranges at the start; the
  ranges are the constants' assumptions.
* Data contracts: frozen dataclasses. The checks that decide over a record are in `Normalizer` and in the types of
  `Extracts` and `Contexts`.
* Run directories (`packages/runtime_files`): a name with time and random part, one `mkdir` that raises if it is
  there. `SyncRun` starts in the new directory.
* Logging, redaction, formatting and deployment carry no protocol.
* The reader of run artifacts: it reads whole files and validates their fields; `RecordIsSound` is what it finds.
* Of the texts of the source only what decides over acceptance is kept. A completion period that names the year 0000
  makes the contract raise a plain `ValueError`; dates are not that fine here.
* Two field bindings of the settings may resolve to the same field of the portal; the provider does not compare them,
  and nothing in the models tells fields apart.
* The `health` endpoint, which changes nothing.

## What is left

* `Load` over `Gateway` itself instead of over what `GatewayService` promises.
* Listings that miss records, as a step of `SyncRuns`.
