# Verification of geek-movie-forge

TLA+ specifications of the concurrent and failure-prone parts of this
repository, the TLC configurations that check them on small instances, and
proofs, checked by TLAPS, that the main properties hold for every instance.

## 1. Inventory

The program is one FastAPI server (`services/api`), a React console
(`apps/frontend`) and a set of placeholders (`services/orchestrator`,
`workers/*`, `apps/remotion_renderer`, `packages/{skill_runtime,standards,storage}`).
The server keeps its state in a SQL database through synchronous SQLAlchemy
sessions opened inside `async` handlers. So inside one server everything
between two `await`s is atomic, and concurrency comes from

* coroutines of one event loop that are suspended in a provider call,
* two server processes on one database (a redeployment, a second worker),
* a browser whose requests overlap and whose answers arrive in any order.

| component | state | operations | hard behaviour | what makes it correct |
|---|---|---|---|---|
| asynchronous video tasks (`video_generation_task_service.py`) | table `video_generation_tasks`, `_running_tasks`, one coroutine per task | submit, run, complete, fail, mark interrupted at boot | crash between any two steps, overlapping servers, failing sessions | a finished task stays finished, with the answer of its kind; every unfinished row is somebody's business; every task finishes |
| generation service (`generation_service.py`) | no state of its own; writes assets and call logs | image, text, video, plan, batch of segments, regenerate a segment | one segment or one asset of several fails; a frame is handed from one segment to the next | a stitched segment gets its predecessor's frame or fails; results in order, one per segment; each provider call logged once |
| provider gateway (`packages/provider_sdk/gateway.py`) | remote task being polled | submit, poll, parse | deadline racing success, failed poll, unknown status | the call ends; success is reported only for a task that succeeded |
| provider configuration (`provider_service.py`) | table `providers` | create, update, delete, list, built-ins on first access | check-then-insert by two servers | names and built-ins unique; user edits of built-ins survive |
| accounts (`auth_service.py`) | table `users`, signed tokens | register, login, verify | check-then-insert; expiry | one account per username; a token speaks for its user until it expires |
| library (`asset_service.py`, `project_service.py`, `task_service.py`, `call_log_service.py`) | one table each | insert, filtered list, update, delete | used by the generation service while users edit it | owners see only their rows |
| API logging middleware (`middleware/api_logging.py`) | per-request counters and flags | wrap receive, wrap send, 413 and 500 answers | failure before or after the response has started | exactly one response start, one log record |
| video form (`video-gen-form.tsx`) | task records, plan, per-segment flags | poll, submit, plan, regenerate, save | answers out of order, optimistic insertion against polling | what is submitted stays visible and is polled until it is finished |
| session of the console (`lib/auth.tsx`, `lib/api.ts`) | stored token and user | load profile, login, logout, 401 | profile answer racing a login or logout | the shown user is the one the token speaks for |

Interaction: a route calls one service; the task service runs the generation
service in a background coroutine; the generation service reads providers and
assets, calls the gateway, and writes assets and call logs; the form polls the
task service.

## 2. Plan

In the order of importance. One module per component, its MC module beside it.

| module | component | abstract specification | checked by | proofs |
|---|---|---|---|---|
| `VideoTasks` | asynchronous video tasks | `TaskLifecycle` | `tasks_exclusive`, `tasks_shared`, `tasks_live` | `VideoTasksProofs` |
| `Generation` | generation service | `BatchPromise` | `generation` | `GenerationProofs` |
| `Gateway` | provider gateway | `ProviderCall` | `gateway` | `GatewayProofs` |
| `VideoForm` | video form of the console | | `video_form`, `video_form_followed` | `VideoFormProofs` |
| `Providers` | provider configuration | `ProviderTable` | `providers` | `ProvidersProofs` |
| `Sessions` | accounts, session of the console | | `sessions`, `sessions_live` | `SessionsProofs` |
| `ApiLogging` | API logging middleware | | `api_logging` | `ApiLoggingProofs` |
| `Planning` | planning of a batch | | `planning_tokens` | in the module |

Where one component waits for another, the model of the first assumes what the
second is shown to do: a coroutine of `VideoTasks` awaits a generation that ends
(`CallEnds` of `Gateway`, and `LoopIsFinite` of `Generation`); the rows that
`VideoForm` polls end (`EveryTaskFinishes`, and `BootClosesUnfinishedRows` after a
crash).

Every component has its proofs: each `*Proofs` module EXTENDS the component's module
and proves, for all values of the constants, what the runs check on small ones. The
theorems are those of the specification the run uses without its fairness. Checked by
TLC only:

* liveness under fairness: `EveryTaskFinishes`, `CallEnds`, `DeadSessionIsLeft`,
  `PageSettles`;
* the two violations, which are about one behaviour each.

What can be proved towards the liveness of `Generation` and `Gateway` is that nothing
goes round for ever: `LoopIsFinite` and `CallIsBounded` give a measure of naturals that
every step of a request or a call lowers. That a decreasing measure ends is well-founded
induction, whose theorem takes an operator as a parameter, and that a step is taken at
all is fairness; the first is mathematics, the second is what `CallEnds` checks.

## 3. Asynchronous video tasks: `VideoTasks`

### State

| variable | code |
|---|---|
| `row[t]` | the row of task `t`; `result` and `batch_result` say whether the column is filled, `detail` which kind of text `error_detail` holds |
| `server[s]` | a process: `down`, `booting` (inside `__init__` of the service, in the lifespan handler) or `up` |
| `txn[s]` | the session that a server has open: which method, which rows it loaded, what they held |
| `running_tasks[s]` | `_running_tasks` |
| `host[t]`, `coro[t]` | which server accepted the task, and how far its coroutine is |

### Actions

A service method opens a session, loads, assigns and commits without awaiting.
On its own server that is atomic, and the model lets no other coroutine of the
server run while `txn[s]` is open. Another server may commit in between, so load
and commit are two steps. What the commit writes is `Flushed`: SQLAlchemy sends
only the attributes that changed against the loaded copy, so a commit over a
row that somebody else has changed leaves the other columns alone.

| action | code |
|---|---|
| `Submit` | `submit_single_video`, `submit_multi_video`: the insert and `_spawn_background_task` |
| `SubmitRaises` | `_create_task_record` raises after the insert has committed |
| `RunnerStarts`, `GenerationReturns`, `GenerationRaises` | the loads of `_update_task_status`, `_complete_task`, `_fail_task` |
| `RunnerCommits`, `RunnerDbError` | their commits; an error, with or without the write having reached the database, ends the coroutine, since these calls are outside its `try` |
| `Cleanup` | the done-callback |
| `Stop` | a crash, or a shutdown (`CancelledError` is not an `Exception`, so the runner writes nothing) |
| `Boot`, `BootCommits`, `BootDbError` | `_mark_incomplete_tasks_as_interrupted`, called from `__init__` |

An insert that never reached the database changes nothing and is not an action.
The column `updated_at` and the request texts are left out. A row is never
deleted by the code, so the `row is None` returns are never taken.

### The promise: `TaskLifecycle`

What a client that polls can see: a task is accepted, begun, and finished once
with the result of its kind, an error, or "interrupted", and interruption hits
every unfinished task at once. `ImplementsLifecycle` is the refinement, with
`AnswerOf(row[t])` as the client's view of a row (`_to_response`).

### Runs

All with two tasks and two servers. Two servers are what it takes for a session
of one to interleave with a session of the other, and for a boot to follow
another server's crash; a third adds no new pair. Two tasks are what it takes
for a boot to close several rows and for two coroutines to share a server.

| run | instance | question |
|---|---|---|
| `tasks_exclusive` | `Exclusive`, `DbMayFail` | does the service keep its promise when servers take turns and sessions raise at any commit? `OutcomeMatchesStatus`, `FinishedRowIsFinal`, `BootClosesUnfinishedRows`, `LiveCoroutineIsReferenced`, `ImplementsLifecycle` |
| `tasks_shared` | servers overlap, `DbMayFail` | what is left of it when they do not: `UnfinishedRowIsHandled`, `CompletedRowHasResult`, `StoredResultIsKept` |
| `tasks_live` | `Exclusive`, sessions do not fail, fairness | does every submitted task finish? `EveryTaskFinishes` |

`Exclusive` is the deployment of `docker-compose.yml`: one `api` container with
a fixed name, one uvicorn process. Without it a boot may mark a task of another
server as interrupted, whose coroutine later completes it; finality, the
agreement of status and detail, and the closing of unfinished rows are
therefore stated for servers that take turns only. The hazard is listed with
that note.

Symmetry (tasks and servers) is used in the two runs without liveness.

### Fairness

`FairSpec` has weak fairness of `BootCommits`, of `RunnerCommits` and of
`Resume`, the next step of each coroutine. An event loop runs every ready
coroutine in turn, a synchronous session ends, and a provider call ends because
every HTTP request of the gateway has a timeout and its poll loops have a
deadline. `Resume` is the disjunction of return and raise: nothing says which.
Nobody is assumed to restart a server, so the property ends with "or its server
goes down"; deadlock freedom is checked and holds since a server can always
stop or boot. With sessions that fail, the code itself leaves unfinished rows to the
next boot, which is what `UnfinishedRowIsHandled` says.

### Proofs: `VideoTasksProofs`

Assumed: `NoServer` is not a server and the two flags are Booleans. Tasks and
servers are arbitrary sets, infinite ones included.

None of the properties is inductive. `IInv` adds to the type invariant

* `SessionInv`: what an open session is about (one task of its own server for a
  runner, rows it saw unfinished for a boot), and where the coroutine stands;
* `CoroutineInv`: a live coroutine's server is up and refers to it; a task
  without a coroutine was hit by a failing session;
* `RowInv`: the row of a live coroutine has no result yet, nor has any copy that
  its session loaded; a coroutine that returned left a finished row; the row of
  a killed one is closed, or will be by the boot that has already loaded it;
* if servers take turns, `ExclusiveInv`: no loaded copy is stale, a boot has
  loaded every unfinished row, and the status follows the coroutine.

There is one preservation lemma per part (`SessionStep`, `CoroutineStep`,
`RowStep`, ...), which goes through the actions, and effect lemmas
(`SubmitEffect`, `RunnerEffect`, `BootEndEffect`, ...) say once what each action
does to one row. From `Invariance` follow every safety property of the runs,
the action properties, and `KeepsPromise`: each step of the service is a step of
`TaskLifecycle` or leaves its variables alone.

`EveryTaskFinishes` is checked by TLC only: liveness under fairness is outside
what the installed provers can do.

## 4. The generation service: `Generation`

### State

One request, from the route to its answer. Requests share nothing but the two
tables they insert into, and no request reads a row another one inserts, so one
is enough.

| variable | code |
|---|---|
| `request` | the validated payload, reduced to the operation, the adapter, the number of images, the input mode, whether outputs are saved, and which segments ask for the last frame of the one before (`bridges`) |
| `pc`, `n` | where the handler is, and in which segment of the loop |
| `previous_segment_last_frame` | the local variable of `generate_multi_video`, as a sequence of at most one image |
| `outputs`, `failure`, `saved` | locals of `_log_and_call` and `_save_media_assets` |
| `results` | the list `segments` of the batch |
| `library`, `call_log` | the rows this request has committed |
| `received` | what the provider was sent: the part of the world the service answers for |

An image of the request or of the plan is named by where it comes from, so that
a property can tell which segment a frame was taken from. A single image, video
or text, and a plan, are loops of one segment that nothing catches errors for;
a plan is a text that is not saved. A text that the sanitiser refuses, or a plan
that cannot be parsed, is an output without content.

### Actions

| action | code |
|---|---|
| `Refuse`, `EnterLoop` | capability, materials and prompts are looked up before the loop; `regenerate_multi_video_segment` takes the frame from the client |
| `NoFrame` | `_build_multi_video_segment_image_materials` raises; inside the `try` of a batch, outside of any for a regeneration |
| `GatewayRejects`, `CallProvider`, `ProviderAnswers`, `ProviderFails` | the gateway: the checks on an Ark request, the call, the parsed answer, any exception |
| `LogCall` | `_log_and_call` after the call; the log may raise, before or after its commit, and is not heard |
| `SaveOutput`, `NothingToSave`, `SaveRaises` | one turn of `_save_media_assets`: a commit, a `ServiceError`, any other exception |
| `RefuseText` | `_sanitize_text_output`, or the parsing of a plan |
| `Deliver` | the result of a segment, and the frame it leaves |
| `Return`, `Killed` | the end of the handler, and of the process at any step |

`ServiceErrorIn` is the exception handler of each operation. An exception that
is no `ServiceError` passes it: the batch ends, and so does the report of the
segments before it. That is the code, and `BatchPromise` says it: a list with
one report per segment in order, or nothing.

### Run

`generation` takes every combination of operation, adapter, input mode, saving,
up to three images and up to three segments. Three segments are what it takes
for a failure between a success and a stitched segment; three images exceed the
two that Ark accepts, with and without a frame; two outputs are what it takes
to save one and fail on the next. The run has no fairness: the loop is finite
and the wait inside the gateway is the subject of `Gateway`.

`ReceivedAsPlanned` is the property the batch exists for. It holds because a
failure resets the frame, so a stitched segment on Ark is never sent with the
frame of an older segment; on other adapters it is sent with the images of the
request alone, which the property allows and the code does silently.
`AutomaticModeIsAccepted` relates two files: the mode the service picks from the
number of images, and the mode the gateway then checks. It needs the bound of
two images, since an unstitched Ark segment passes on as many as the client
names. `SavedAssetsAreReported` leaves out the segment whose saving failed
half way: its assets stay in the library and no report names them.
`LogAgreesWithReports` holds although the log may fail, since the inner `try`
keeps its exceptions from the outer one.

The check ends at requests that have ended, so deadlock is not checked.

Left out: prompts, names, tags, and the options other than the input mode; a
provider whose cover image URL is blank (the frame would be refused by its own
contract).

### Proofs: `GenerationProofs`

Assumed: the requests are validated ones (`RequestsAssumption`: a batch has a segment
and does not stitch the first, every other operation has one segment, only a media
request asks for several outputs) and the answers of a provider are lists of outputs
(`OutputsAssumption`). Batches may have any length and requests any number of images.

`IInv` adds to the type invariant and to `ReceivedAsPlanned` and
`SavedAssetsAreReported`, which are inductive only together with the rest,

* `LoopInv`: the list holds one report for each segment the loop has passed, at its
  place;
* `FrameInv`: the frame at hand is that of the segment just before, which succeeded;
* `HistoryInv`: log and provider have heard only of segments the loop has reached;
* `ModeInv`: a mode the service picked has not been rejected so far;
* `SaveInv`: nothing of a segment to come is in the library, and of the current one
  just the outputs counted as saved.

The three ways to end a segment have a lemma each (`ReportStep`, `RaiseStep`,
`ServiceErrorStep`), and each action cites the one it ends in. `StitchedShape` says
what images a stitched segment is sent with. `KeepsPromise` follows because every step
leaves the list alone, appends the next report, or ends the request (`StepKinds`).

`LogIsRight` needs `LogInv`: no two entries are of one segment, there is none of the
current segment until the answer has been read, the one of a segment that is being saved
says success, and those of earlier segments agree with the reports. Since the entries of
a segment are a set of positions, no record is counted.

`LoopIsFinite` has the measure of segments left, phases left in the segment, and outputs
left to save, in lexicographic order: each action lowers one of them and none before it.

## 5. The provider gateway: `Gateway`

### State

One call of `HttpProviderGateway`. Calls share nothing.

| variable | code |
|---|---|
| `adapter`, `endpoint` | how the provider is configured: the adapter and the operation, in one value; the properties of the URL and the flags that decide whether it may be called |
| `pc` | where the call is: `building` and `poll` are about to send, `posting` and `polling` wait, `posted` and `polled` have an answer to read |
| `post`, `tasks`, `status`, `content` | the provider: whether it got the POST, how often it took it, how its work stands, and whether what it will answer can be parsed |
| `reply` | the answer the gateway reads, as the provider gave it at that moment |
| `left`, `overtime` | time to the deadline, in polls, and the polls sent after it |
| `outcome` | what is returned or raised |

### Actions

`Post` and `Poll` are `_post` and `_get` with the check of the URL that comes
before each (`RefuseUrl` when it fails; the name is resolved again every time).
`RequestFails` is every way `_request_json` can raise after that. `ParseDirect`,
`TaskIdKnown`, `TaskSucceeded`, `TaskFailed`, `UnknownStatus`, `TimesOut` and
`Sleep` are the branches behind an answer, in the order of the code: the deadline
is looked at only after an answer that says the task goes on. The two adapters
that poll differ in `Failures` and `Unknown` alone. `BrokenAnswer` is JSON on which
a parser itself fails; `_log_and_call` makes a `ServiceError` of it later.

The provider is external: it may take a POST whose answer nobody waits for
(`TakePost`), and its task proceeds when it likes (`TaskProceeds`), also when the
gateway has given up. `ProviderCall` is the promise: the work is caused at most
once, a result is reported only of work that succeeded and a failure only of work
that failed, one report; giving up is always allowed.

### Run

`gateway` takes all adapters and three endpoints: one that may be called, one that
may be called in development only, one that is refused. `Timeout` is 2: a deadline
that passes while a poll is under way, between polls, and before the first.

`CallEnds` needs `WF_vars(Call)`: the event loop resumes a coroutine that can go on,
and httpx bounds the wait for the peer (`timeout=endpoint.timeout_seconds`; a peer
that sends a byte now and then can stretch one request, which is what httpx does
and is not modelled). Nothing is assumed of the provider's task. A call that has
ended stays so; deadlock is not checked.

`OnePollPastDeadline` is the sharp form of the time bound: a call outlives its
deadline by one request.

### Proofs: `GatewayProofs`

Assumed: a deadline of at least one poll (`TimeoutAssumption`), and endpoints of the
type the module gives them (`EndpointsAssumption`).

* `EndInv`: the caller is told something just when the call ends;
* `TakenInv`: the work has begun just when the POST was taken, which happens once;
* `ReplyInv`: an answer that shows the end of the work is still true when the gateway
  reads it, since work that has ended does not change, however long the answer took;
* `DeadlineInv`: after the deadline there is at most one poll, and what it leads to
  does not poll again.

With these, what a call reports is true of the work at that moment, which is what
`KeepsPromise` needs beside the number of POSTs.

`CallIsBounded` gives a call a budget of `3 * Timeout + 6` steps, its own and those in
which time passes, which the steps of the provider never raise: a poll takes three, and
one that does not end the call leaves less time.

## 6. Provider configuration: `Providers`

### State and actions

`rows` is the table for one user, `session[s]` the open session of server `s` with
what it has loaded, `desired` what the definitions and the environment of the
servers give now, `used` the ids there have been. A route does not await between
opening a session and closing it, so a server has one session; each statement is a
step, and sessions of two servers interleave between statements.

| action | code |
|---|---|
| `Begin` | a request opens its session and `_ensure_builtin_providers` reads |
| `_ensure_builtin_providers`, `EnsureRaises` | its one commit, with all inserts and the flags, or the `IntegrityError` that ends the request |
| `_require_provider_row`, `_ensure_unique_name` | the reads; not found, conflict |
| `create_provider`, `update_provider`, `delete_provider` | the commits; an update sends only the columns that differ from the loaded row |
| `Crash`, `Redeploy` | a server stops in a request; all restart with another environment |

`Init` is a table that an earlier release may have left: built-in providers that
are missing or not flagged, or a row of the user with the name of one.

### Run

`providers`: two servers, one built-in provider, two custom ids, two names; symmetric
in servers and custom ids. `ImplementsTable` says that the interleaved statements
implement `ProviderTable`, where an operation is one step on a table of unique names
(so `NamesAreUnique` follows from it). It holds because the table has the constraint,
whatever the check found, because a built-in provider is never missed once it is there,
and because a drawn id is new. The promise leaves open which columns an update changes;
`OnlyNamedColumnsChange` says that the edit
of one server survives the commit of another. Not promised, and false: that an
operation of a user succeeds whose old row has the name of a new built-in provider.

A built-in provider that is stored is the user's to edit: ensuring it again after a
redeploy with other definitions or another key leaves its name and configuration alone,
which `OnlyNamedColumnsChange` says of every commit but an update.

### Proofs: `ProvidersProofs`

Assumed: `ConstantsAssumption` (built-in and custom ids are apart, and so on); servers,
ids and names are arbitrary sets.

* `SessionInv`: what a session has found and still holds. A session loads a row only
  when every built-in provider is there and flagged, and no commit takes either away;
  so a delete that passed the flag is not about a built-in provider;
* `CreateInv`: no two sessions create under the same id;
* `TableInv`: names are unique, rows have ids that were used, and a built-in provider
  that was ever inserted is there.

`StepEffect` says which of its four commits changes the table in a step, and a lemma for
each says how; the three action properties follow from these.

`ImplementsTheTable` maps each of the four commits to its step of `ProviderTable`
(`EnsurePromises`, `CreatePromises`, `UpdatePromises`, `DeletePromises`): the rows that
are there are the table, the ids that were used are those it knows. A commit that fails,
a delete of a row that is gone, and every statement before a commit leave the table
alone. `SessionInv` is what makes `Ensure` and `Delete` the steps they are: at its commit
a session has found all that is not flagged, and what it deletes is no built-in provider.

## 7. Accounts and sessions: `Sessions`

### State and actions

`accounts` is the table of users; a token is its position in `issued`; `expired`
are those whose time has passed. `storage` is what the tabs of one browser share.
`tab[t]` has the user on the screen, whether it is loading, the profile requests
under way, each with the token it carries (`me`), a request of a page (`data`) and the form.

`register` is two steps, the look-up and the insert, since another server may
insert in between. `Effect` is the effect of `AuthProvider` that loads the profile.
`Mount` runs it in a tab that is opened or reloaded, and `Navigate` in one that is open:
under `HashRouter` the function of `useNavigate` is another one when the path changes, so
`logout`, which depends on it, is another one too, and the effect depends on `logout`
(auth.tsx:84). No request is cancelled, so several may be under way in one tab.
`ProfileArrives`, `ProfileUnauthorized` and `ProfileFails` are its continuations.
`DataUnauthorized` is the branch of `request()` for a 401, which clears the storage
whatever token is in it by then. A token may expire on the way, so an answer may be
either. `FormRefused` keeps the storage.

### Runs

`sessions`: two tabs, forms in one of them, two usernames, two ids, two tokens, two
profile requests under way at once, in one tab or in both. Two
tokens are what it takes for an answer to be about another token than the stored one,
two tabs for a logout in one to be news to the other, two requests for the answer to an
older one to come last. Ids and usernames are symmetric.

`sessions_live`: the same with one username and one id and without symmetry, since it
checks liveness. `DeadSessionIsLeft` is about tokens and tabs, not about who the user is.
It is under `FairSpec`: a tab that shows a user keeps asking for
something (the console polls and loads on every page), each request ends since
`request()` aborts it, and a tab that asks with a dead token again and again is told
so at last (strong fairness of `DataUnauthorized`: the network does not fail for ever,
and nobody reloads the tab before every answer). That the answer is a 401 is the
code.

True of the code and promised nowhere: a late profile answer stores its token again
after a logout, and a late 401 removes the token of a newer login. What is checked
is that the stored pair agrees and that a session never ends without one of the
reasons the code has.

### Proofs: `SessionsProofs`

Assumed: `ConstantsAssumption` (forms are in tabs, `None` is no id and no username, at
least one token and one profile request). Tabs, users and tokens are arbitrary.

`TabInv` says that what a tab waits for belongs to tokens that were issued, and that an
accepted form carries the id its token was issued to. So whatever a profile answer or a
form stores is a pair that agrees, at any later moment: who a token was issued to never
changes (`StorageInv`). `AccountInv` says that a token names an account, since it is
issued by the commit that inserts it or for one that is there, and that the unique index
keeps that account the only one of its name.

## 8. The video form: `VideoForm`

### State and actions

`rows` are the tasks in the service (from `VideoTasks`: accepted, ended, nothing
else). `records` and `activeTaskId` are the page's. `asked` and `answers` are list
requests before and after the service has read the rows; an answer may be taken in
any order or be lost. `request` is the submit or plan that makes the page busy.
`regens`, `made`, `assetStates`, `saves` and `library` are regeneration and saving.
A video is named by where it came from, so that a property can tell whose it is.

One action per handler and per continuation after an `await`: `SubmitSingle`,
`SubmitPlan`, `SubmitMulti`, then `SubmitArrives`, `PlanArrives`, `RequestFails`;
`Tick`, `Refresh`, then `loadTaskRecords`, `LoadFails`; and so on. `Accept`,
`list_tasks` and `TaskEnds` are the service. Buttons that are disabled are guards.

### Runs

`video_form`: two tasks, two list requests under way at once, one regeneration, a
batch of one segment, two copies of a part. Two list requests are what it takes for
answers to overtake one another; two tasks for an answer to come back to a page that
shows another. What is saved and regenerated is bounded to two parts and one.

`PageSettles` assumes (`Fairness`) that the service ends tasks and answers, that the
timer fires, and that not every list answer is lost. It holds although answers
overtake one another, because the timer runs while something is shown as unfinished.

`video_form_followed` is a violation under the same fairness: the answer to the list
request of the mount, read before a submit and arriving after it, removes the task;
the timer stops, and what the page says of automatic polling does not happen.

`SaveMarksAreTrue` bounds the copies of single tasks. Segments can be saved twice by
the code, because a new batch clears the marks of all of them.

### Proofs: `VideoFormProofs`

Assumed: segments are positive numbers (`SegmentsAssumption`), the bounds are naturals
and at least one list request can be under way (`BoundsAssumption`).

`SaveInv` counts the copies of a part: what is in the library and what is being saved
are together at most one for a single result of which no save failed, and none if it is
not marked. `ShowInv` is about what the page shows:

* `RowsInv`, `AnswersInv`: a list answer holds the rows of an earlier moment (`Stale`);
  rows only grow and each only moves to its end, so an answer stays such a list
  (`RowsKept`);
* `RecordsInv`: every record is an earlier state of its row, except for segments that
  were regenerated for just this place (`Own`);
* `MadeInv`, `RegensInv`, `RequestInv`, `ListInv`: the types of what is under way, and
  that a regeneration is about a segment of a batch that exists;
* `ActiveInv`: the active task is in the list.

The two are independent, which keeps each action's proof to the part it can disturb.

## 9. The logging middleware: `ApiLogging`

### State and actions

One request. `call` has the variables of `__call__`, bodies as their lengths;
`app` is any application that keeps to ASGI: it may stop reading, answer in pieces,
raise at any moment, or handle what `receive` or `send` raised and go on. `client` may
leave at any moment, after which a message is dropped or sending it raises. `wire` is
what was sent, `log` the records.

`receive_wrapper`, `send_start` and `send_body` are the wrappers; `RequestTooLarge`
and `Raise` the two handlers; `AnswerStart` and `AnswerBody` the answers 413 and 500,
which do not pass through `send_wrapper`.

### Run

`api_logging`: bodies of up to 4 in pieces of 0, 1 and 2, a limit of 2 or none,
previews of 1 and 2: every body can be shorter, as long and longer than each of the
three bounds, and reach it inside a piece or between two. The run ends with the
request; deadlock is not checked.

`OneResponse` and `ReadWithinLimit` hold for every such application. The framework
turns the error of `receive` in a route with a body parameter into an answer 400 of
its own; that is an application that handles the error, and the reason why nothing
says that a body over the limit is always answered with 413.

Left out: the masking of secrets, headers, the cancellation of the whole request by
the server (which no handler of the middleware catches).

### Proofs: `ApiLoggingProofs`

Assumed: sizes, limits and previews are naturals (`SizesAssumption`) and the statuses an
application may answer with (`StatusesAssumption`). Bodies have any length.

* `ReadInv`: what the application was handed is no more than what was counted, and a
  piece that takes the count over the limit is not handed on;
* `PlaceInv`: an answer of the middleware is on its way only where the application has
  not started one;
* `WireInv`: what a client that is still there has seen of the response can be told
  from where the application and the middleware are.

`LogIsRight` adds `LogInv`: the middleware has counted what was sent (`CountInv`), so a
record is right of the wire when it is written and stays so, because no piece follows it
that a client would still get (`RecordInv`); and the error that makes a 413 is raised by
a body over the limit, and recorded before the answer starts (`TooLargeInv`).

## 10. Planning: `Planning`

`plan_multi_video`: `Init` is a validated request, `ProviderAnswers` and
`ProviderFails` the call with its record, `Parse` the acceptance of a plan.

`planning_tokens` is a violation: the counts a provider reports pass through three
forms, and the second does not have the names the gateway fills in.

`DurationsFillTotal` is proved for all durations: the segments of a plan fill the
total exactly, all but the last have the length asked for, and the last is neither
empty nor longer. `SegmentCount`, the lemma under it, is the rounding of the quotient.
The code divides floating-point numbers; for durations up to 600 that is exact
enough for `ceil`.

## 11. Not modelled

Lists, edits and deletions of assets, projects and tasks: single rows, no
transition. In the console: the asset picker, uploads and downloads, the dialog of
one segment, the remaining pages. `JsonFileStore`, which the application does not
use. The orchestrator, the workers and the renderer are placeholders without
behaviour. Formatting, prompts and page layout are left out for good.
