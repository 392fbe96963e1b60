# Verification of the NotebookLM gateway

TLA+ models, TLC runs and TLAPS proofs about `notebooklm-gateway`: a server that
holds the Google sessions of several accounts and forwards the API calls of their
owners to NotebookLM. Paths below are relative to `src/gateway_server/notebooklm/`
unless they begin with `main.py` or `database.py`, which lie in `src/gateway_server/`.

- [The system](#the-system): components, state, interactions, what is hard
- [Modules](#modules): which module models what, and how to read it
- [Runs](#runs): what TLC checks, with which bounds and which fairness
- [Proofs](#proofs): what holds for every instance, and along which argument
- [Known divergences](#known-divergences): where the code and its documents differ
- [Not modelled](#not-modelled) and [Plan](#plan)

To run: `tlc -config MCRpcPipeline.cfg MCRpcPipeline` for a run of the table below,
`tlapm RpcPipelineProofs.tla` for the proofs of a module.

## The system

One process, one asyncio event loop. A request of an account's owner carries an API
key. The **gateway** (`main.py`, `server/_context.py`) maps the key to a row of the
accounts table and to an open `NotebookLMClient` in a pool, opening one on the first
use. The client runs the call through a chain of middlewares to Google; its **pipeline**
limits, retries and refreshes. Cookies that Google rotates go back to the account's
`storage_state.json` through worker threads, under locks, because the keepalive task,
`close()` and other processes save the same file. Long jobs are awaited by **polling**
tasks that several callers share. Whatever is in flight is counted, so that `close()`
can **drain** before it takes the transport down. The **REST routes** remember what
they created until Google lists it.

| Component | State | Operations | Talks to |
|---|---|---|---|
| In-flight tracker (`_transport_drain.py`) | counter, depth per task, drain flag, condition | begin, begin for a task, finish, drain, reset, hooks | every RPC (`DrainMiddleware`), uploads, polls; `close()` waits on it |
| Client lifecycle (`client.py`, `_runtime/lifecycle.py`, `_kernel.py`) | HTTP client, keepalive task, teardown task | open, close (graceful, bounded, immediate), cancellation of either | tracker, polls (drain hook), cookie saves |
| Artifact polling (`_artifact/polling.py`, `_polling_registry.py`) | registry of poll task and future, counters of the loop | wait, join, cancel, answer, error, timeout, drain hook | tracker scope of each poll, RPC pipeline |
| Account pool (`main.py`, `database.py`, `server/_context.py`, `server/_auth.py`) | accounts table, profile files, pool | upload, delete, change key, change status, request | client lifecycle, cookie file |
| Cookie persistence (`_cookie_persistence.py`, `_auth/storage.py`) | jar, baseline, two locks, the file | snapshot at open, save, merge, advance | keepalive, `close()`, other processes |
| RPC pipeline (`_rpc_executor.py`, `_middleware/`, `_runtime/auth.py`, `_runtime/transport.py`) | semaphore, retry counters, tokens, refresh task | call, retry, refresh on the wire, refresh after decoding | Google, `_auth/session.py` |
| Probe-then-create (`_idempotency.py`, `_source/add.py`, `_notebooks.py`, `_source/upload.py`) | baseline, attempt | create, probe, retry | RPC pipeline (as strict calls) |
| Pending registry (`server/_pending.py`, `server/routes/`) | set and queue of ids | record, knows, drop | routes that create, poll, delete |
| Uploads (`_source/upload.py`, `_source/polling.py`, `mcp/_fileroutes.py`, `mcp/_filelink.py`) | permits, open file, finalize task, session at Google, used links | add a file, cancel, drop the session, wait, rename; claim and give back a link | registration as in probe-then-create, tracker scope of each upload |
| Chat (`_chat/api.py`, `_conversation_cache.py`) | lock of each notebook and conversation, the bounded cache | ask with and without a conversation, delete, clear | RPC pipeline; the history it posts comes from the cache |
| Token fetch (`_auth/refresh.py`, `_auth/keepalive.py`) | locks of each loop, generation, claim of a rotation, the command | rotate, fetch, run the command, reload, save | the storage file; every start of a client and every refresh that has lost its cookies |
| Research imports, limiters, feature APIs, codecs, front ends | see [Not modelled](#not-modelled) | | |

**What is hard.** Every component is written for a single loop, so the code between
two suspensions is atomic and everything else interleaves: a value read before an
`await` (the row of an account, the registry lookup, the tokens of a failed call) may be
stale after it. Cookie saves leave the loop for threads and for other processes.
Answers of Google get lost after the request was executed. Tasks are cancelled at any
suspension, with shields in some places (`_runtime/lifecycle.py`, `_artifact/polling.py`,
`_runtime/auth.py`, `_source/upload.py`, `_auth/refresh.py`) and not in others. Counters (permits, depths, attempts, misses) must
be right on every one of these paths.

**What makes each component correct**

- Tracker: the counter is the number of operations out; a drain that saw zero is never
  overtaken; no wake-up is lost; a task that is in is not refused a nested call.
- Lifecycle: a graceful close cuts off nobody, a close that returns has closed the
  transport, no keepalive survives it, and every close ends.
- Polling: one poll for one artifact, everybody who waits is served, the cancellation of
  a caller is his own, "removed" is said only after misses in a row.
- Pool: what the pool serves for a key is justified by the table; a closed client does
  not stay in it; no client leaks; admin calls end.
- Cookies: a sibling's newer cookie is not overwritten; what a client takes as saved was
  in the file; the save that `close()` makes is of the jar at the close.
- Pipeline: permits are conserved, retry layers do not multiply, strict calls are posted
  once, one refresh at a time and one for each call, tokens never go back, calls end.
- Create: one resource for each call, as far as the list can tell; what is returned as new is not older than the call, as far as the call could look.
- Registry: what was created is pending, not missing, until it is listed, and while the list comes and goes.
- Chat: the cache agrees with Google about the conversation of a turn and the order of
  turns; follow-ups build on each other; deleted history is not posted; locks are never
  waited for in a circle.
- Uploads: file, permit and link are given back once, whatever is cancelled; a session that
  is dropped was not streamed to; a link adds one source; uploads end.
- Token fetch: commands and rotations run under their locks, one command serves a herd, the
  second try has newer cookies, a rotated cookie is saved when the save works, calls end.

## Modules

A step of a model goes from one suspension of the code (an `await` that really waits) to
the next, so the whole handler between them is one action: in `CookiePersistence`, from
one lock operation or thread switch to the next. Actions carry the name of the function
or of the place in it; the comment above each says which. `PROJECT.json` maps every definition
to its lines.

```
TransportDrain         abstract specification of the tracker
  ClientLifecycle      (EXTENDS) close(), polls, operations; implements it
SharedFlight           abstract specification of single-flight work
  RpcPipeline          (INSTANCE) one client's calls; its refresh implements it
  ArtifactPolling      (INSTANCE) one artifact; its poll implements it
GatewayPool            accounts, pool, admin calls     \
CookiePersistence      one storage file                 |
TokenFetch             one profile, its refresh command | independent modules; they meet
IdempotentCreate       one key at Google                | where the text below says so
SourceUpload           uploads of files, upload links   |
ChatAsk                questions to one notebook        |
PendingRegistry        one notebook                    /
MC*                    instances for TLC;   *Proofs  theorems
```

**TransportDrain** – `TransportDrainTracker`. `inFlight`, `draining`, `depth`, and the
tokens `held` by each task; `waiter` is where each `drain()` caller is (the condition
variable is "waiting" / "notified"). `BeginTransportPost` and `RefuseTransportPost` are the
two outcomes of `begin_transport_post`. History: `refused`, and `settled` (a drain has
returned since the flag was set).

**ClientLifecycle** – extends it. An operation takes an outer token and nested ones, a poll
takes its token when its task first runs (not when it is registered). A `close()` goes
"hooks" → "drain" → "lifecycle"; the last stage is the shielded
`ClientLifecycle.close` task (`lifePc`), which goes on when its caller is cancelled
(`CloseCancelLate`). `Reopen` clears the flag only. `teardown` is history: it says which
closes the property about graceful ones speaks of.

**SharedFlight** – what a caller of shared work is promised: he boards the flight in the air or,
when there is none, starts one; it goes on when those aboard leave, its starter included; when it
lands everyone aboard has landed. `RpcPipeline` maps `slot` and the calls that await it,
`ArtifactPolling` the registered poll and its waiters.

**GatewayPool** – `account` is the table, `file` the profiles, `pool` the dictionary,
`client` the objects (garbage collected when nobody refers to them and they are closed).
A request suspends in its limiter, while its client opens and in each call; an admin
call suspends while it closes a client: `CloseDrains` is the flag, `ClientCloses` the end of the teardown (a task of its
own), `CloseReturns` the rest of the handler, which deletes the entry; in between, a request may find the closed client. `Restart` empties all but table and profiles. A storage
state is the pair of the upload it comes from and the rotations since. Saves of cookies are atomic here,
their interleaving is `CookiePersistence`. Nothing restricts who overlaps whom; the history `overlap`
says what has overlapped since the start, and the properties that the code keeps only
without such overlaps name it.

**CookiePersistence** – one action for each of: copying the jar on the loop, the worker
starting, `save_lock`, the file lock with the read, the write with the new baseline, each
failure. Where no file lock is to be had (`FileLockUnavailable`) the save goes on without, as the code does; the history
`crossed` says that another save, one of the two without the lock, has written between the read and the write of this one. A cookie is its value; every rotation is a value nobody has had.

**RpcPipeline** – a call is a record: where it is, whether it must not be replayed
(`strict`), the one-refresh budget that both layers share, the `leg` after a refresh,
the retry counters, the tokens its POST carried. A refresh task is named after the call that started
it; `slot` is `_refresh_task`. `ReplyAuthStatus` is the 401 the middleware sees (the
permit is kept during the refresh), `ReplyAuthDecoded` the auth error found by the
decoder (the permit has gone back).

**IdempotentCreate** – `maker` says which request made each resource at Google; a request
in `sent` may be executed at any time, also after its caller has given up. The answer may name another resource
(`ReplyNamesAnother`): a file call compares it with its baseline, if it has one. The three
kinds of caller differ in their baseline, in what a failed listing means and in what an
ambiguous probe does. History `blind` and `late` records the two excuses for a duplicate.

**ArtifactPolling** – the registered poll is named after the caller who led it. A poll
goes created → asking → telling (the status callback suspends) → sleeping or backoff, and
"ended" until its done-callback resolves the future and unregisters it. Time is two flags for each poll that a
clock raises: the deadline, and the minimal not-found window. `closing` never goes back:
one life of the client.

**PendingRegistry** – `ids` and `order` as in the code; a poll, a create, a retry and a deletion are the call at Google
and, later, the rest of the handler in one step. `status` is the life of a resource at Google, "lagging" while it is not
listed; an answer may leave out what was listed before (#1198), and the deletion of a lagging id may have no effect. Calls
overlap freely; the history `raced` holds the ids for which two have, `lost` what the cap, a restart or a
failed answer has taken, `served` what a poll has shown at its end, `deleted` what somebody asked to delete.

**ChatAsk** – one notebook. `asyncio.Lock` serves in order, so a lock is the sequence of the calls that want
it, and its head holds it. A follow-up holds the lock of its conversation from reading the history to
caching the answer. A question without a conversation (a *null* ask) holds the notebook's lock while it
posts and asks for the most recent conversation, and takes that conversation's lock to cache. A
request in `net` may be executed at any time, also after its caller has gone. The retry middleware may post it again
(`PostAgain`, bounded by `MaxReplays`); `stale` counts earlier posts that can still run, the history `late` has their asks; `log` is what Google has.
`Past` is a turn from before, so that there is something to delete and to post. A turn is named after its ask.

**SourceUpload** – an upload is its caller (`at`) and, once the session is started, a finalize task (`task`) that the
caller awaits through a shield. A cancellation before the request cancels the task and drops the
session in the background; one during it makes the caller wait once more; the second one leaves the task
alone (`abandoned`). `fd` follows the file through both owners. `active` and `seen` are the two
sets of `ConsumedJtiStore`, `link` the one a call came by.

**TokenFetch** – calls on several event loops of one process, which share the generation, the claim and the file but
not the locks. A cookie is the number of its value; Google takes every value made after the
last expiry (`dead`). A try loads the file, may rotate, gets the page; the redirected caller queues for the
refresh command, which runs on when its caller is cancelled, and tries once more. At the end the jar is saved (`Saved`), or not
(`SaveFails`), which the code does not look at. That a save may run without the file lock is `CookiePersistence`'s subject. `early`, `served`,
`overtaken` and `overlapped` are history: the excuses the properties name.

## Runs

Twelve questions: eleven pass, one is a disagreement with a document.

| Run | Module, configuration | What it shows | States |
|---|---|---|---|
| `client_lifecycle` | MCClientLifecycle.cfg | under an operation with nested calls, a poll and two overlapping `close()` of any mode: the client implements `DrainSpec`, a graceful close cuts off nothing, a close that returns has closed the transport | 3.0 M |
| `client_close_ends` | MCClientLifecycleLive.cfg | every `close()` ends, with a poll under way and another `close()` overlapping | 0.6 M |
| `gateway_pool` | MCGatewayPool.cfg | two accounts that swap two keys, with uploads, deletions and restarts around a request, and an upload that may overlap any other admin call: a closed client does not stay in the pool; without overlaps the pool follows the table, no client leaks and a failed opening expires the credentials that failed; every admin call ends | 0.7 M |
| `cookie_persistence` | MCCookiePersistence.cfg | siblings' writes survive, unless they cross a save without the file lock; the baseline is honest; the save of `close()` is of the jar at the close | 1.7 M |
| `rpc_pipeline` | MCRpcPipeline.cfg | the retry budgets of all layers add up, the refresh implements `SharedFlight`, every call ends | 0.5 M |
| `idempotent_create` | MCIdempotentCreate.cfg | duplicates only with an excuse; what is returned as new is not older than the call, where the call could look | 4.3 M |
| `artifact_polling` | MCArtifactPolling.cfg | the poll implements `SharedFlight`, cancellation is private, removal is sustained; every waiter returns | 26 k |
| `pending_registry` | MCPendingRegistry.cfg | no 404 for what exists, unless two calls for that id overlap, it has ended and was served so, someone asked to delete it, or it was lost to the cap, a restart or a failed answer | 1.3 M |
| `chat_ask` | MCChatAsk.cfg | the cache has Google's order and conversations, follow-ups are posted with what came before and without what was deleted, also when a request is posted again; every ask and delete ends | 1.8 M |
| `source_upload` | MCSourceUpload.cfg | the file is open exactly as long as it is read, streams are within the permits, dropped sessions untouched, a link adds one source; every upload ends | 0.5 M |
| `token_fetch` | MCTokenFetch.cfg | commands and rotations are exclusive, one command for a herd, newer cookies for the second try, rotations saved unless the save was not done; every call ends | 1.0 M |
| `gateway_sync_back` | MCGatewaySyncBack.cfg | *violation*: a pool hit undoes an upload | |

Facts that are proved for all constants (see [Proofs](#proofs)) are not run again: the type invariants of the modules
with proofs, the tracker's accounting and wake-ups, the conservation of permits, the registered poll, and what the
registry tracks. The three type invariants that are run carry the limits of the cache, the route and the link store, and
the values of the token counters.

**Bounds**, all CONSTANTS. Two actors of each kind (callers, closers, uploads, clients on a file) are enough for every
pairwise race, and the safety properties that matter most are proved for any number.
`MaxNested = 2` lets an operation nest again after a nested call has ended, which is where a wrong depth
would show. `gateway_pool` has `MaxUploads = 2`, `MaxAge = 2`: an account, a second one or an upload that replaces the
first, and rotations that the row lags behind. One request and two admin calls, the second of
which is an upload when it has to close a client (`InOrder`), meet in every order; other pairs of admin calls, and two openings at once, are
covered by the proofs. `MaxRotations = 2` in `CookiePersistence`: with two clients and two cookies each can be ahead of the other on one
cookie, or both on the same. `MaxExpiries = 2`: tokens obtained by a refresh expire too. `RateLimitMax =
ServerErrorMax = 1`: both counters, and both together, exceed their limit. `MaxAttempts = 2`
is enough for a first attempt, a probe and a second one; `Ids` has room for a duplicate and a
resource of somebody else. `MaxNotFound = 3` separates the two ways an artifact counts as removed (the
window, and twice the count). `MaxEntries = 2` makes the registry evict: the queue keeps a
copy of an id that was dropped and recorded again, so that two ids fill it. In `chat_ask` a cache of one conversation of
two turns evicts by both limits, and `MaxOthers = 1` lets a second client change the most recent conversation at each
point; with `MaxReplays = 1` any one request is posted twice. `source_upload` has one permit, two links and a link store of one, so that uploads queue, claim the same link, and the
store forgets; `MaxInflight = 2` lets both through the route. `token_fetch` has two callers on one
loop, who make a herd, and one on another; `MaxValue = 2` is a refresh followed by a second one or by a
rotation. Symmetry is declared in runs without fairness only. `gateway_pool` and `chat_ask` use an ACTION_CONSTRAINT instead (`InOrder` in
their MC modules): of values that only a permutation tells apart, the first to be used is a fixed one. What it cuts off is the mirror image of
what is checked, and no step with a fairness condition.

`CHECK_DEADLOCK FALSE` stands where the system really stops: the creates, asks, uploads, fetches and the
ids of the registry are used once.

**Fairness.** The specification with liveness of a module assumes only what the event loop, the timeouts of
HTTP requests and the clock give: a task that is ready runs, a request comes back, a
sleep or a deadline passes. In `ChatAsk`, `SourceUpload` and `TokenFetch` that is weak fairness of the steps of each
call and of its task or command (the command has a timeout, after which it is killed), but not of finding a fresh file before the lock; in
`GatewayPool` of the end of each call of a request and of the steps of a close (`CloseDrains`, `ClientCloses`, `CloseReturns`). The semaphore is fair for each
waiter (`asyncio.Semaphore` wakes waiters in order), hence the one `SF` in `RpcPipeline`. Nobody has to
call, cancel, upload, delete or expire anything, and the command need not succeed.

**Mutants.** Each property of a passing run is paired in `PROJECT.json` with a plausible mistake in
the code (marked `mutant` in the modules) under which TLC refutes it.

## Proofs

TLC checks small instances; the following hold for all values of the constants under the
named assumptions (`TasksAssumption`, `PersistenceAssumption`, `PipelineAssumption`, `CreateAssumption`,
`PollingAssumption`, `PoolAssumption`, `RegistryAssumption`, `UploadAssumption`, `ChatAssumption`,
`FetchAssumption`): distinct model values are distinct, limits are natural numbers, and the set
of calls is finite where it is counted. Each inductive invariant was first checked by TLC on the instance of its run.
Two modules of proofs extend two components each; the second one's specification carries its name in its definitions
(`UploadSpec`, `ChatSpec`).

- **ClientLifecycleProofs.** *The tracker:* `DrainInv` joins the exact accounting to `TokensDisjoint` (no token belongs
  to two tasks) and to the finiteness of what is out; without the first a token given back could be counted twice,
  without the second the cardinality argument fails. From it: `TrackerAccounting`, `DrainedStaysEmpty`,
  `DrainWakesUp`, `AdmittedGoThrough`. `begin_transport_task` has no caller in the repository: the proofs cover it,
  and no run of the composed client takes it.
  *The client:* `ClientImplementsTracker`: each action of the client is one of the tracker's or
  leaves the tracker's variables alone, so `Spec => DrainSpec` and all the tracker's theorems hold in the client.
  `GracefulCloseCutsNothing` adds `CloseInv`: a teardown that counts as graceful began when the tracker was settled.
  `LifecycleTypeOK` and `KeepaliveIsNeverOrphaned` rest on `KeepInv`: from the first step of a
  teardown on no keepalive runs, unless the client was reopened while that teardown was under way ("stale").
  `ReturnLeavesItClosed` needs types only: the step in which a closer goes idle without being cancelled is the one that
  forgets the HTTP client.
- **CookiePersistenceProofs.** The heart is `LockedView`: a save that holds the in-process lock works on the
  present baseline, and one that has read the file works on its present content. That makes
  `SiblingsAreSafe` and `BaselineIsHonest` inductive; for a save without the file lock it holds until it is crossed. `ClosingSaveIsTheLast` adds `CarriesLastJar`: the copy
  that the save of `close()` carries stays equal to the jar, which no response changes any more.
- **TokenFetchProofs.** `LocksHeld` says that a rotation runs under the lock of its loop and the claim the loops
  share, a command under the lock of its loop. `ValuesOK` orders the cookies of the callers, the file and the server;
  `Renewed` says that a success a rejected call has not seen has left newer cookies in the file. `HerdOK` carries the
  herd: a success on the loop of a waiting call is still to be counted or will be noticed, unless commands of two loops
  have overlapped. From these `FetchTypeOK`,
  `WorkIsExclusiveHolds`, `HerdRunsOnceHolds`, `RetryHasNewCookiesHolds`, `RotationIsSavedHolds`.
- **RpcPipelineProofs.** `CallInv` ties the shared refresh budget to the number of refreshes asked for, the attempts to the
  present round of the retry middleware, and keeps a strict call out of every replaying state; `TokensInv` says that a
  refresh under way holds no tokens older than the client's, which is what needs `SingleFlight`. `RefreshImplementsFlight`: every step
  of the pipeline is one of `SharedFlight` or a stutter.
- **SourceCreationProofs.** *Creates:* `ResourcesInv` (a request makes at most one resource), `CallOK` (what a call has sent,
  by attempt) and `AllLanded` (a call without an excuse has made nothing before its present attempt) give
  `AtMostOneResource` and `NothingOldIsReturned`.
  *Uploads:* `UploadInv` has a part for the calls (`CallsInv`: the limits, and which calls share a link) and one for their
  files, tasks and sessions (`TasksInv`; `HandedOff` in it says how far the call, its file, its task and its session have come
  together). The five invariants of `SourceUpload` follow.
- **ArtifactPollingProofs.** `IInv` says that the registered poll is the only one that exists and the one that everybody
  waits for, and `CountsOK` relates the misses the loop has counted to the misses in a row; from it
  `OnePollPerArtifact`, `EveryWaiterIsServed`, `CancellationIsPerCaller`, `RemovedIsSustained` and the refinement
  `PollImplementsFlight`.
- **GatewayPoolProofs.** A structural part comes first: keys belong to one account, and what requests, admin calls and the pool
  refer to is a client in a fitting state, since a slot is reused once nobody does. On it rest three arguments:
  `NoClosedClient` (a client is closed only for a call that still holds its entry: `InHand`), `CalmInv` (as
  long as no admin call overlaps anything, an opening reads the present row and the pool follows the table) for
  `PoolFollowsTable` and `OpensFollowRows`, and `LeakInv` (without any overlap the one opening has an
  empty place to go to) for `NoClientLeaks`.
- **BoundedMemoryProofs.** *The registry:* `RegInv` is the structure (what is tracked is queued, the queue is within the cap), and
  `MemoryOK` its memory: an id whose creation was answered is known (tracked or lost) until a poll has served its end or
  someone has asked to delete it, and what a poll under way has seen is still so, unless calls for it overlap. From it
  `TrackedIsEvictable` and `PendingIsRemembered`.
  *The conversation cache:* lemmas say what an append, the removal of one entry and the cut at a limit do to the members of a sequence
  and their order, and what each operation of the cache does (`CacheTurnEffect`, `ClearEffect`). `ChatInv` then has
  the locks (`Holding`: who has posted is the head of his queue), what is executed (`LoggedOK`, `FollowUpsLogged`,
  `NullsLogged`), the order (`OrderOK`: what is answered later, or queues later, is not earlier at Google) and the
  deletions (`CacheTold`: once a delete is answered nothing of before is cached; `HistoryTold`: nor in a history
  under way). The order of the queue is needed because null asks give up the notebook's lock before they cache. From it
  `ChatTypes`, `ServerOrder`, `RightConversation`, `LineageHolds` and `NoDeletedTurnIsSent`.

Only model-checked: all liveness (fairness and `ENABLED` are outside the prover's reach). Every safety property
that a passing run checks is also a theorem.

## Known divergences

One is a run, `gateway_sync_back`: on a pool hit `_sync_back_if_modified` (`server/_context.py:93-99`) copies the profile file
over the row. After an upload, and until its admin call has closed the old client, the file is the old one: the upload is
undone. The project's README promises a hot update.

Others were met while modelling. Where a property has an exception, this is why; the model reaches the case, and dropping
the exception makes TLC show it. The rest were read in the code.

*Gateway*

- An upload during the opening of a client leaves the old session in the pool (`server/_context.py:139-141`), and two
  openings of one key, or an opening and an admin call, leave an open client outside the pool (line 141): the history `overlap`.
- An upload that gives an account a new key closes what the *new* key holds; the client of the old key stays open and in the
  pool (`main.py:103`). It is not served, since its key has no row.
- Rotations that no pool hit has copied into the row are lost when the profile is provisioned again
  (`server/_context.py:128`), after a restart too; seen with `MaxAge` above `MaxUploads`. That write takes no file lock either.
- The poll of an id that a second poll or a retry overlaps may answer 404 for what exists (`server/routes/sources.py:239`): the
  history `raced`. So may the poll of what a poll has shown finished, when the list leaves it out (`server/routes/artifacts.py:470`
  drops it): `served`. Deleting an artifact in the making leaves its id pending (`server/routes/artifacts.py:577`).
- `PendingRegistry.drop` leaves the queue alone, so ids dropped long ago count towards the cap (`server/_pending.py:61`).

*Client*

- A background save copies the jar on the loop and takes the lock in a thread, so its worker can come after the worker of `close()`
  and write an older jar, although `_runtime/lifecycle.py:493-495` says that close() "must win". `ClosingSaveIsFresh` says
  what remains: the save that `close()` itself makes is of the newest jar.
- Without the file lock (`_auth/storage.py:185-206`) a write of a sibling between the read and the write of a save is lost:
  `crossed` in `SiblingWritesSurvive` and `ClosingSaveIsFresh`. The code says "best-effort" of that mode.
- A 401 of old tokens that arrives after the refresh has ended starts a second one, since only a *running* refresh is joined
  (`_runtime/auth.py:316`), although line 267 promises "exactly one". The public `refresh_auth` does not join at all
  (`client.py:758`), and a close that cancels the shared refresh cancels every call that waits for it (`_runtime/auth.py:371`).
- A poll that registers after the drain hooks of `client.py:475` is not cancelled; the drain waits for it. `close()`
  still ends (`client_close_ends`).
- `open()` does nothing while a cancelled `close()` tears down in the background (`_runtime/lifecycle.py:301`), and a reopen
  makes a new semaphore beside the permits of the old one (`_client_composed.py:145`).
- A caller may join a poll that has its outcome while the status callback suspends, and gets an outcome from before his retry
  (`_artifact/polling.py:354`).

*Creates and uploads*

- `add_url` takes a listing it cannot read for "not there" (`_source/add.py:94`): the `blind` excuse in `DuplicatesExplained`.
- Two uploads of one file name: a probe that sees one new source takes it for its own (`_source/upload.py:602`).
  `ResultIsNew` is what remains: it is at least not an old one.
- Where the baseline could not be listed, the id that the answer to a registration names is returned unchecked
  (`_source/upload.py:642-650`), and a notebook's probe takes what it finds: the exceptions of `ResultIsNew`.
- An upload that fails after the registration leaves an empty source behind, and one cancelled while its file opens leaves the
  handle to the collector (`_source/upload.py:439`, 443; `fd` "orphan").
- A second cancellation gives link and permit back while the task streams on: `abandoned` in `StreamsBounded` and `LinkUsedOnce`.
- `wait_until_ready` fails at once when the list does not show the source yet (`_source/polling.py:65`).

*Chat*

- `turn_number` repeats once a conversation is at the cap (`_chat/api.py:427`; `docs/api.md:452` has it count turns).
- A null ask that a deletion overtakes caches a deleted turn again: `NoDeletedHistory` speaks of follow-up turns.
- A question that the retry middleware posts again after a 5xx, a 429 or a failed connection (`_middleware/retry.py:229`) may be executed
  twice, the first time late: the order and the lineage of the cache are then not Google's (`late` in `CachedInServerOrder`
  and `Lineage`).
- Two changes of the chat settings read, merge and write without a lock (`_app/chat.py:373`).

*Token fetch*

- Two loops that finish commands at once count one success (`max(existing, g + 1)`, `_auth/refresh.py:649`), and a caller who failed
  in between runs a third: `overlapped` in `HerdRunsOnce`.
- A rotated cookie is lost when the homepage fails after the rotation (`_auth/refresh.py:762`): `RotationIsSaved` speaks of calls
  that get to the save. That save may fail, or not be begun when its caller is cancelled, and nobody is told
  (`_auth/refresh.py:868`): `SaveFails`. Two pokes at the claim's boundary are not kept a full interval apart (`_auth/keepalive.py:230`).

## Not modelled

- The set-up in `open()`, the metrics, tracing and error-injection middlewares (they pass calls through), database
  failures, cookie attributes and the legacy merge without a snapshot.
- *Research imports and polls* (`_research.py`) and the wait for several sources at once (`_source/polling.py`): next in the plan. The
  wait for one source is part of `SourceUpload`.
- *Request limiters* (`server/_limits.py`): a counting semaphore around each group of routes, of which a request holds one;
  `GatewayPool` has the suspension.
- *Headless re-authentication and master tokens*: sequential fallbacks inside the refresh that drive a browser.
- *RPC codec and row adapters*: pure decoding of positional lists, no state.
- *Feature APIs*: one RPC each through the modelled pipeline.
- *Application layer, CLI, MCP tools, desktop helper, web pages*: front ends; they appear as the calls, uploads and
  requests of the models.
- *Documentation site*: vendored node modules.

Most of the repository's lines are in these last four groups, which is why the map covers a small share of them.

## Plan

The order followed so far: tracker and lifecycle, since every other component runs inside them; the gateway's pool, the
project's own core; then the parts of the client whose errors lose data (cookies, creates), cost attempts (pipeline) or
hang callers (polls); the pending registry; chat, uploads and the token fetch; the abstract single flight; the proofs of the pool and the
registry; those of the chat, the uploads and the token fetch. What is left:

1. `ResearchImport` (`_research.py`): start, poll, import in batches with verification.
2. Source waits: several sources at once, with cancellation of the rest when one fails.
3. A composition of `close()` with `RpcPipeline` (`cancel_inflight_refresh`, permits that outlive a reopen), and of
   `GatewayPool`'s profile write with `CookiePersistence`.
4. Proofs: the safety properties of what 1 to 3 add, and that the compositions implement the component specifications.
