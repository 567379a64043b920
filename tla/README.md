# Verification of the ai-gateway

This directory holds TLA+ models of the gateway under `src/src/`, TLC runs that
check them on small instances, and theorems that TLAPS proves for every value
of the constants. Paths below are relative to `src/src/` unless they start
with another directory.

The gateway is one Node process. It takes LLM requests in four client formats,
authenticates them, answers from a cache or routes them to a model of some
provider, calls the provider over HTTP and turns the answer back into the
client's format. Configuration and counters live in one SQLite file, whose
driver is synchronous. Nothing runs in parallel: code of two requests
interleaves at `await` only, so **one action of a model is what a handler does
from one await to the next**, and a handler without an await is one action.

## 1. Inventory

| Component (source) | State | Operations | Talks to | What is hard |
|---|---|---|---|---|
| connector (`connector/`) | per protocol: breaker statistics, token bucket; per call: attempt, timers | `call`, `stream`, `resetCircuit`, `getCircuitState` | upstream over HTTP; caller's `AbortSignal` | concurrent calls share breaker and bucket; retries, timeouts and aborts meet; the breaker's answer is used after an await |
| sse decoder (`connector/sse-decoder.ts`) | buffered text | `push`, `end` | connector, serializers | events split anywhere |
| budget (`budget/tracker.ts`, `storage/repos/budget.ts`) | snapshot per key in memory; `budget_counters` rows; events | `check`, `commit`, `reset` | SQLite, admin API | check and commit far apart; three statements without a transaction; midnight; restart |
| auth and rate limit (`auth/`) | minute windows per key, of requests and of tokens | `authenticateRequest`, `check` | keys table, budget | two dimensions checked, then consumed; what a refused request consumes; minutes and restarts between |
| router (`router/`) | round-robin counters (kept by dispatch) | `route`, `dryRun` | availability, indexes | counter against a list that changes; chain re-entry; null latencies |
| indexes and availability (`storage/indexes.ts`) | availability entry per model; two catalog indexes | `recordSuccess/Failure`, `updateSuccessRate`, `add`, `remove`, `set` | router, dispatch | streaks, rates and statuses that feed each other; staleness |
| dispatch (`dispatch/pipeline.ts`) | indexes, counters | `dispatch` | everything above, caches, usage | every exit at every stage; what is skipped on which path |
| caches (`cache/`) | `cache_entries`, `semantic_cache` and further tables | `lookup`, `store`, `sweep`, `clear` | dispatch, admin API | expiry, concurrent misses, protocols that share a fingerprint, sweep that nobody calls |
| server and lifecycle (`server/`) | in-flight count; shutdown stage | one handler per request; signals; drain | Node, database | drain against late and endless requests |
| repositories and schema (`storage/`) | tables | CRUD | SQLite | cascades, a sync that deletes and re-inserts and may be rolled back |
| admin API (`admin/`) | none of its own | provider, model, virtual model, key writes; budget reset | repositories | writes behind the back of memory that was read at boot |
| mcp client (`mcp/client.ts`) | child process, pending map, buffer | `start`, `stop`, `request`, `onStdout`, `onExit` | child process | late answers, old exit against new child |
| prompts (`prompts/template.ts`) | versions | `save`, `publish`, `delete` | SQLite | published version that is gone |
| clients, ir, adapters (`clients/`, `ir/`, `adapters/`) | none; a stream serializer's open blocks | parse, serialize, normalize, fingerprint, build a body, parse a document | dispatch, connector, cache | three formats one after the other; one adapter that changes the request it is given |
| configuration, cli (`config/`, `cli/`) | none of its own | seeding of providers and virtual models at each start | repositories | entries that are there already, under the name or under the id |
| observability, guardrails, crypto, logger | counters; none | | | no control flow worth a model |

What makes each correct, and how far that is covered:

* **connector** - an open breaker admits nobody; it trips only on enough
  failures in a row inside the window; every attempt is judged once; the bucket
  keeps its rate; every call settles. *Checked, and all but the last proved.*
* **budget** - rows account for what was spent; memory never lets more through
  than the rows would; one warning per period; overshoot only by concurrency.
  *Checked and proved.*
* **router, availability** - turns are fair; nobody who is down is served; a
  virtual model that can serve is not passed over; statuses change only when
  earned. *Checked and proved, but for one that does not hold (section 4).*
* **server** - the count is exact, the database outlives the requests, the
  drain ends. *Checked, and all but the liveness proved.*
* **auth, dispatch** - the quota counts exactly who was let through and is kept;
  every exit answers. *Checked and proved; the 429 lacks its header (section 4).*
* **exact cache** - what it answers is what was answered to that question, in
  that protocol, within its lifetime, by the model that was asked. *Checked and
  proved, but for the model a Gemini client names (section 4).*
* **clients, ir, adapters** - what was said, called and answered arrives, once,
  in order and as the role that said it; a cached answer is the answer to this
  question. *Checked and proved, with the losses the properties name.*
* **sse decoder, stream serializers** - where chunks end makes no difference; no
  text of a stream is lost, doubled or moved. *Checked and proved, but for the
  first text of a Messages client (section 4).*
* **admin, repositories, indexes** - no row refers to a row that is gone; what
  the process routes by is what is stored, for every provider not written to
  since the start. *Checked and proved.*
* **prompts** - the version published last is the one served. *Checked and proved.*
* **mcp client** - an answer goes to the request it belongs to; a child that ends
  leaves nobody waiting. *Checked, the first proved.*

`PROJECT.json` lists the hazards at their lines; the note of one says what of it
no property covers, and why.

## 2. Modules

```
BreakerContract <-- refines -- CircuitBreaker --+
                               TokenBucket -----+--> Connector --> MCConnector
                                                        +--------> ConnectorProofs
BudgetTracker --> MCBudget
    +-----------> BudgetProofs
Availability --> Router --> MCRouter
                   +------> RouterProofs
Lifecycle --> MCLifecycle
    +-------> LifecycleProofs
RateLimit --+--> Dispatch --> MCDispatch
ExactCache -+        +------> DispatchProofs
Messages --> Clients --> Adapters --> EventStream --> Exchange --> MCExchange
                                                          +------> ExchangeProofs
Catalog ---+
Prompts ---+--> MCSeparate
McpClient -+--> SeparateProofs
```

`Arrays` has `Array.prototype.map` and `filter`, for `Router`, `Messages` and what
builds on them; `ArrayProofs` has the laws of folds, maps and filters that
`RouterProofs` and `ExchangeProofs` need.

### CircuitBreaker, TokenBucket, Connector

`CircuitBreaker` has the statistics of one vendor (`circuit`) and its methods
as operators on them: `MaybeTransition`, `AfterSuccess`, `AfterFailure`,
`Allowed` and the steps `Look`, `RecordSuccess`, `RecordFailure`, `ResetStats`.
The code moves from open to half-open only when somebody looks, and every
method looks first. `BreakerContract` is what callers are promised: an eager
breaker whose cooldown ends on time, which trips or fails a trial by `Open`, and
which only the last success of a trial closes (`Close`) - or an operator
(`Reset`, the code's `reset()`). So that no other closing can pass for a reset,
`oddResets` changes with each reset and with nothing else. `ContractSpec`
instantiates the contract with what `stateOf` would answer.

`TokenBucket` counts in units: the code's tokens are fractions, and with
`TokenUnit` 1000 and a tick of a millisecond the arithmetic of the code is
exact. `Take` and `MustWait` are the two outcomes of `reserve()`.

`Connector` composes them with the calls. `call[c].phase` is the await that a
call is in: `limit` (waiting for a token), `granted` (the promise of `take()`
is resolved and its continuation is yet to run), `fetch`, `sleep` (backoff),
`body` and `errtext` (of a stream). Points that are easy to get wrong:

* breaker and bucket are keyed by the adapter's protocol, not by provider or
  key: one pair is shared by all calls the model has;
* the breaker is asked once, before the wait for a token, and never again; the
  half-open state limits nobody; a retry takes no token;
* an abort by the caller during a fetch is treated as a failure of the vendor
  and retried; one that fired before a wait began is not noticed in the wait;
* `stream()` records a success at the headers, nothing at all when the fetch
  throws, and clears its timer before it awaits the text of an error;
* `computeBackoff` caps before it adds jitter on the exponential path and after
  it on the Retry-After path.

`streak`, `oddResets`, `records`, `spent` and `admittedAt` are auxiliary: no
action reads them but to update them. Time is `Date.now()` in ticks and does not run backwards.

### BudgetTracker

One key (keys share nothing): `rows` is the table, `snapshot` the cache entry,
`request` the requests that check, are in flight, and commit or give up.
`Commit` is the whole of `commit()`, `CommitFails` the same up to the statement
that throws, so day, month and total may part. Both read the clock twice, as the
code does, and midnight may fall between. `AdminReset` clears the day and month
rows only (the total row it names, `total`, is not the tracker's, `all`) and
does not touch memory; `TrackerReset` clears memory only, whichever key it is
called for. `Restart` drops memory. In this commit of the code nothing calls
`commit` or the tracker's `reset`: they are modelled as the class offers them.

### Availability, Router

`Availability` is `AvailabilityCache`: `entries` built from the rows at boot,
then fed. The 70/30 blend of latencies is rounded from floating-point products;
exactly half-way either neighbour is allowed. Nothing in the code feeds or
writes back the cache today, so a restart forgets: `Restart` rebuilds from
`Rows`, which never change.

`Router` is `route()` with the counters of the pipeline. A request is routed
without an await, so one action walks the whole chain: `Visit` moves the
counter of every round robin it tried, whether it picked or missed. `Picks` is
`tryOne`; a draw by weight is the set of models it may hit. Members are those
that were enabled at boot; models of disabled rows are not in the cache and
count as routable; unknown fallback names are skipped, and the fallbacks of a
fallback are not followed. A model occurs once per virtual model (primary key),
so the deduplication of `filterRoutable` has nothing to drop and is left out,
as is the sort of members, which SQL already returns by priority. `route()` is
not called again after a failed upstream call: the chain is about who is
believed available only. `dryRun` changes no state and is left out.

### Lifecycle

Requests, the in-flight tracker and `shutdown()`. A request's `phase` is what
its handler awaits: its `body`, an `admin` body, or the `upstream`. `reply` is
what the client has seen; a handler may end without writing anything.
`KeptAlive` are requests on connections opened before `server.close`, which
Node goes on serving. `Look` is the head of the drain loop: it plans another
look or closes the database in the same step. A signal's handler runs once
(`process.once`), so a second signal of the same kind kills the process. An
upload that breaks off rejects `handleRequest`, whose promise nobody catches:
the process dies (`BodyBreaks`). Path matching and the bodies of the routes are
left out, except for whether they use the database.

### RateLimit, ExactCache, Dispatch

`RateLimit` has the two maps of windows and `check()` as its two outcomes,
`Reserve` and `TurnAway`; both roll a window of an earlier minute forward, and
nothing is consumed unless both dimensions have room. `ExactCache` is the table
`cache_entries` with `lookup`, `put`, `clear` and `prune`. Its fingerprint does
not cover protocol, stream flag or key, so entries are shared by keys, and
requests of two protocols replace each other's.

`Dispatch` is `dispatch()` with `authenticateRequest`. The upstream call is the
only await, so a request is one step or two: from its arrival to an answer or to
the call, and from the call's result to the answer. Each exit of the code is an
action: `Refused` (400, 401, 403), `TooMany` (429), `Malformed`, `CacheHit`,
`Unroutable`, `CallsUpstream`, then `Succeeds` or `Fails`. What a request is
refused for is not distinguished, and keys may be made, revoked or deleted at
any time. Routing and the call are any of their outcomes, which `Router` and
`Connector` detail. Points that are easy to get wrong:

* malformed requests and unknown protocols are answered after the quota was
  consumed; refused ones before it is looked at;
* the cache is asked even when storing is switched off; the configured lifetime
  and a key's `cache_enabled` are not read, entries live 86 400 s;
* the answer is stored before it is serialized, and a failure to store is
  swallowed, so a client may get a 500 whose answer is then served from the cache;
* a semantic hit is counted and never served; the continuation and prompt
  caches are not called; the usage row is written last and its failure is
  swallowed, so none of them is in the model;
* nothing calls `sweep`; it is in the model as the class offers it.

`admittedIn` and `answeredAt` are auxiliary. Windows are fixed minutes, although
the comment of the limiter says sliding: around a minute's end a key gets up to
twice its limit through, and `QuotaIsKept` speaks of calendar minutes for this
reason.

### Messages, Clients, Adapters, EventStream, Exchange

The formats. `Messages` is the intermediate representation, its normalization
and the tuple the fingerprint hashes. `Clients` parses the bodies of the four
client protocols, which are of the `IncomingBody` types (`BodyOf`), and serializes
answers for them; `Adapters` makes bodies for
the upstream protocols and parses their documents. All these are operators: the
code they stand for is free of state, except that Wenxin's `collapseSystem`
writes into the request it was given (`AfterBuild`). A text is a sequence of
words, a field that may be missing a sequence of at most one value, and the
argument text of a tool call either stands for its JSON object or has the word
`Unparsable` in it, of which every parser makes `{}`.

`EventStream` reads a stream: chunks of tokens arrive (`ChunkArrives`), the
decoder cuts what it has into events, the adapter parses each and the client's
serializer, which keeps its state, says what is sent. A stream ends, breaks, or
stops in the middle; what the decoder still holds then is one last event. Nothing in `src/`
consumes such a stream yet, so the loop that passes events on is external.

`Exchange` is the way of a request: parse, look in the cache, build the body
(dispatch), build it again and send it (the connector), parse the document,
store, serialize. There is one request object all the way, as in the code. Of a
stored answer, `asked` and `named` are auxiliary: the request it was given to, as
it was parsed, and the model the client's body named, which is what dispatch
requires and routes by. A Gemini client's never reaches the request.

### Catalog

The tables of providers, models, virtual models, members, keys and counters, each write of
`admin/api.ts` as one action with everything the repositories and the schema's
cascades do in it, the seeding that each start performs, and the two indexes
that `createPipeline` builds once. A write that is refused changes nothing and
is no step; the sync of models is the exception, as it fails after its deletions
and is rolled back (`SyncRefused`). Ids of models come from the provider's id and
the normalized name by a function that may give two models the same id
(`ModelId`). `edited` and `writes` are auxiliary; `edited` has the providers
written to since the indexes were built.

### Prompts, McpClient

`Prompts` is the repository of prompt templates; `published` remembers, outside
the code's state, which id was published last under a name.

`McpClient` is the client of a tool server that runs as a child process. A
child's answers are written as lines of two halves; `onStdout` reads any number
of halves, so a line may be cut; a child may end at any time and cut its last
line; the event of its end comes later, perhaps after `start()` has run again.
`this.proc`, `this.buffer` and the map of those that wait are one for all
children, as in the code. A spawn that fails leaves `this.proc` set.

## 3. Runs

| Run | Instance | Asks |
|---|---|---|
| `connector` | 3 calls: one plain or probing and not retried, one retried that may be aborted, one stream; 2 attempts, token of 2 units refilled at 1, threshold 2, 2 successes to close, cooldown 2 | all connector properties, the contract, and that calls settle |
| `connector_rate` | same | does the vendor's rate hold for requests? No |
| `budget` | 3 requests, 3 days in 2 months, caps 3/4/5, cost 2 | all budget properties |
| `budget_reset` | same, admin reset only | does the snapshot mirror the row? No |
| `router` | 4 virtual models, one per strategy, linked in chains one of which returns to its start; 3 models: up, down, disabled | all routing and availability properties |
| `router_first` | same | does a primary serve whenever it can? No |
| `lifecycle` | 3 requests, one kept alive; timeout 3, poll 2 | count, drain, promptness, completion |
| `lifecycle_exit` | same, with requests that end | does the process exit after the drain? No |
| `dispatch` | 3 requests of 2 keys (1 request; 2 requests or 3 tokens, 2 each), 2 protocols, a stream, 2 fingerprints; minutes and lifetimes of 2 ticks, 4 ticks | quota exact and kept, hits genuine |
| `exchange` | 15 requests of the 4 client protocols, 2 exchanges; 4 upstreams with 4 or 5 documents each; 28 streams of up to 57 tokens, in chunks of up to 8 | what was said, called, answered and streamed arrives; cached answers fit their question |
| `exchange_model` | same | is a cached answer of the model that was named? No |
| `separate` | the catalog with 2 providers, 3 models, 2 virtual models, a key, 4 writes, one call; 3 prompt templates, 2 names, 2 versions; an MCP client with 2 children and 3 requests | catalog consistent and routed as stored; latest is published; answers are their own, and a child's end settles its requests |

Why the bounds are enough:

* *connector*: three calls is the least with a late outcome of one call, a trial
  of a second and the admission of a third. A threshold of 2 tells one failure
  from a row, and a window of 1 lets failures expire between attempts. The
  cooldown exceeds the timeout, so an outcome can come in on either side of a
  transition. A trial needs two successes, so one short of its last is a state
  of its own, and every step of the contract occurs. Half tokens make waits
  round up, and a single token of capacity makes waiters collide. `Horizon` bounds when calls start; they then run out
  freely, up to many ticks later. `MCConnector` also checks by an assumption
  that dropping a prefix is the code's filter on every ordered sequence.
* *budget*: one, two and three commits of 2 cross the caps 3, 4 and 5, and the
  80% line of each lies between amounts; with `DaysPerMonth` 2 one midnight ends
  a month and one does not. Requests are symmetric and the configuration maps
  none of them to a fixed role, so symmetry is sound; no run with symmetry
  checks liveness.
* *router*: counters reach 4, past one full turn of three candidates and two of two; streaks
  of 2 reach the threshold; latencies 1, 4 and 6 give blends that round both
  ways. `b` starts down, so candidates grow and shrink under the counter.
  Outcomes, additions, removals and reloads happen to `a` and `b` (`Fed`); `d`
  stays what it was at boot, unknown to the cache and so routable.
* *lifecycle*: the deadline (3) falls between two looks (2, 4), so overrunning
  it is possible and visible.
* *dispatch*: the second key's tokens run out while its requests do not, so a
  request may be turned away by the second dimension; two minutes' ends pass, so
  a window may be of the minute before or older. A lifetime as long as a minute
  lets an entry expire under calls that began before it was stored.
  `MCDispatch` also checks by an assumption that waiting as long as `Retry-After`
  says, and no less, leads to the next minute.

* *exchange*: two exchanges are the least in which the second is answered from
  the cache of the first. The requests have system texts in every place a
  protocol has for them, turns with calls, results, images, arrays and thinking,
  and pairs that differ only in what must, or must not, be part of the
  fingerprint; two pairs, of a Chat and of a Gemini client, differ in the model
  only. Streams end their lines in LF or in CR LF, and a chunk may end
  between any two of the tokens, inside a line end too. Of OpenAI's protocol
  one body serves four upstreams; Wenxin stands beside OpenAI because it differs.
* *separate*: the three components share no variable and no step. `part` says
  which of them moves, so the run explores their sum and not their product,
  and each property is about one of them. Four writes are enough to create a provider, give it a model, make
  the model a member and then delete, sync or rename; a restart may come between
  any two, and brings the seeds back. Model names are chosen so that two names
  of one provider and two names of two providers get one id. With two children
  the first may end after the second was started, and three requests let one be
  made to each child and one more wait beside it.

`CHECK_DEADLOCK FALSE` is set where the system or the instance really stops: the
budget model after its last day and request (a database at rest), the process
that exited, the last exchange or a stream read to its end, and an MCP client
whose bounded children have all ended with no request open.

What the properties mean for the code:

| Property | What would break it |
|---|---|
| `OpenAdmitsNobody` | a new call joining while callers are told "open"; calls let in before run on, retries included, and that is what it allows |
| `ClosedIsBelowThreshold` | a success closing the breaker that leaves old failures behind |
| `TripIsEarned` | a trip on failures that a success interrupted, or that are older than the window |
| `EveryOutcomeRecordedOnce` | an exit of the attempt loop that records twice or not at all |
| `BurstBound` | tokens created by refills at odd times |
| `ContractSpec` | a late success that closes an open breaker, a trial closed short of its successes, a lazy transition a caller could tell from a timely one |
| `CallsSettle` | a waiter that is not woken again, a backoff or attempt without an end |
| `RowsAccountForSpending` | a charge computed from memory, or charged to the wrong day |
| `SnapshotCoversRow` | memory that lags behind the row, so that checks let too much in |
| `OneWarningPerPeriod`, `ThresholdIsHeard` | a warning repeated after a restart, or missed at exactly 80% |
| `OvershootIsBounded` | a cap exceeded by more than what the other requests in flight cost |
| `RoundRobinIsFair` | a counter that skips or repeats turns, also through re-entered chains |
| `RoutingIsExplained` | passing over a virtual model that could serve, for any but the two known reasons; a model known to be down picked at some depth of a chain |
| `MovesAreEarned` | a recovery after one success, a demotion without its streak or rate |
| `EntriesMatchReports` | a low rate hiding a streak, so that a failing model stays routable; a latency blend that drifts out of what was measured |
| `InflightIsExact` | a path out of the handler that is not counted down |
| `DrainsBeforeClosing` | closing under a request while there was time |
| `ShutdownIsPrompt`, `ShutdownCompletes` | a drain that overruns its deadline, or never ends |
| `QuotaIsExact` | a request that is turned away and yet consumes one dimension; a window that survives its minute |
| `QuotaIsKept` | a limit compared off by one, or with a window that was replaced |
| `HitsAreGenuine` | another protocol's answer, a stream's, or one past its lifetime served from the cache |
| `RequestIsKept` | a system text that loses its place or role, a turn dropped, doubled or moved on its way through three formats |
| `ToolTrafficIsKept` | a call torn from its arguments, a result from its call, one of them lost, doubled or out of order, a choice of tools weakened, beyond the losses section 4 lists |
| `AnswerIsKept` | an answer's text or calls lost for one pair of protocols; a cut-off answer sold as complete |
| `CacheAnswersTheQuestion` | a fingerprint that leaves out the model, an option or anything said, or is taken after the adapter changed the request |
| `ChunkingIsInvisible` | an event lost, joined or split because of where the network cut the stream |
| `StreamIsKept` | a serializer's state that swallows, repeats or reorders texts |
| `CatalogIsConsistent` | a delete that leaves rows behind, a sync half undone, a seed over an id that is taken |
| `RoutedAsStored` | an index built from other rows than dispatch reads, or that outlives its process |
| `LatestIsPublished` | an older version coming back when the published one is deleted, or a mark that moves to another name |
| `AnswersAreTheirOwn` | ids that start anew with a new child, a cut line joined to the next |
| `ExitSettlesCalls` | an end reported late that forgets who waited |

Each property has a mutant: a small change of one definition, of the kind a
slip in the code would be, under which the same run refutes the property. The
mutants stand beside the definitions they change, marked `mutant`.

**Fairness.** `Connector!FairSpec`: the event loop does not stop: time passes, or
a timer that is due runs its continuation. As time does not pass over a timer
that is due, and none is due again at the same instant, every timer runs. An attempt under way is
ended at the latest by its own timeout. Nothing is assumed of upstreams,
callers or readers of a stream, and the phases `body` and `errtext`, which no
timer of the connector ends, are outside `CallsSettle`.
`Lifecycle!FairSpec`: the drain loop's timer fires and a process with nothing
open ends. `SettlingSpec`, used to refute only, adds that requests end, which
the connector's timeouts and Node's request timeout provide; so the process
that stays alive there does so for another reason. `McpClient!McpFairness`: Node
emits `exit` once for every child that ended, sooner or later; nothing is assumed
of the children, which need not answer or end, nor of when anybody calls
`start`, `stop` or `request`. The other models check safety only and assume no
fairness.

## 4. What does not hold

Found while translating; each is a run that ends in a counterexample.

* `router_first`: the pipeline's counter starts at 0 and the strategy subtracts
  one, so the first request of every round robin over two or more candidates
  finds nobody; likewise the lowest latency before the first latency is known.
  `RoutingIsExplained` shows these are the only two cases.
* `budget_reset`: an admin reset leaves the tracker's snapshot as it was; checks
  go on refusing until the day changes or the process restarts. The safe
  direction is what `SnapshotCoversRow` checks.
* `connector_rate`: retries are sent without a token, so the vendor may see more
  than the bucket's rate. `BurstBound` is what does hold.
* `lifecycle_exit`: nothing exits the process after the drain; a request with an
  empty body is never answered, and its connection keeps Node alive.
* `exchange_model`: every Gemini request has the model `<gemini>` in the IR
  (`clients/gemini-generatecontent.ts:70`), while dispatch requires, authorizes
  and routes by the model its body names (`dispatch/pipeline.ts:96`). The
  fingerprint is taken of the IR and the lookup does not compare virtual models,
  so the second of two such requests that name different models is served the
  first one's answer, although `ir/normalize.ts:114` says that another model id
  yields another hash. `CacheAnswersTheQuestion` shows that everything else of
  the question is the same, and for the other clients the model too.

Also seen, not part of a property: a rejection's headers are set after its answer
was ended (`dispatch/pipeline.ts:119-124`), which throws, so a 429 never carries
the `Retry-After` that `src/.monkeycode/specs/ai-gateway/requirements.md:109` asks
for (`WithRetryAfter` of `Dispatch`); amounts are whole numbers in `BudgetTracker`,
but where they are fractions the 80% line is a product in floating point, so that
1.20 + 1.20 of a cap of 3 does not warn (3 * 0.8 is 2.4000000000000004); a call let
in before the breaker opened is sent, and retried, while it is open; the hard
budget's 402 cannot occur because
the estimated cost is 0 (`dispatch/pipeline.ts:108`); usage rows are inserted
with a source that the table's CHECK refuses, and the failure is swallowed; a
semantic hit is found and not served; the comment at the top of
`storage/indexes.ts` speaks of a synchronisation with admin writes that does
not exist; the rate limiter's comment says sliding where windows are fixed.

Seen while translating the formats. The properties of `exchange` name these and
allow for nothing else:

* *Wenxin* has no system role, so `collapseSystemIntoUser` writes the system
  texts before the first user text - into the request itself. The body is built
  by dispatch and again by the connector (`dispatch/pipeline.ts:208`,
  `connector/http-connector.ts:81`), so the upstream reads them twice
  (`RequestIsKept`). The cache is not affected: its key was computed before.
* *Tool results* of Messages and GenerateContent clients come in a message of the
  user, whose results the OpenAI-like and Anthropic bodies do not look at; those
  of a Gemini client have no id. A choice of `none` becomes `auto` where
  Anthropic's protocol is involved (`ToolTrafficIsKept`).
* *Chat* arrays of content are not read; thinking is dropped by most; a
  Responses client is told of every answer that it is `completed`, cut off or
  not (`AnswerIsKept`).
* *Model names*: the body that goes upstream names the client's model, which is
  the virtual one, not the upstream's; for a Gemini client it names `<gemini>`,
  whatever model the client's own body named.
* *Fingerprint*: besides the model a Gemini client names, the stop sequences are
  not part of it, and `CacheAnswersTheQuestion` leaves them out, although
  `ir/normalize.ts:113` says that any semantic difference yields another hash.
* *Streams*: a request with `stream: true` is answered through `call`, whose
  parser refuses an event stream; `HttpConnector.stream` and the stream
  serializers are used by tests only. The Messages serializer opens a block with
  the first text, thinking or piece of arguments and does not send it
  (`StreamIsKept`). The Anthropic adapter looks for the stop reason of
  `message_delta` where the protocol does not have it. OpenAI's last chunk, of usage
  only, is dropped. A stream that mixes LF and CR LF would be cut differently
  depending on its chunks; `StreamsConfig` excludes it.

Seen while translating the catalog and the children of the MCP client:

* the protocol of a provider is read from the index and its URL and key from the
  row, so after an update dispatch may speak the old protocol to the new URL
  until the next start; nothing that routes reads `enabled`
  (`RoutedAsStored` says for which providers this is so);
* a sync whose list has two names with one normalized id, or an id of another
  provider's, fails and is rolled back; a sync that succeeds drops the models'
  memberships even if the same models come back;
* what is deleted through the admin API comes back with the next start if the
  configuration has it, and a seed whose id is taken is skipped;
* dispatch hands the connector the *encrypted* key (`dispatch/pipeline.ts:228`),
  which `adapters/types.ts:24` calls already decrypted;
* the end of an old child, reported after `start()` ran again, clears the new
  child and fails its requests; what the old child left in the buffer spoils the
  new one's first line (no property excludes this harm to the new child); a
  spawn that failed leaves the client in the state of a
  running one, and requests made then wait for ever, as do those a child never
  answers: there is no timeout. `AnswersAreTheirOwn` and `ExitSettlesCalls`
  hold all the same, which is what one may rely on.

## 5. Proofs

The `*Proofs` modules hold theorems of the same specifications that the runs
check, for any set of calls, keys, requests, ids or names and any configuration
that meets the named assumptions.

**Connector**, from `BreakerConfig`, `BucketConfig` and `ConnectorConfig`
(counts and durations are naturals, thresholds and units positive):

* `TypeCorrect`. The type invariant alone is not inductive for the attempt
  number: a retry adds one, so the invariant also says that a call that sleeps
  has attempts left, and that one that fetches has begun at least one, which its
  backoff is computed from (`CountedCall`).
* `BurstBounded`. Inductive: what was spent plus what is in the bucket is at
  most the capacity plus what was refilled up to the last refill (`BucketInv`);
  the bound follows because the last refill is not in the future.
* `ClosedBelowThreshold`, from an invariant on the stored statistics.
* `OpenAdmitsNoOne`, from `AdmissionInv` with `OpenedInThePast`: openings and
  admissions are never in the future, so a step that opens the breaker, which it
  does at the present instant, opens it after everybody who is in; and while it
  stays open nobody is let in.
* `ImplementsContract`: initial states map to initial states, and every step to
  a step of the contract or a stutter, under the mapping that reads the state
  through `maybeTransition`. The invariant it needs, `CountsTrials`, says that
  successes are counted in half-open only. A reset is a step of its own of the
  contract, because `oddResets` changes, and every other closing is shown to be
  the last success of a trial. The rest of the work is a tick that ends a cooldown:
  in the code nothing happens, in the contract the breaker becomes half-open.
* `OutcomesRecorded`: the recordings are the sum, over all calls, of what each
  owes the breaker. Every step is shown to change one call, by 0 or 1, and the
  recordings by as much (`StepCounts`), which needs `TallyInv`: a call that has
  not begun has no options and no attempts. That the sum follows its terms
  (`SumChanges`) is shown of the sum over the first n calls, by the least n for
  which it would fail: a set of numbers has a least one, which takes no induction
  theorem. It needs finitely many calls (`IsFiniteSet(Calls)`), which is all a
  process makes; without it a sum means nothing.
* `TripsAreEarned`, an action property, from `StreakInv`: while the breaker is
  closed, the failures it remembers are the last ones of the streak since the
  last success. Only of a closed breaker: a failed trial is not remembered, and
  what is remembered from before stays until a success closes it.

**Lifecycle**, from `LifecycleConfig` (finitely many requests, a timeout, a
positive interval). One invariant, `IInv`, is shown inductive and gives the four
theorems `TypeCorrect`, `CountIsExact`, `DatabaseOutlivesRequests` and
`DrainIsPrompt`. `DrainsBeforeClosing` cannot be shown alone: the loop closes
the database when the *count* is 0, so that nobody is under way needs the count
to be exact, which in turn needs that `Math.max(0, n - 1)` never hides a
countdown too many. `ClockInv` adds that no look is planned past the deadline by
a whole interval.

**Dispatch**, from `RateLimitConfig`, `CacheConfig` and `DispatchConfig`
(finitely many requests, any keys, limits, fingerprints and protocols).
`IInv` is inductive and gives `TypeCorrect`, `QuotaExact`, `QuotaKept` and
`HitsGenuine`. Its quota part, `WindowInv`, is stated for one window without
variables, so the same lemmas serve both dimensions: a window counts the
requests of *its* minute, nobody passed in a later one, and no minute is over
the limit. That is what a window left behind by an idle key needs: `QuotaIsExact`
speaks of the present minute only and is not inductive. `Unarrived` says that a
request passes the gates in its first step only, so nobody is counted twice.
Its cache part, `CacheInv`, ties every entry, live or expired, to the request
whose call brought it; a request's question and answer never change once over.

**Budget**, from `BudgetConfig`. The lemmas come first: what each part of
`commit()` does to one table and memory, up to and including the statement that
fails, is stated without variables (`ApplyOneFacts`, `ApplyPartFacts`), so that
the same facts serve a commit that completes and one that does not (`ApplyIs`,
`PartIs`). `IInv` is then inductive and gives `TypeCorrect`, `RowsAccountHolds`,
`SnapshotCovers`, `WarnsOnce` and `ThresholdHeard`. None of the last three can
be shown alone: a commit decides by its memory whether to warn, so that it warns
once needs `SnapOk`, that the memory knows of every warning; a restart or a
midnight loads the memory from the rows, so this needs `StoreOk`, that every
warning left its mark in the row; and for a warning that must be heard the
reverse of both is needed, that a mark stands for a warning unless its key is
among those whose warning failed or was reset away.

`OvershootBounded` has a hypothesis, `HasDearest`: some cost D is the greatest,
as one of finitely many is; else the bound of the property means nothing. Its
invariant, `OverInv`, leaves room for those still under way. If f requests are
in flight and at most n were at once, then for one of the f, whose check covered
c of its cost, the total plus the lesser of c and D plus (f - 1) D is at most the
cap plus (n - 1) D: that one has been looked at against the very total, give or
take what the others add. A request that commits moves its cost from the second
part to the first, one that joins is the one looked at last, and one that gives
up only makes room. `Dearest` times a number is wrapped in an operator
(`Times`, `Allowance`), so that the leaves are linear.

**Router**, from `AvailabilityConfig` and `CatalogConfig` (any models, any
tables, any fallback chains; `Nobody`, which stands for null, is no model).
`IInv` gives `TypeCorrect`, `ReportsMatched`, `RoundRobinFair`,
`RoutingExplained` and `MovesEarned`, the last an action property.

* `ReportsInv` ties an entry to the outcomes reported since it was made: one of
  its two streaks is 0, their difference is the streak that was reported, and it
  has a latency if and only if one was heard. So a move that looks at the entry
  looks at what happened (`MovesEarned`), and a virtual model that goes for the
  lowest latency picks nobody only if nobody has any (`RoutingExplained`).
* `RoundInv` ties the turns given to the counter. That no two candidates are more
  than a turn apart is not inductive. What is: going round from the place whose
  turn it is, the turns never decrease (`Even`, `TurnKeepsEven`). A decision adds
  one to the counter, which moves the place by one, past the end to the start
  (`PlaceMoves`, from the uniqueness of quotient and remainder).
* Both need that no candidate is named twice. Candidates are what a filter keeps
  of an array: elements of it, from different places (`KeptIs` of `ArrayProofs`,
  by induction over the array; `KeptDiffer`).

**Exchange**, from `StreamsConfig` and `MessagesConfig`: `ChunkingInvisible`, that
what a stream yields is what the lines so far hold, for every text that ends its
lines in one way, of any length and with any lines, cut anywhere. The property is
not inductive: what the next chunk yields depends on the buffer. `StreamInv` adds
what the buffer is (`Held`): there is a place in the text at which the reader of
the reference is between two events, what was heard is what it read up to there,
and the buffer is the text since, in which no event ends.

* A reader that reads on from such a place, over a text in which no event ends
  (`Quiet`), gives out no event with anything in it, and the lines it holds are as
  good as that text (`Scan`, by induction over the text). If one ends, it gives
  out that event, and is between two events again (`EventOver`). A blank line right
  after an event is where the two differ, and the event without lines yields
  nothing.
* The decoder takes one turn per event (`TurnAlong`), the first of those that
  `IndexOf` finds (`BoundaryIs`); as every turn takes away at least a token, as
  many turns as tokens leave no event in the buffer (`DecodedAlong`).
* What is yielded for several events is what is yielded for each, joined
  (`YieldedOn`); this is all the proof knows of the three adapters.

`CacheAnswers`, from the same assumptions and `ExchangeConfig`: an answer from the
cache is the answer to the question that was asked, of the model the client named
unless it is a Gemini client. Three things have to be shown.

* *Two requests of one fingerprint ask the same* (`FingerprintTells`). The
  fingerprint holds the normalized messages, the question the texts of the system
  messages and the turns. Normalizing joins system messages that follow each
  other, so the messages themselves may differ; but step by step along the
  messages (`NormalFolds`, `NormalOn`), what is joined keeps the texts that the
  system said and the turns (`NormalKeeps`), and both are recovered from the
  result. Empty texts, which normalizing drops, say nothing (`MeantSaid`).
* *An entry is what it claims to be.* `CacheInv` says of the entry that its
  fingerprint is the one of the request it was stored for, as that was parsed, and
  of a request under way that what was parsed is kept while the adapters change
  the request itself. That the messages are messages at all, which the laws of
  joining need, is shown of the four parsers (`ParsedSpoke`).
* *The model of the request is the one that was named* (`ModelParsed`), as three of
  the four parsers take it from the body; so an entry of one of them was answered
  by the model its fingerprint has (`OfTheNamed`), and the fingerprints agree in it.

`AnswerKept`, from the same assumptions: for every document, not only those of
the run, the texts and calls of an answer reach the client through each of the
adapters' `parseResponse` and each of the clients' `serializeResponse`.

* The text of some parts and the calls among them are each *joined piece by piece*
  (`SaidIsJoined`, `CalledJoins`): the whole is what the parts contribute, in order.
* Every conversion does one of three things, each with a law that says what it
  does to anything so joined: it leaves out parts that contribute nothing
  (`OnlyLike`), changes of a part what does not matter to it (`ThroughLike`), or
  joins several sequences of parts into one (`AllLike`). `OpenAISays`,
  `AnthropicSays`, `GeminiSays` take the adapters, `TextThenCallsSays`,
  `OutputItemSays`, `SpokenSays`, `GeminiPartsSay` the clients.
* An OpenAI-like answer is taken apart into its text and its calls, so the two are
  shown of each half and put together again (`TogetherSay`). Arguments are parsed
  twice on some ways, which changes nothing the second time (`ParsedTwice`).
* The losses are in the statement: a call that Anthropic gives no id or no name is
  no call (`Answered`), a Responses client is not told why an answer ended.

`StreamKept`, from `StreamsConfig`: for every stream, however long and cut
anywhere, the texts of its events reach the client once and in order. The invariant
(`TellsInv`) relates three things, what was heard, what was told and the
serializer's state: the texts told are the texts heard, but for the first one if
the client reads Messages, and then `outputItemId` is set exactly if there was a
first one (`Reaches`).

* For one event each serializer sends at most one, with its text, or, on Messages,
  opens a block and keeps it open (`EverySerializes`, from a lemma for each of the
  four). A text, a thinking, a call and an end may come in any order and
  together, so the state is any state.
* The texts of several events are joined piece by piece, and the calls are collected
  (`StreamJoins`), so one event more keeps `Tells` (`PassedOnTells`), and by
  induction over the turns of the consumer so do several (`PassedTells`).
* That what is yielded are events, with one text at most, is shown of the three
  adapters (`HeardIs`).

`RequestKept`, from the same assumptions and `ExchangeConfig`: for every body a client
may send and every upstream, what the client said is what the upstream reads. The
invariant (`WireInv`) says how the request came to be what it is - parsed,
changed by the first build, built a second time - and the rest is about the
conversions.

* Three sums are followed through them, each joined piece by piece: what the
  system says, what is said in turns, and all of it. A parser turns each message
  into one that says the same to the same (`ChatConveys`, `InputConveys`,
  `AnthropicConveys`, `GeminiConveys`), after the text of the system field
  (`AfterSystem`); together `ParsedSays`. An adapter turns each message into one
  that says the same in a role of the same kind (`OpenAICarries`,
  `AnthropicCarries`, `GeminiCarries`), or takes the system texts into a field of
  their own; together `BodySaysOn`.
* *Wenxin* writes into the first user's message. A sequence is cut at its first
  element of a kind (`FirstCuts`), and the sums are the sums of the pieces
  (`JoinsCut`); so the texts of the system end up right before what that user
  says (`CollapsedAt`), and building twice adds them twice, unless there was no
  text the first time to write them into (`WenxinSays`).
* It rests on what the parsers are given: the roles each protocol has, and that a
  content that is null has no text (`BodyOf`, the `IncomingBody` types). Nothing
  checks these types when a body arrives; a role a client's protocol does not have
  is not covered.

`ToolTrafficKept`, from the same assumptions and the same `WireInv`: for every body
and every upstream, the tools, the choice among them and the options arrive, and of
the conversation each call with its name and arguments, each result under its id,
once and in order, but for what `ToolTrafficIsKept` names as lost.

* Of the parts of one kind, what a reader takes from each is joined piece by piece
  (`Reads`, `ReadsJoins`); the calls are such a sum and so are the results
  (`TrafficIs`), of a content, and of all contents one after the other (`SentBy`,
  `PartsSent`).
* Between the two conversions stands what the upstream is *passed on* of a message of
  the IR (`PassedPart`): to Gemini every part of a turn, to the others an assistant's
  calls and a tool's result. A parser gives messages of which that is passed on what
  the client made (`ChatSends`, `InputSends`, `AnthropicSends`, `GeminiSends`,
  together `ParsedGives`); an adapter makes of a message one that has just that
  (`OpenAIConducts`, `AnthropicConducts`, `GeminiConducts`, together `BodyPasses`).
* An OpenAI-like body has one result to a tool's message, under the first id, with the
  texts of all of them. That loses nothing because a parser never makes a tool's
  message of more than one result, which had to be shown of the IR (`OneResult`).
* Wenxin's two collapses leave out and change system's and user's messages only,
  of which nothing is passed on (`CollapseSame`).

`TypeCorrect`, from the same assumptions and `ClientsConfig`, that the model name a
request of Gemini's protocol is given (`<gemini>`) is one of `Models`. What is parsed
is a request of the IR whose messages have the shape the adapters count on
(`ParsedSpoke`), and it stays one when building a body changes it (`MarkedSpoke`,
`CollapseTyped`); a body that is built of it is one of the protocols (`BodyWired`),
and what is parsed of a document a response (`ResponseTyped`), so what is stored is an
entry (`FingerprintTyped`: merging and normalizing messages leaves messages). The type
invariant alone is not inductive: a body is built of whatever waits, and only `WireInv`
says that this is what was asked, parsed and marked; the buffer is a sequence of tokens
because `StreamInv` says where the part that is read ends, and the types of what a
client is told, and of the serializer's state, come from what it was told so far
(`TellsInv`). So `TypeInv` is these three and the types.

**Catalog**, from `CatalogConfig`. `CatalogIsConsistent` is inductive
(`CatalogConsistent`). What each table operation does is a lemma on partial
functions; a write about a provider then either touches that provider's rows
only (`TouchesOnly`) or, like a sync that is refused, none. `RoutedAsStoredHolds` rests
on that and on `Idle`: a process that does not serve has no indexes and no call
under way, so what `Serve` builds is all there is. It needs the consistency too:
an offer agrees with its provider's row only if every model has one.

**Prompts**, from `PromptsConfig`: `LatestIsPublished` is inductive, one lemma
per operation (`LatestIsPublishedHolds`).

**McpClient**, from `McpConfig`: `AnswersAreTheirOwnHolds`. Its invariant says
that ids count the requests and that whatever a child read, wrote or left in the
buffer bears one number as id and request, so an answer that is heard at all
settles the request of that number - also when it is late, of another child, or
was cut and passed over. That what is kept of the buffer is a sequence at all
needs the last line end of a text, which is found with the library's theorem on
minimal elements (`Greatest`).

Arrays: the library's induction theorems take a predicate, which cannot be given
to the provers, but a *set* can. `Least`, that a set of naturals has a least
element, follows from the well-foundedness of `<`; `Grows`, that a set of
sequences that has the empty one and with each the ones that are longer by one has
all of them, follows from that. For each fold the proofs show one law, what one
more element does to the result (`KeptOn`, `FlattenOn`, `ReferenceOn`, from
`FoldsExist` and `FoldsOn`), and use only it. What the proofs about the formats need
of sequences in general is here too: what is joined piece by piece (`Joins`), of the
elements of one kind (`AmongJoins`) or of several that each element is turned into
(`AllJoins`), and what cutting a sequence at an element does to such a sum (`JoinsCut`).

**Only model-checked**: liveness (`CallsSettle`, `ShutdownCompletes`,
`ExitSettlesCalls`), which with `ENABLED` is out of the prover's reach. Every
invariant and every action property that a passing run checks is also a theorem.

## 6. Plan

In this order; a module is written so that it can be proved about, with no
recursive operator where a theorem is meant.

1. *Connector, budget, router, lifecycle* - done, as above.
2. *Rate limit, exact cache, dispatch* - done, as above.
3. *Formats, streams and the exchange* - done, as above.
4. *Catalog, prompts, MCP client* - done, as above.
5. *Proofs of every safety property the runs check* - done, as above.
6. Should the code come to call them: the loop that sends a stream to its
   client, `BudgetTracker.commit` from dispatch, feedback to the availability
   cache, the sweep of the cache.

## 7. Not modelled, and why

* Of the conversions: ids and dates made up for an answer, headers, paths and
  query strings, the fields of tool schemas, images (every client drops them).
* The rendering of a template, a substitution in a text; `MCPManager`, a map
  from names to clients; the list of tools a client keeps, also past a restart of its
  child. A write to a child that has just ended is taken to vanish; Node may also
  raise `EPIPE` on its stream, which nobody handles and which ends the gateway.
* The append-only tables of usage, events, request logs and probes; the clearing
  of the logs; the pages of the admin API that only read.
* SQLite: assumed, a statement either takes effect or throws.
* Observability, guardrails, crypto, logger: no control flow that another
  component depends on, or a thin layer over Node.
* Configuration and command line: reading and validating the file; what it seeds
  is a constant of `Catalog`, what else reaches the server one of the other modules.
* Inside what is modelled: fractional tokens and milliseconds (units and
  ticks), a clock set backwards, the pace of a stream after its headers,
  changes of a key's caps while it is used, prices and switches of models; the
  semantic, continuation and prompt caches, of which no answer
  reaches a client.
