# Verification of the dictionary API

TLA+ models, model-checking runs and TLAPS proofs for the service in `src/`: a Go HTTP API over an ECDICT
dictionary in SQLite, with analytics, feedback, LLM, speech and upload endpoints. Each module is
translated from the Go source (or the SQL of `migrations/schema.sql`); `PROJECT.json` maps every
definition to its lines.

## 1. Inventory

| component | source | state it keeps | operations |
|---|---|---|---|
| rate limiter | `internal/ratelimit` | buckets per client key, last sweep, behind one mutex | `Check` (sweeps inside), `Middleware` |
| client address | `internal/ratelimit` | trusted prefixes (constant) | `ClientIP` |
| LLM proxy | `internal/llmproxy`, `httpapi/ai.go` | slot semaphore, day and count of the budget | `Forward`, `takeBudget`, `Sanitize`, `BudgetResetIn` |
| feedback | `internal/feedback`, `httpapi/feedback.go` | rows of `feedback_submissions`, cached tenant token | `Submit`, `tenantAccessToken`, `submitWithToken`, `Normalize` |
| TTS synthesis | `internal/tts/service.go` | cache directory, table of flights | `Synthesize`, `callUpstream`, `writeFileAtomic` |
| TTS janitor | `internal/tts/cache.go` | nothing of its own; the cache directory | `SweepCache`, `RunCacheJanitor` |
| ASR | `internal/asr` | none between requests | `Recognize` (submit, poll) |
| analytics | `internal/analytics` | rows of `analytics_events` | `InsertBatch`, `PurgeOlderThan`, `RunRetention` |
| dictionary | `internal/repo`, `httpapi/dict.go` | `words`, `words_fts` | `UpsertWords`, `GetByWord`, `Suggest`, `Search` |
| importer | `cmd/importer` | position in the file, batch | `importCSV` |
| upload | `internal/upload` | none | `Upload`, `DetectImage` |
| HTTP layer | `internal/httpapi` | per request only | router, request id, access log, recovery, envelope |
| lifecycle | `cmd/api` | signal context, server | start, background jobs, shutdown |
| configuration, SQLite bootstrap, errors, deployment | `internal/config`, `internal/db`, `internal/apperr`, `Dockerfile`, ... | constant after start | |

**How they interact.** Every POST route and the searches pass through a limiter of their own (search and
suggest share one), keyed by the client's address. Handlers call one service each. The services share only
the SQLite file (feedback, analytics, dictionary: different tables, one write lock) and, for speech, the
cache directory (synthesis and janitor). The importer is a process of its own that writes the file the API
reads. Retention and janitor are goroutines beside the server. Outside are Ark, Volcengine, Feishu, Qiniu,
the file system and the clock.

**What is hard, and what makes each component correct.**

- *Rate limiter*: clock read before the mutex; buckets forgotten by sweeps; a full table. Correct: never
  more than burst plus earned, a bounded table, a `Retry-After` that can be relied on.
- *LLM proxy*: slots given back on every path; the day read before the budget's mutex. Correct: no slot
  leaks, the daily cap, no refusal while budget is left.
- *Feedback*: reserve, forward, release on failure, over an unreliable upstream, with retries and crashes
  of process and machine. Correct: no duplicate without a loss, no false acknowledgement without a cause,
  and a client that keeps retrying gets through.
- *TTS synthesis*: cache check, flight table, detached call, atomic write, waiters that give up. Correct:
  one call per key at a time, no flight left behind, no truncated audio but from a file that a power loss
  cut, every waiter answered.
- *TTS janitor*: a walk and removals while files are read, written and touched. Correct: least recently
  used first, no more than needed, the target met but for files it cannot read or remove, live temporary
  files untouched, orphans removed.
- *Analytics*: retries of batches against a purge that forgets ids. Correct: an event is counted once, an
  answer reports what was stored, a purge ends and is complete.
- *Client address*: a header every hop may write. Correct: a client outside the trusted networks is
  limited by its own address, whatever it claims.
- *Requests* (HTTP layer, ASR, upload, the copy of a stream): four kinds of deadline per request, clients
  that stall or leave, panics, streams that break. Correct: an answer reaches every patient client, looks
  complete only when it is, a recognition says what the service said, and every request ends.
- *Lifecycle and configuration*: groups of variables checked in two places; SIGTERM at any point. Correct:
  what was configured is served or nothing starts; handlers get their time, unless the listener breaks;
  the process stops by itself.
- *Dictionary and importer*: an index kept by triggers, searches of two statements, ranges of code points,
  imports that die. Correct: the index is in step, a search of several terms finds exactly what it means,
  a completed import leaves its file in the table.

`PROJECT.json` lists the hazards one by one at their lines, with the properties that cover them, or why
none does.

## 2. Modules

| module | models | state and actions |
|---|---|---|
| `RateBudget` | the limiter's promise | per key, the instants of its admissions; `Grant` |
| `RateLimiter` | `Limiter` | a request is `Arrive` (clock read) and then `Admit`, `Deny` or `TurnAway` (the locked section, sweeps included) |
| `LLMProxy` | `Forward`, `takeBudget` | one action per stage of a request, the day read and the count taken apart; `Midnight` |
| `FeedbackSubmit` | `Submit` and the token cache | per handler: reserve, token, fetch, store, post, undo; lost answers, failing deletes, crashes, token rotation; a database whose last commits a power loss takes back (`Sync`, `PowerLoss`) |
| `Synthesize` | `Synthesize` | per handler: cache read, flight lock, call, write, unregister, close; wait and give up; eviction; a power loss that leaves each file whole, cut, empty or gone |
| `CacheJanitor` | `SweepCache` and what runs beside it | walk file by file, skip what cannot be read, decide, remove one by one (removals fail); touch, create, rename, crash |
| `Analytics` | `InsertBatch`, `PurgeOlderThan`, `RunRetention` | receive (reject, or split what is well-formed by the time window), begin, insert row by row, commit or fail, retry; purge batch by batch; crash |
| `Dictionary` | importer, repository, triggers | read row, begin, upsert row by row, commit, die; lookup, count, select; the terms, phrases and prefixes of a full-text query (`Terms`, `Hit`) |
| `ClientAddress` | `IPResolver.ClientIP` | operators: `Outermost`, `ClientIP`; a request's way through trusted proxies (`Peer`, `Hops`) as the reference |
| `Requests` | `NewRouter`, middleware, handlers, `Recognize`, `UploadImage`, `copyFlushing` | one connection: arrive, refuse, read the body, call, poll, stream chunk by chunk, write audio; deadlines, a slow database, panic, client leaves, `Tick` |
| `Lifecycle` | `main`, `run`, `buildDeps`, `config.Load`, `OpenSQLite`, `ApplySchema` | one action per stage with its failures, a listener that breaks while it serves included; `Terminate` anywhere; drain, give up, close; `Tick` from the signal on |
| `MC*` | instances for TLC | constants, symmetry |
| `*Proofs` | theorems | see section 4 |

`RateLimiter` instantiates `RateBudget` with `Times <- 0..MaxClock` and states its `Spec` as a property:
the limiter refines the abstract budget, step by step. `Requests` extends `ClientAddress`: the key the
limiter gets is computed there from the request's whole way. Requests share no state besides what the
other modules model, so one connection with all its interleavings of handler, client, services and clock
is enough. `Lifecycle` reduces handlers to being at work, and `Requests` says how long that may be.
`Synthesize` and `CacheJanitor` share no names, so that one proof module can be about both; `CacheJanitor`
marks its specification's parts `JanitorInit`, `JanitorNext`, `JanitorSpec`.

What was abstracted: texts, tokens, audio, JSON and log lines are model values or members of small sets;
`Sanitize` and `normalizeEvent` are accept-or-reject, and the time window, which the code tests outside
`normalizeEvent`, is compared with the clock as in the code; searches leave out `ORDER BY` and `LIMIT`; a
read of a cached file and its `Chtimes` are one step. The limiter counts in units of 1/Minute token, so
the code's float arithmetic becomes exact; a rounding error of the floats themselves is outside the model.
What `FTSMatch` makes of a query is modelled: its terms, each a phrase whose last token is a prefix, all
of them required, in any column. How FTS5 cuts a text into tokens and what `LIKE` takes for a match are
parameters (`Tokens`, `Contains`), which the proofs leave open. One importer runs at a time. `Requests`
counts time in units of five seconds and rounds every deadline up, and the time a client is owed
(`Patience`) down; what happens in the unit of a deadline may come before or after it. The backend of an
LLM, TTS, upload or speech route is a call of at most the time its client or context allows. The routes
that use the database (dictionary, analytics, and feedback, around its Feishu calls) pass the request's
own context on, without a deadline, and wait for a connection of the pool as long as it takes: their
statements may last any time, which the model cuts at a bound after the last deadline (`LateEnough`).
`Lifecycle` reduces the environment to which variables are set and whether they parse.

## 3. Runs

Passing runs check every reachable state of the instance, deadlock included.

| run | instance | what it shows |
|---|---|---|
| `RateLimiter` | 2 keys, 2 requests, capacity 2, a minute of 3 ticks, room for 1 key, lag 1, 7 ticks | rate, bounded table, `Retry-After`, refinement of `RateBudget`, refusals only when the table is busy |
| `LLMProxy` | 3 requests, 2 slots, budget 2, 3 days | slots, cap unless readings race midnight, the exact bound of the overrun, refusals, slots come back |
| `FeedbackSubmit` | 3 handlers, 1 id, 3 faults, 2 tokens | exclusive reservation, records bounded by what was lost, false acknowledgements explained, retries get through |
| `Synthesize` | 3 handlers, 1 key and a long text | one flight per key, none orphaned, audio genuine or read from a cut file, waiters answered |
| `CacheJanitor` | 3 files of sizes 4, 8, 10, cap 20, 1 writer, 5 uses, 2 faults | order and amount of eviction, target, honest total, temporary files, with entries unread and removals that fail |
| `Analytics` | 2 handlers, 2 events, batches of 2, purge of 1, ages 1 and 1, retention 3, lag 1, 5 days | counted once, every answer reports what appeared, a purge ends and is complete |
| `Dictionary` | 2 releases of 5 rows, batches of 2, code points 0-5 (0 a space, 1 an apostrophe, 3 the surrogates), 6 queries, 1 reader | index in step, exact searches, totals, converging imports |
| `Requests` | all 9 routes, 4 addresses of which 2 are proxies, 2 header entries claimed, 2 proxies passed, units of 5 s, LLM timeout 180 s | the client's own address, answers in time unless body or database were slow, complete answers, justified recognitions, every request ends |
| `Lifecycle` | 2 handlers, ticks 1 (lock), 3 (shutdown), 4 (grace period), every environment | shutdown honoured unless the listener broke, never killed, started as configured |

The bounds are small but reach the interesting cases: a table of one key is full with the second client; a
lag of 1 is enough to apply two readings in the wrong order; a retention of 3 is exactly age, future and
lag together (with 2, `CountedOnce` without its condition fails); a budget of 2 over two midnights lets
the counter be reset in both directions and reaches the bound of `OverrunBounded`; three faults allow a
lost answer, a crash and a power loss, in any order, and ids do not touch each other, so one with three
submitters says more than two with two; two faults of the janitor let one sweep skip an entry and fail to
remove another, or a removal fail twice; the three handlers of `Synthesize` are a leader, a waiter and a
latecomer; the files have rows that collide in lower case, a row without a word, a last batch that is not
full, and prefixes that carry at the greatest code point and jump the surrogates, and the queries a query
of two terms and a phrase of two tokens. One reader suffices for the searches because readers share
nothing and write nothing. Two claimed entries and two proxies put garbage, a forged address and a forged
proxy on either side of the true one; 5 s divides or separates every constant of the deadlines. The ticks
of `Lifecycle` keep the order of 5, 15 and 20 s. `Lifecycle` switches the deadlock check off: the process
is meant to stop. Every property has a mutant of the code that TLC finds violating it; `PurgeIsComplete`
has two, a purge that ends early and one that never does.

**Runs that end in a counterexample.** Each checks one sentence of the repository, literally:

| run | sentence | why the code does not keep it |
|---|---|---|
| `LLMProxyDailyCap` | "caps forwarded requests per UTC day" (`proxy.go:59`) | readings of the day that cross midnight out of order reset the counter |
| `FeedbackAcksAreTrue` | "already submitted successfully is acknowledged" (`feedback/service.go:98`) | the row is there while the submission is in flight, and it may fail |
| `FeedbackForwardedAtMostOnce` | "forwarded to Feishu at most once" (`schema.sql:78`) | a lost answer releases the reservation |

All are narrow windows; for each, a passing run states what does hold (`CapUnlessRaced` and
`OverrunBounded`, `FalseAckExplained`, `RecordsBounded`).

**Observations** made while modelling, which no run is spent on:

- A fresh client that bursts can be denied a little early: a reading of the clock older than the bucket's
  last use takes tokens away (`ratelimit.go:184`). `RateBound` is the direction that matters.
- A request that missed the cache before a leader wrote it, and takes the flight lock after the leader has
  unregistered, makes a second upstream call, for the cache is not read again (`tts/service.go:159`).
  `OneFlightPerKey` is what holds.
- A stream that breaks after its header was relayed ends with a clean end of the chunked answer
  (`llmproxy/proxy.go:303-306`), and to the client it looks complete; `proxy.go:246` says "back
  unchanged". `CompleteUnlessBroken` is what holds: this is the only way.
- The proxy's deadlines suit a body that arrives within 10 s: a slower one (90 s are allowed) may lose the
  answer of a long call (`Patience`). A feedback's two Feishu calls of 12 s leave its statements 6 s of
  the server's `WriteTimeout` of 30 s, and nothing holds them to it.
- A cached file is written beside and renamed, but never synced (`tts/service.go:284-306`). A power loss
  may leave a file that is not empty and yet cut, and the read takes any file that is not empty
  (`tts/service.go:152`): the cut audio is served, and each hit keeps it young, until it is evicted.
  `AudioIsGenuine` says that this is the only way.
- The dictionary, analytics and feedback routes have no deadline for their statements (`dict.go:53`, `82`,
  `111`, `analytics.go:64`); `busy_timeout` bounds one wait for a lock. Their answer may miss the server's
  `WriteTimeout` for slow statements alone, which `LateOnlyAfterSlowBody` excepts.
- A listener that breaks while the server runs ends the process at once (`main.go:110-113`): the handlers
  at work are not drained.
- A search term of punctuation only becomes a phrase without tokens, which matches nothing, and so does
  every query that contains it (`word_repo.go:229-235`).
- A search's total and its items come from two statements: an import that commits between them makes them
  disagree (`TotalAgrees` excepts that, and nothing else).
- `/v1/ready` "reports which optional features are configured" but leaves out speech recognition
  (`httpapi/dict.go:24`).

**Fairness.** `LLMProxy`, `Synthesize`: weak fairness of each request's own steps, for Go schedules every
runnable goroutine and every upstream call has a timeout, so it ends. `CacheJanitor`: weak fairness of the
sweep (a ticker), the clock and writers; removals fail finitely often (`MaxFaults`). `FeedbackSubmit`: the
same for handlers and for the expiry of a cached token; and, for the liveness of retries only, strong
fairness of the client's retry and of Feishu answering: a client that keeps trying, and a Feishu that
works infinitely often, as `RetriesGetThrough` says. `Requests`: weak fairness of the handler's start, of
the runtime's timers and of the clock, and, on the routes without a deadline, of SQLite ending a statement
(`StatementEnds`). Neither the client nor any service owes a step: `EveryRequestEnds` rests on the
deadlines and, for the database routes, on SQLite. `RateLimiter`, `Analytics`, `Dictionary` and
`Lifecycle` state no liveness and need no fairness (`NeverKilled` bounds the time to stop, as a safety
property of the clock).

## 4. Proofs

Safety, for every value of the constants that meets the named assumptions of the modules. Each proof is
the induction `Init => IInv`, `IInv /\ [Next]_vars => IInv'`, `IInv => P`.

Every proof module proves its module's types (`TypeCorrect`; `FlightsTyped` and `JanitorTyped` in
`TTSProofs`), on which the rest builds. Every invariant and action property of the passing runs is stated
by a theorem. The strengthenings below were checked with TLC before they were proved.

- `RateLimiterProofs`: `RateIsBounded`, `ImplementsBudget`, `TableIsBounded`, `TurnedAwayJustly`,
  `RetryAfterIsHonoured`. The bound is not inductive: it says nothing of the bucket. `IInv` adds that
  waiting readings are at most `MaxLag` old, and an account per key: what a bucket (or, if it was
  forgotten, a full one) holds never exceeds what the admissions so far leave of burst and earnings.
  Assumption: a goroutine waits for the mutex at most half of the sweep's slack of a second
  (`LagAssumption`); it is what makes forgetting a bucket harmless. The size of the table needs an
  induction of its own, over finite sets only. The promise of `Retry-After` rests on `PromiseKept`: what a
  bucket holds and what it earns until the instant promised is at least a token. A reading out of order
  takes tokens away but moves the bucket's last use back as well, and that is earned again.
- `LLMProxyProofs`: `SlotsNeverLeak`, `CapHolds`, `OverrunIsBounded`, `RefusalsJustified`. `IInv` ties the
  counter to what was forwarded on its day as long as no reading raced midnight, and bounds it by it in
  any case. The overrun needs an account of what may still happen (`OverInv`). For today: what was taken,
  what is left of the count, and a whole budget for each request that holds a reading of an earlier day,
  for each may start the counter again. For a day that is over: what was taken, and a unit for each
  request that still holds a reading of it. All these requests hold a slot, so `MaxConcurrent` bounds
  both.
- `FeedbackSubmitProofs`: `ReservationExclusive`, `RecordsAreBounded`, `AcksExplained`. The strengthening
  is that an id without a row, or whose row somebody is submitting, has no record except those whose
  answer or row was lost (`ReservedMeansNone`). It survives a power loss because that counts the rows it
  takes.
- `TTSProofs`, of both parts of speech synthesis. Of `Synthesize`: `FlightsExclusive`, `FlightsLed`,
  `AudioGenuine`. The invariant is the conjunction of the three, which need each other (a waiter's audio
  is its leader's), with what each place of a handler says about its result; what a flight shares is
  genuine, for it comes from the provider, and only a read of a damaged file yields cut audio. Of
  `CacheJanitor`: `LiveTempsAreSafe`, `TotalsAreHonest`, `EvictsOnlyWhenFull`, `EvictsOldest`,
  `SweepsMeetTheCap`. Their invariant `JanitorInv` says that no use is in the future, that a temporary
  file being written is younger than the janitor's hour and one marked for removal is not, that a walk's
  total is the sum of what it listed, and what each phase of a sweep says of the directory, of what it saw
  and of what it missed. Sums over sets of files are defined by a fold, and what the proofs need of them
  (`SumUnique`, `SumOut`, `BytesGrow`) is shown by a smallest counterexample. Assumptions: a file has at
  least a byte, temporary files have names of their own, and, in the model's `Tick`, a write takes less
  than the janitor's hour.
- `RequestsProofs`: `LimitedByOwnAddress`, for every claim and every chain of proxies: the walk from the
  right passes the proxies and stops at the entry the first of them added, so the claim is never looked at
  (`OutermostIs`, `AddressResolved`). `CompleteAnswers` and `RecognitionsJustified` hold for every unit of
  time and timeout, and even clocks that tick irregularly. `LateAnswersExplained` too holds for every unit
  and timeout: a client that stays gets an answer unless its body was slow, or its route is one of the
  database's and the statements were. Its invariant `Timed` bounds how long each place may hold the
  request, and `Spare` does the arithmetic: for each route with a deadline, the longest call and the
  patience stated for it fit into the write deadline, however coarse the unit.
- `LifecycleProofs`: `DrainIsHonoured` (unless the listener broke), `StopsInTime`,
  `AcceptedConfigurationServes`. `Timing` says what each stage knows of the clock; `AcceptedIsBuildable`
  that the checks of `Load` are those of the constructors. Assumption: the lock's wait and the shutdown
  timeout are each below the grace period, as the comment on `ShutdownTimeout` asks.
- `AnalyticsProofs`: `EventsCountedOnce`, `AcceptedCountIsTrue`, `PurgeLeavesNothingOld`. For the first,
  `IInv` remembers that an event whose row is gone is already too old for any reading of the clock still
  in use; the open transaction stages only what the table lacks. Assumption in the property itself:
  retention of at least age plus future plus lag. The configuration allows shorter ones
  (`ANALYTICS_RETENTION_DAYS`); the property then promises nothing. The module assumes finitely many
  events, so that rows can be counted. The second needs `Tally`, that the count of an open transaction is
  the number of rows it stages, none of which the table has; it holds of every answer, those of duplicates
  and failures included. The third that a purge ends with a `DELETE` that was not full, whose own snapshot
  had no more rows as old, and that each full one before it took rows off a number (`left`) counted at the
  purge's start, which `Fewer` keeps at or above what is still old: no purge goes on for ever.
- `DictionaryProofs`: `IndexNeverStale`, `TotalsAgree`, `SearchesExact`, `ImportsConverge`. The first
  needs that ids and words are unique, so that the deleted posting is no other row's. The second, that a
  search's total is the number of its matches unless a commit came between its two statements, needs that
  the index counts a posting for each row of the join (`TotalOfSelected`). The third rests on the index
  and on `PrefixRangeExact`, that the range of code points a prefix is turned into holds exactly the words
  with the prefix; its proof takes the first place where word and prefix differ, by well-founded
  induction. It holds for any tokenizer and any `LIKE`, for a posting holds the texts of its row. The last
  rests on `Progress`: of the lines read so far, each that is the last for its word is the last for it in
  the batch, or is in the table and the batch has none. Assumption: spellings and queries are sequences of
  valid code points (`WellFormedText`; the handlers refuse invalid UTF-8, and the dataset has none).

Only model-checked are the five liveness properties (`SlotsComeBack`, `RetriesGetThrough`,
`WaitersAnswered`, `OrphansGo`, `EveryRequestEnds`): liveness under fairness is out of the prover's reach.

## 5. Not modelled

`Sanitize`, `Record.Normalize`, `DetectImage`, `NormalizeKeyPrefix`, `EscapeLike` and `ValidatePagination`
are pure functions of one input, mostly of strings: the models take their result, accepted or rejected, as
an input. `BudgetResetIn`, the envelope, request ids, log lines, the health checks and the `-healthcheck`
mode are formatting or a single read. `apperr` and deployment hold no logic.

Not covered either: a power loss that takes back analytics events (a client that was told "accepted" does
not send them again; the code promises nothing there), a panic inside the leader of a synthesis, the pool
of eight SQLite connections, a `CacheMaxBytes` of 0 (no cap: nothing is ever swept, temporary files
included), and the rounding of floats in the limiter. Retention and janitor are not awaited at shutdown;
for the database and the directory that is a crash, which their modules have.

## 6. Plan

Done, in this order: limiter and its abstract budget, LLM proxy, feedback, synthesis, janitor, analytics,
dictionary with importer; then client address, requests and lifecycle, the power loss of the feedback
ledger, and the proofs of section 4.

What would come next: a composition of `Synthesize` and `CacheJanitor` over one directory, in which the
janitor's removal is the eviction `Synthesize` allows; an abstract specification of the budget of
`LLMProxy` and of the feedback ledger, to state what they promise without their stages; `Sanitize` as an
operator on records of fields (the whitelist and the clamp) against its documented result.

## 7. Running

    tlc -workers 2 -config RateLimiter.cfg MCRateLimiter.tla
    tlapm RateLimiterProofs.tla
