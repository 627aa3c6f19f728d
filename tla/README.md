# A verification project for gateway-a

gateway-a is an AI gateway in Go: it authenticates chat-completion requests, checks a
tenant's daily token quota, forwards them to an upstream LLM behind a circuit breaker,
streams the answer back, and books the tokens used.  Around that it carries a Redis rate
limiter, a Redis task queue with a worker pool, an audit log and a set of middlewares.

This directory holds TLA+ modules translated from the Go source, TLC configurations that
check them on small instances, and theorems TLAPS proves for every value of the constants.
`PROJECT.json` says which lines of the source each definition stands for.  Run
`tlc -config UsageFaults.cfg MCUsageRecorder.tla` and `tlapm UsageRecorderProofs.tla`, and the
others alike.

## 1. Inventory

| Component | Source | State it keeps | Operations |
|---|---|---|---|
| Usage recorder | `internal/handler/helpers.go`, `internal/model/usage.go` | table `usage_tracks`, file `usage_deadletter.log` | `recordUsage`, `recordUsageWithRetry`, `writeUsageDeadLetter`, `ProcessUsageDeadLetter` |
| Chat handler, quota check | `internal/handler/llm.go`, `helpers.go`, `internal/tokenizer` | none but the request | `ChatCompletion`, `checkQuota`, the two response paths, token estimates |
| Upstream client | `internal/handler/llm_client.go` | none but the call | `ChatCompletion` with retries, `StreamChatCompletion`, error classification |
| Circuit breaker | `middleware/circuitbreaker/circuit.go` | six atomics and a mutex | `Call`, `allowRequest`, `recordFailure`, `recordSuccess`, `transitionTo`, `Reset` |
| Task queue, workers | `pkg/queue`, `internal/handler/queue.go` | Redis lists, job records | `Enqueue`, `Dequeue`, `Start`, `Complete`, `Fail`, worker loop, `Stop`, `Close` |
| Token bucket | `middleware/ratelimit/token_bucket.go` | Redis hashes with expiry | `Check`, `GetTokens`, `Reset` |
| Rate limit middlewares | `ratelimit/middleware.go`, `ratelimit/composite.go` | the limiter and its Redis client, if it has one | `Middleware`, `MiddlewareWithRedis`, `CompositeMiddleware` |
| Audit log | `middleware/audit/audit.go` | channel, batch, file; or a slice | `Save`, `writeLoop`, `Close`, middleware |
| Breaker and pool middlewares | `circuitbreaker/middleware.go`, `connectionpool/*.go` | counters | one handler each |
| Server and process | `internal/server/server.go`, `cmd/main.go` | what starts and stops the rest | `NewServer`, `Start`, `Shutdown`, `main` |
| Request id, security, CORS | `middleware/requestid`, `security` | none | headers, and the answer to a preflight |
| Request validation | `middleware/validation/validation.go` | none | `ValidateRequest` over four schemas, the middleware |
| WASM plugins | `wasm/` | map of plugins | load, call, unload |
| Clients, configuration, metrics, logging | `pkg/redis`, `pkg/database`, `config`, `internal/metrics`, `internal/logging` | connections | input and output |

**Interactions.**  A request passes the middleware chain and reaches the chat handler.  The
handler reads the usage table twice (`checkQuota`), calls the client, which runs inside
`Call` of one breaker shared by all requests, answers, and starts a goroutine that writes
the table.  The table is shared with `ProcessUsageDeadLetter` and every other gateway.  The
queue's handlers and workers meet only in Redis.  `Shutdown` stops the workers, closes the
queue, then drains HTTP; `main` closes the database last and waits for no recorder.

**What is hard here.**

- *Read, then write.*  UPDATE then INSERT in the recorder; check, call and record in the
  handler; load, compare and add in the breaker; read, replay and rewrite in the
  dead-letter run.
- *Lost answers.*  A retry after an UPDATE that was applied; a POST whose work was done; an
  RPUSH sent twice.
- *Crashes* between a pop and its handler, between a row and the rewritten file.
- *Clocks.*  Midnight between two attempts; gateways that disagree about the time.
- *Returns that are taken for refusals.*  A Hertz handler that returns without `Abort` lets the
  rest of the chain run, and one that panics is answered 500 by the framework.
- *Things that must end.*  Recorders, streams, workers without Redis, batches that never
  fill.

What makes each part correct: the recorder books a response once for each claim it has on the
table, and again only where an answer was lost, a process died or runs overlapped; it leaves a
dead letter until that is booked; the quota is overshot by a bounded amount; the client bills
what it answered and repeats only what it may; the breaker counts each call once; a job runs at
most as often as it was pushed and the pool drains its list; a bucket admits what its rate
allows, whatever the clocks say; a preflight costs nothing, every request is answered and every
answer carries the headers of the chain; validation refuses what breaks a rule of its schema; an
accepted audit event is written, in order.

## 2. Modules

| Module | Models | Composes |
|---|---|---|
| `UsageStore` | the table as its rows in primary-key order, `Update`, `Insert` | |
| `UsageRecorder` | recorders, dead-letter file, reprocessing, outages, midnight, crashes | `UsageStore` |
| `UsageLedger` | the abstract account: claims on it, each used up by one booking, and the mishaps that renew one | |
| `UsageAccounts` | who may still book a response, read off recorders, file and runs: the refinement mapping | `UsageRecorder`, `UsageLedger` |
| `QuotaGate` | the chat handler from authentication to the start of the recorder | `UsageRecorder` |
| `CircuitBreaker` | `Call`, one atomic access at a time | |
| `UpstreamClient` | retries, streaming and the handlers' answers inside `Call` | `CircuitBreaker`, which it refines |
| `TaskQueue` | queue, handlers, workers, `Stop`, `Close`, restarts | |
| `TokenBucket` | the two Lua scripts, expiry, clocks of several gateways | |
| `Validation` | `ValidateRequest` and the four schemas, as operators | |
| `MiddlewareChain` | Hertz's handler loop over seven middlewares and the route's handler | `TokenBucket`, which it refines, `Validation` |
| `AuditLog` | middleware, `Save`, channel, writer, file, `Close`, restarts | |
| `*Proofs` | theorems about the module of that name; `UpstreamClientProofs` about `CircuitBreaker` too | that module |
| `MC*` | values of the constants for TLC | that module |

How state and actions correspond to the code:

**UsageStore, UsageRecorder.**  `rows` is the table; `added[r]` counts how often the tokens
of response `r` were added to a row, so the stored total is a formal sum and "billed twice"
can be told from "billed once".  `pc[r]` is the line a recorder is at: `start` takes the date
(`BeginAttempt`, helpers.go:269), `update` and `insert` are the two statements of one attempt.
All three are separate because nothing puts them in a transaction, so midnight can fall between
any two of them, and a booking may reach the row of a day that is over.  `recDay[r]` is the
local `today`, taken anew on each attempt.  A failed attempt goes through
`NextAttempt`; the back-off's length plays no part.  `lostAck` is a statement that was
applied and whose answer was not received.  `ReadLog`, `NextLine`, `ReplayLine`, `TruncateLog`
and `RewriteLog` are the steps of `ProcessUsageDeadLetter`; `NextLine` takes the date of a line
(helpers.go:402) and `ReplayLine` is its UPDATE (403).  Nothing locks the file or keeps two runs
apart; `os.WriteFile` is two steps since the truncation is visible to an appender.  History
variables count what is to be told apart: `bookings` the statements applied for a response,
`overlaps` the runs begun while another was active, `late` the lines appended during a run,
`damaged` a rewrite cut short.

**UsageLedger, UsageAccounts.**  The ledger knows nothing of statements: a response is answered,
which is one claim on the account; a booking uses a claim up; a claim may be dropped (a lost
record, a line that is written over); and a mishap may renew one claim on each response, or
leave one that is booked already.  `UsageAccounts` maps the recorder to it.  `Claims(r)` counts
those who may still book `r`: its recorder in flight, the runs that hold its line, and its line
in the file, unless a run is about to truncate the file.  `booked` is `bookings`, `mishaps` is
`faults + overlaps`.

**QuotaGate.**  `reqPc` follows the handler.  `checkQuota` takes the date (`reqDay`) and then
runs two queries, `ReadUsage` and `AdmitOrDeny`; midnight may fall between any two of these.
`FirstUsage` is GORM's `First`: the lowest primary key among the tenant's rows
of the day.  `estimatedTokens` is 200 for each *byte* of the raw messages, as coded.  A
stream without a usage object asks the tokenizer, whose two functions call each other until
the stack overflows: `EstimateStreamUsage` ends the process.  The recorder's whole life goes on
meanwhile: retries, dead letters, runs that replay them, outages and crashes, of which
`HandlersDie` is the handlers' part.

**CircuitBreaker.**  One action per atomic access: `recordFailure` loads the failures, the
successes and the failures again (`LoadFailures`, `LoadSuccesses`, `CompareRate`), each a step of
its own.  `TransitionAllowed` keeps the code's comparison,
which returns when the states *differ*.  `cooling` is `time.Since(lastFailureTime) <=
ResetTimeout`.  `InitialStates` holds `CLOSED` from the constructor and `OPEN`, which a test
stores directly.  Nothing stores `HALF_OPEN` and `transitionTo` lets no call into it, so the
branches for that state are left out; that `TypeOK` holds shows they are never missed.

**UpstreamClient.**  `EXTENDS CircuitBreaker` and replaces its free `RunFn` by what `fn` does.
An attempt ends in one of the classes `isTransientError` and `isRetryableStatusCode` tell
apart.  A streamed body is `Lines` lines of two halves: a read that ends between halves puts a
newline into the buffer and the usage line is no longer found, and bytes that arrive together
with `io.EOF` are dropped.  The handler answers every failed plain request 502, because the
`UpstreamError` it asserts is wrapped.

**TaskQueue.**  Keys are the sequences of parts between colons, since the difference between
`queueKey(name)` and the bare name is what the pool's fate depends on.  `Dequeue` takes from
the end `RPUSH` fills.  `records` are the strings under `jobKey`, which nothing creates.  The
Redis client sends a command up to `MaxSends` times (its first and three retries), so one `RPUSH`
may leave as many copies, and an answer may be lost with the job.  `PopFails` says when a
`BRPOP` ends in an error: the client is closed, the list stayed empty, or Redis did not answer
although jobs wait.

**TokenBucket.**  Time is in ticks worth `Rate` tokens; fractions are left out.  Each call
passes its gateway's time (`Clocks`); `Live` is the key's expiry by the clock of Redis.
`Observe` starts the count of a bucket at any moment, so that the bound holds over every
stretch of time and not only since the beginning.  What counts as granted is the script's
decision; what becomes of the reply is `MiddlewareChain`'s part.

**MiddlewareChain.**  `at[r]` is the index Hertz keeps in the request's context.  Its loop calls
the handler at the index and then increments it, whether the handler called `Next` or simply
returned, so `GoOn` stands for both; `Abort` sets the index past the end.  A panic is caught by
the recovery that `server.Default` installs: `Recover` is an abort with 500.  The limiter is the
interesting handler.  `client` is `nil` for `Middleware` and `CompositeMiddleware`, which build
their limiter without a Redis client (NewServer installs the former), and `redis` for
`MiddlewareWithRedis`.  With `nil`, `Check` dereferences it (`CheckNil`); the comments that
speak of an in-memory fallback (middleware.go:104, composite.go:247-248) have no code behind
them.  With a client, a reply that is read panics too, because the assertion is to `float64`
and the client returns `int64` (`CheckAnswered`): the token is gone and the answer is 500.
Only errors let a request pass (`CheckLost`, `CheckFailed`), and no reply can be read as a
refusal, so the limiter's 429 is unreachable.  `LimitsOf[r]` is the list of buckets a request
asks; the composite limiter calls its key functions with a nil context, so that all clients
share them and one request may ask the same bucket twice.  The buckets are the variables of
`TokenBucket`, whose own actions go on freely as the other gateways' calls, clock and expiry.
200 stands for whatever the route's handler answers when it does not panic.  The breaker's
middleware calls an empty function inside its own breaker, which counts no failure and stays
closed, so it goes on; the pool's puts its client into the context.  `Validate` is in the chain
for the routes that may put it there; NewServer does not.

**Validation.**  A decoded JSON value is its kind and what the checks look at: length, formats
(`pattern` and `allowed` are those of its own field), and twice its number, so that a half is
the number that is not whole.  `validateField` is one conjunct per check of the code; a limit
of zero is no limit, as coded.  `ChatBodyOK` and its three siblings say in direct words which
bodies a schema admits, in two readings.  The strict one asks everything the schema says.  The
other leaves out what the code never looks at: a minimum of zero (`temperature`, `top_p`,
`max_retries`; validation.go:524, 530, 571), so that negative values pass; the pattern of an
empty text, since `validateString` returns before it; and the length of an email.  `Worth` calls
a body valid, overlooked (it breaks only such rules) or invalid.

**AuditLog.**  `buffer` is the channel, `pending` the writer's slice.  `write` has the code's
three outcomes: written, not opened (batch kept), write error (batch gone).  `Finish` writes
the batch and not the channel, `CloseBuffer` closes the channel under those who save.

## 3. Runs

| Run | Instance | Properties | Result |
|---|---|---|---|
| `usage_faults` | 2 concurrent recorders, 2 runs that may overlap once, 1 midnight, 1 outage, 1 fault of three kinds | `TypeOK`, `RecordedIsCredited`, `DeadLettersKept`, `RowsPerKeyBounded`, `BilledOncePerMishap`, `RecorderTerminates`, `ImplementsLedger` | hold |
| `quota_overshoot` | 4 requests of one model, 2 open at once, 1 dead-letter run, 1 midnight, 1 outage, 1 crash | `OvershootBounded` | holds |
| `upstream` | a plain and a streamed request, 2 attempts, 2 lines, each initial state of the breaker | `TypeOK`, `CountersExact`, `ClientTypeOK`, `BilledAsAnswered`, `BreakerCountsRequests`, `RetryOnlyTransient`, `ImplementsBreaker`, `EveryRequestAnswered` | hold |
| `queue` | 2 workers, 2 jobs, 2 names, 3 faults | `TypeOK`, `HandledAtMostOnce`, `StopIsPrompt`, `DefaultListDrains` | hold |
| `chain` | 1 request through NewServer's chain and validation, each client, POST and preflight, bodies on and next to every limit; 1 bucket of 3, rate 2, skew 1, 4 ticks, 1 lost reply | `ChainTypeOK`, `TypeOK`, `AdmissionBounded`, `DebtBounded`, `PreflightIsFree`, `HeadersOnEveryAnswer`, `VerdictFitsSchema`, `EveryRequestEnds` | hold |
| `audit` | 4 requests, channel of 2, 2 faults | `TypeOK`, `EachInItsPlace`, `CloseLosesAtMostBuffer`, `BatchBounded`, `AcceptedIsWritten` | hold |
| `usage_race` | 2 concurrent recorders of one key | `OneRowPerKey` | violated |
| `usage_recovery` | a dead letter without a row, database back | `DeadLetterRecovered` | violated |
| `quota_models` | requests of two models | `AdmittedWithinQuota` | violated |
| `queue_jobs` | `NewServer`'s queue names, 1 job | `JobsAreProcessed` | violated |
| `breaker_opens` | 2 callers, all calls fail | `OpensAtThreshold` | violated |
| `chain_nil` | `NewServer`'s chain, whose limiter has no client | `LimiterHandlesNil` | violated |

**What the passing runs show.**  `usage_faults` leaves everything in that the code can meet and
asks what survives it.  The race of UPDATE and INSERT adds rows, but never more of a key than
recorders run at once.  A response is booked once, and once more for each lost acknowledgement,
file error, crash or overlap of runs at most: those second bookings are what the code does, and
the property allows no others.  A recorder that reported success has its tokens in the table; a
dead letter stays until it is booked, unless it was appended during a run, the rewrite was cut
short, or runs overlapped.  And all of it implements the ledger.  `quota_overshoot` measures the
best-effort check: what recorders book for the model whose row the check reads stays below the
quota, less an estimate, plus `2 * MaxOpen - 1` responses (the requests it could not see, and
those whose rows it does not read).  Two things are outside that bound.  Responses that became dead
letters are not counted, since a run books them on whatever day it happens to run.  Other models
of the tenant have no bound at all, which is `quota_models`.  `upstream` says that the breaker's
counters are exact under every
interleaving, that it counts requests and not attempts, that bills match answers, and that every
request is answered, provided no stream ends without its usage.  `queue` uses
a default name that spells out the key clients push to, since with `NewServer`'s own names the
pool has nothing to do; jobs are found again after commands that failed while they waited.
`chain` shows what becomes of a request in front of the
buckets: a preflight costs nothing; validation refuses exactly the bodies that break a rule it
looks at; every request ends, with the headers on its answer.  Its
buckets are shared with other gateways, whose calls are free, so the bounds on admission and
debt are those of every limiter at once.  `audit`
relates channel, batch and file to the order in which events were accepted.

**What the violations show.**  `usage_race`: two recorders that both updated no row both
insert, against Plans.md:25.  `usage_recovery`: `ProcessUsageDeadLetter` never inserts, so a
dead letter whose row does not exist stays for ever, against Plans.md:47.  `quota_models`:
only the first row of the day is read, so a tenant that used another model too is admitted
past its quota, against Plans.md:66.  `queue_jobs`: the pool pops `default`, clients push to
the prefixed key, against docs/openapi.yaml:164.  `breaker_opens`: `transitionTo` refuses
exactly the transitions that would change the state, so a breaker all of whose calls failed is
closed, against Plans.md:112 and the name of circuit_test.go:164.  `chain_nil`: the limiter
`NewServer` installs panics on its missing client, so that only preflights are answered anything
but 500, against composite.go:248, middleware.go:104 and docker_test.go:56.

**Disagreements without a run of their own.**  Each was met while modelling; the models do what
the code does, and no property states the gap as if it were wanted.

- A refused body is carried out all the same and its 400 written over, since the refusal returns
  without `Abort` (validation.go:484; Plans.md:206 and the 400 responses of openapi.yaml).  No
  route installs the middleware yet.
- A limiter with a client answers 500 to a request it has allowed and charged: the script's
  numbers arrive as `int64` and the assertion is to `float64` (token_bucket.go:119; Plans.md:109,
  middleware.go:95).
- A stream without a usage object ends the process instead of being estimated (tokenizer.go:32;
  Plans.md:32 and the tokenizer's tests).  `EveryRequestAnswered` says so in its hypothesis.
- No job record is ever written, so the status, retries and dead-letter queue of
  `/v1/queue/jobs/{job_id}` and Plans.md:136-141 never happen (`RecordsNeverWritten` in
  `TaskQueueProofs`).
- Validation accepts negative values and the other overlooked bodies of section 2.

**Why the bounds are enough.**  Each hazard needs two actors and at most two environment events:
two recorders, or a recorder and a run, or two runs; a retry needs two attempts, and with
`maxAttempts = 2` the second is the last; an outage, a midnight and a fault may fall between any
two steps; with two requests open at once and two more, two responses are booked in
`quota_overshoot` against a quota that is smaller than either, where the bound allows three and
all four would break it.  In `upstream` the breaker's rate counts from the first call (`minRequests = 1`), so that each of two callers gets to
the comparison and to `transitionTo`; `breaker_opens` takes `minRequests = 3` and one call more.
A body of two lines has a line that can be cut and one that cannot.  `MaxSends = 4` is go-redis's
own number, and three faults let one command be sent as often.  A chain needs one request against
a bucket that others share, a limiter with two entries for the same bucket (the second call sees
what the first took), and one lost reply to tell charged from told; a bucket that expires after
four ticks is dead at the fourth, and its bounds for any time, rate and skew are theorems; the
bodies lie on and next to each limit of the four schemas.  A bound appears in a guard under its
own name (`MaxConcurrent`, `MaxDay`, `MaxOutages`, `MaxOverlaps`, `MaxFaults`, `MaxOpen`,
`MaxCalls`, `MaxSends`, `MaxJobs`, `MaxTime`, `MaxLost`), and the theorems hold for each value.
`CHECK_DEADLOCK FALSE` is set because every instance may stop: traffic is finite and no
environment action is obliged to happen.

**Fairness.**  Only what the Go scheduler and `http.Client`'s timeout give: weak fairness of a
goroutine that can move (`Recorder`, `Reprocess`, `Work`, `Handler`, a request's `Step` in the
chain, the audit writer's cases; its ticker fires for ever and `select` picks among ready cases at
random).  Nothing is assumed of the database, Redis, the clock, clients or operators.
`RecoverySpec` adds that the database comes back, to show that this does not help a dead letter
without a row.

Every property also has a mutation of the code it must not survive (operators marked "Mutation
of", listed under `mutants`): an uncapped refill, a counter that stands still, an error that is
not looked at, a channel that becomes a slice.

## 4. Theorems

| Module | Theorem | Says | Of which instances |
|---|---|---|---|
| `UsageRecorderProofs` | `TypeCorrect`, `SuccessIsBooked`, `DeadLettersStay` | `TypeOK`, `RecordedIsCredited`, `DeadLettersKept` | all |
| | `RowsStayFew`, `BillingIsBounded` | `RowsPerKeyBounded`, `BilledOncePerMishap` | all: any recorders, runs, overlaps and faults |
| | `KeepsTheLedger` | the refinement `ImplementsLedger` | all |
| | `RecordersWindDown` | a recorder has at most `3 * maxAttempts + 2` steps | all |
| `QuotaGateProofs` | `OvershootIsBounded` | `OvershootBounded` | finitely many responses; any models, replays, faults and midnights |
| `UpstreamClientProofs` | `TypeCorrect`, `CountersAgree` | of the breaker: `TypeOK`, `CountersExact` | all |
| | `ClientImplementsBreaker` | the refinement `ImplementsBreaker` | all |
| | `ClientTypesCorrect`, `BillsMatchAnswers`, `RetriesAreTransient`, `FailuresAreRequests` | `ClientTypeOK`, `BilledAsAnswered`, `RetryOnlyTransient`, `BreakerCountsRequests` | all |
| | `ClientsWindDown` | retries, reads and the breaker's steps of a request are bounded | all |
| `TaskQueueProofs` | `QueueTypesCorrect` | `TypeOK` | all |
| | `ServerPoolStarves` | no job is ever taken | default queue names like `NewServer`'s |
| | `StopIsObeyed`, `CopiesRunOnce` | `StopIsPrompt`, `HandledAtMostOnce` | finitely many workers |
| `TokenBucketProofs` | `TypeCorrect`, `AdmissionIsBounded`, `DebtIsBounded` | `TypeOK`, `AdmissionBounded`, `DebtBounded` | `WindowRefills` |
| `MiddlewareChainProofs` | `ChainTypeCorrect`, `ChainImplementsBucket`, `ChainAdmissionBounded` | `ChainTypeOK`, the refinement of `TokenBucket`, the bounds it carries over | all chains |
| | `PreflightsAreFree` | `PreflightIsFree` | CORS before limiters and handlers |
| | `HeadersAlways` | `HeadersOnEveryAnswer` | chains that begin as `NewServer`'s does |
| | `VerdictsFitSchemas` | `VerdictFitsSchema` | submissions of any decoded bodies to the four schemas |
| | `RequestsWindDown` | handlers, buckets and lost replies bound a request's steps | all chains |
| `ValidationProofs` | `ChatVerdict`, `JobVerdict`, `TenantVerdict`, `KeyVerdict` | `ValidateRequest` accepts exactly the bodies that break no rule but the overlooked ones, and all that fit the whole schema | every decoded body |
| `AuditLogProofs` | `AuditTypeCorrect`, `OrderIsKept`, `BatchStaysSmall`, `CloseCostsAtMostBuffer` | `TypeOK`, `EachInItsPlace`, `BatchBounded`, `CloseLosesAtMostBuffer` | all |

The assumptions are the named `ASSUME`s of the modules, the types of the constants, and what the
last column says, which each theorem states as its hypotheses.  `WindowRefills` is that a bucket
refills before it expires, which the default options satisfy up to 25 seconds of skew.  The
hypotheses on a chain are conditions on the order of its handlers; `NewServer`'s satisfies them.

The arguments:

- *Recorder.*  `RecordedIsCredited` is inductive with the types: no statement ever lowers an
  `added[r]`, and `recorded` is reached only past a statement that raised it.
  `DeadLettersKept` is not: a truncation could lose a line the run never read.
  `DeadLetterInv` adds where a dead letter is while a run is at work (`Placed`): booked, or in
  the file and among the lines that run still has to do or keeps, or about to be written back.
- *Rows.*  Whoever inserts a row found none of its key before, so those that will insert one more
  were all in flight when the first was inserted.  `RowsInv` counts a key's rows together with
  the recorders about to insert (`RowsCounted`), and the recorders in flight (`FewInFlight`).
- *Bookings.*  `BillInv`: the bookings of a response and the claims on it are together at most
  one and the mishaps so far (`WithinMishaps`), a row counts no more than was booked
  (`RowsWithinBookings`), a run keeps the lines it has done apart from those it has to do
  (`LinesApart`), and a response nobody answered is in nobody's hands (`IdleUnknown`).  The same
  facts make every step a step of the ledger: a statement is a `Book`, a
  line written over a `Drop`, a fault or an overlap a `Mishap`.
- *Quota.*  The key's tokens are in the row the check reads (`FirstOn`) or in rows inserted beside
  it (`Elsewhere`).  The second kind are at most `MaxOpen - 1` responses: whoever inserts a row
  beside the first looked the key up before there was one, and was open when it was inserted
  (`RowsApart`).  The first kind are covered by two sets (`Covered`): what the row held when a
  check last let a request pass, which left room for an estimate, and the requests open then, at
  most `MaxOpen`.  Each check that lets a request pass chooses the two sets anew, unless the date it
  took is over: such a request (`Stale`) was open at midnight and is one of the open ones already.
  What runs book is dead (`LettersDead`), and nothing is booked for a day to come (`Calendar`).  A
  key with something booked has a quota that some estimate fits (`Affordable`), which is why
  `OvershootBounded` speaks of such keys: with a quota below each estimate nothing is admitted,
  and the right-hand side may be negative.
- *Breaker.*  `transitionTo` can only assign the state it finds, so a closed breaker stays closed
  and an open one open.  `CountersExact` needs one more
  fact, `OpenIsIdle`: the one transition that passes is from `OPEN` to `OPEN`, which resets the
  counters, and an open breaker has no call past `allowRequest` that could ask for it.
- *Client.*  Each step of `Handler` is a step of `Call` or leaves the breaker alone
  (`HandlerStep`), which gives the refinement and carries the breaker's theorems over.
  `RetryInv` relates the number of POSTs sent, the attempt's number and the last outcome.
  `FailuresAreRequests` moves one request into the counted set with each `AddFailure` and none
  with any other step (`EndStep`); that no counter is ever reset is the breaker's `OpenIsIdle`.
- *Queue.*  A pushed key begins with `queue`; a pool whose name does not, owns a list that no
  push reaches (`IdleInv`).  `StopInv` counts the workers past the check of `running` together
  with the jobs taken since `Stop`.  `CopyInv` counts, for each job, its places on the lists,
  the workers that hold it and its runs: together never more than its pushes, and those are at
  most `MaxSends`.
- *Bucket.*  `BucketInv` bounds the level from below by what the clocks may disagree about
  (`LevelOK`) and the grants since `since` plus the tokens left by burst and elapsed time
  (`CountOK`); a bucket that expired starts full, and `WindowRefills` pays for it.
- *Chain.*  `Effects` says once what each handler does to its own request, `OwnSteps` that no
  other request is touched; each theorem's invariant says where in the chain a request must
  still be as long as it lacks what the property speaks of.
- *Validation.*  One lemma for each type of field relates `validateField` to plain bounds; a
  verdict puts the fields of its schema together, and the chain keeps each request's verdict
  with what its body is worth.
- *Audit log.*  `CountInv`: the events that wait are different ones, none of them dropped, and
  what was accepted is as many as file, batch, channel and drops together (`Counted`); a writer
  that has left its loop has an empty batch unless the file could not be opened (`LastBatch`).
  `PlaceInv`: an event moves from the front of the channel to the end of the batch, and the
  batch to the end of the file, so the three in a row stay as they are; what a failure takes,
  it takes out of both sides of `EachInItsPlace`.  The events a failure took are removed by a
  recursive function, `Without`; `MCAuditLog` assumes, and TLC evaluates, that it is `SelectSeq`
  on sequences of up to four events.
- *Winding down.*  A number falls with each step of a recorder or a request and rises with
  nobody's (`Left`, `Ahead`): the attempts, statements, handlers, buckets and half-lines still to
  come.  With it, what a liveness property still asks is that a goroutine that is not at its end
  can move and is run.

**Only model-checked**: the five liveness properties (`RecorderTerminates`,
`DefaultListDrains`, `EveryRequestAnswered`, `EveryRequestEnds`, `AcceptedIsWritten`), since
fairness needs `ENABLED`, which the prover does not reason about; of three of them the
`WindDown` theorems are the rest.  Every other property of a passing run is stated by a theorem.
Induction over data is done with the least counterexample among numbers or finite sets
(`LeastOfNat`, `GrownByAdding`), since the library's induction theorems take an operator;
`SelectSeq` and `RECURSIVE` operators are out of reach, and no module here declares one.

## 5. What is not modelled, and why

- Of the rate limiter: the `X-RateLimit` headers, custom responses and every other branch on a
  reply's content, which no reply reaches; `GetRateLimitStatus`; fractions of a token.
- Of validation: `SanitizeInput`, which nothing calls; the text of errors; limits on numbers of
  `DefaultOptions`, which exclude nothing.
- The pool's counters (`usedConns` is never decremented), the in-memory audit store (a slice
  without a lock), the request id's shared `rand.Rand`: a line each, visible by reading.
  `WrapHandler` of the breaker's middleware, which nothing calls.
- The drain of HTTP requests against recorders and the database's close.  Planned, as
  `Shutdown`; a process that dies at any step is in `UsageRecorder` already.
- `Reset`, `GetStats` and the connection statistics; queue endpoints that answer constants;
  `moveToDLQ`, which no job reaches since `Get` never finds a record; the breaker's half-open
  branches, for the same kind of reason; `PubSub`.
- Configuration, metrics, logging: functions of one input.  WASM: glue for a runtime outside
  the repository, which no gateway code loads.
- Numbers: token totals are formal sums, latencies and back-offs are steps.

## 6. Plan

1. `Shutdown`: `Worker.Stop`, `TaskQueue.Close`, HTTP drain, database close and process exit
   against recorders in flight, composed of `TaskQueue` and `UsageRecorder`.
2. `PluginRuntime`: the plugin map of `wasm/plugin.go` and its stale instances.
3. Proofs: the winding down of the pool's default list.
