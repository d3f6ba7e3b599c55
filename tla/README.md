# primind-remind-time-mgmt: a verification project

The service keeps *reminds*: points in time at which a task is to be announced
on a user's devices. Clients create, list, throttle, delete and cancel them over
HTTP; the reminds are rows of one PostgreSQL table; a cancellation is announced
on a message broker. This directory models the service in TLA+, checks the
models with TLC and proves the central properties with TLAPS.

Paths below are relative to `src/`.

## 1. Inventory

### The parts, their state and their operations

| Part | Code | State | Operations |
|---|---|---|---|
| Use cases | `internal/app/remind_usecase_impl.go` | none of its own: what a goroutine holds between two repository calls | `CreateRemind`, `GetRemindsByTimeRange`, `UpdateThrottled`, `DeleteRemind`, `CancelRemindByTaskID` |
| Repository | `internal/infra/repository/remind_repository_impl.go` | the table `reminds` (primary key `id`, unique index on `time, task_id`), open transactions, the connection pool | `Save`, `FindByID`, `FindByTaskID`, `FindByTimeRange`, `Update`, `Delete`, `DeleteByTaskID`, `WithTx` |
| Row conversion | `internal/infra/repository/remind_model.go`, value objects of `internal/domain` | none | `FromEntity`, `ToEntity` |
| Slide window calculator | `internal/domain/window_calculator.go`, `window_category.go`, `slide_window_width.go` | a map under construction | `CalculateSlideWindowWidths` |
| Handlers | `internal/infra/handler/remind_handler.go` | none | parse, validate, call, map the error to a status |
| Middleware | `internal/observability/middleware`, `logging/requestid.go`, `logging/context.go`, `metrics/http.go` | the request id in the context, the span, the response header | `Gin`, `PanicRecoveryGin` |
| Publishers | `internal/infra/pubsub/*` | a connection to the broker | constructors, `PublishRemindCancelled`, `Close` |
| Process | `cmd/main.go`, `cmd/platform_*.go`, `internal/observability/observability.go` | contexts, deferred calls, providers, server, a second goroutine | `run` |
| Log lines, exporters, configuration | the rest of `internal/observability`, `internal/config` | none another part reads | |

### How they interact

A goroutine of the HTTP server runs the two middlewares and a handler, which
calls one method of the use case, which makes one to four repository calls; the
request id goes from the header through the context into log lines and events. Goroutines share nothing in
memory: they meet in the table, in the connection pool and in the broker.
Several instances of the service may run on one database. `run()` shares the
publisher and the server with one other goroutine.

### What is hard about it

* **No transaction around a use case.** Only the inserts of a creation are in a
  transaction. Look-up and insert of a creation, read and write of an update,
  select and delete of a cancellation are separate statements, and any other
  request may run in between.
* **Transactions that wait.** An insert waits for another transaction's
  uncommitted row with the same key; the inserts come in the order of the
  request, so transactions can wait for each other.
* **Failures in the middle.** A statement may fail, or take effect with its
  answer lost; an instance may stop between any two calls; the publisher may
  fail after the rows are gone.
* **Stale copies.** `UpdateThrottled` writes back a whole entity it read before;
  that this is safe hangs on gorm's skipping of zero values.
* **Boundaries.** Widths are clamped, cut to seconds, and checked again when
  they are read; their constructor panics out of bounds.
* **Retries.** The service calls itself idempotent; a client that got a 500 or no
  answer sends its request again while others change what it is about.
* **Panics.** A panic passes through two middlewares; what follows `c.Next()` is
  skipped, what is deferred is not.
* **Shutdown.** Deferred calls, a second goroutine and two contexts of the same
  name.

### What makes each part correct

* Store: one remind per task and time; a batch appears whole or not at all; a
  throttled remind stays throttled; a removed remind stays removed.
* Answers: a repeated creation returns the reminds of the first; 204 and a 404
  mean gone; 500 means an outside failure, a token the column refuses, a conflict
  of keys or a remind that disappeared; a range query sees what was answered
  before; every request is answered.
* Retries: whoever sends its request again until it is answered gets an answer,
  but for a creation that has a time twice or a token the column refuses, and loses
  sight of no remind it created.
* Events: what is announced as cancelled is gone for ever; what a cancel removed
  is announced, unless the publisher or the process failed.
* Requests: 2xx is answered only after the use case's success, 400 and 404 only when
  the table is unchanged, and no error to a cancel whose event went out; an answer is
  given once and counted once under the status that is sent; one request has one id
  everywhere.
* Rows: whatever the service stored it can read, and later answers agree with the
  first; a creation can be repeated after its time has passed; `updated_at` is a
  moment of the update that wrote it.
* Calculator: it never panics; the width of a time depends on the set of times
  alone; the window ends before the next remind; what is stored can be read.
* Process: what was opened is closed, once, and not under running handlers.

`PROJECT.json` lists every hazard with its line and the properties that cover it.

## 2. Modules

| Module | Models | Lines of code it reads |
|---|---|---|
| `RemindService` | the five use cases over the repository, the database, failures and crashes | use cases, repository, `RemindModel`'s index, statuses of the handlers |
| `RemindStore` | what a reader of the table and of the events is promised (abstract specification) | the same, from outside |
| `RemindServiceProofs` | the inductive invariant of `RemindService` and its first theorems | |
| `RemindAnswersProofs` | what outlasts an answer: the theorems about creations, deletions, throttlings, errors, events and ranges | |
| `RemindStoreProofs` | `RemindService` implements `RemindStore` | |
| `MCRemindService` | inputs and symmetry for TLC | |
| `RemindRetries` | clients that send a request again until it is answered, composed with `RemindService` | the same, and what its log lines say of idempotency |
| `MCRemindRetries` | inputs for TLC | |
| `RemindRetriesProofs` | its inductive invariant and its theorems, the refinement included | |
| `HttpRequest` | one request through router, middlewares and handler | `middleware/*`, `remind_handler.go`, `requestid.go`, `context.go`, `metrics/http.go`, `setupRouter`, the publishers' metadata |
| `HttpRequestProofs` | its inductive invariant and its theorems | |
| `SlideWindow` | the calculator, its sort and loop, and the width's way through the table | `window_calculator.go`, `window_category.go`, `slide_window_width.go` |
| `SlideWindowProofs` | its theorems | |
| `MCSlideWindow` | times around every boundary | |
| `RemindModel` | one remind through request, entity, row and answer | `remind_model.go`, `remind.go`, the value objects, the request's schema |
| `MCRemindModel` | a body for each way to be refused | |
| `RemindModelProofs` | its inductive invariant and its theorems | |
| `Lifecycle` | `run()` in both builds | `cmd/main.go`, `cmd/platform_*.go`, `observability.go`, the publishers' constructors, `PubSub.Validate` |
| `LifecycleProofs` | its inductive invariant and its theorems | |

`RemindRetries` EXTENDS `RemindService` and adds the clients; `RemindService`
INSTANCEs `RemindStore`, and both it and `RemindRetries` implement it. The other
modules model parts that share no state with these: a use case that `HttpRequest`
calls is only its outcome there, a handler that `Lifecycle` counts only a number.

### RemindService

A request is a process. `pc[p]` is the repository call its goroutine is about to
make; an action is that call and all code up to the next one. So the actions are
`FindByTaskID`, `NewReminds`, `Begin`, `Save`, `Commit`, `Rollback` (creation),
`FindByTimeRange`, `FindByID` and `Update` (throttling), `Delete`,
`SelectByTaskID`, `DeleteByTaskID` and `Publish` (cancellation). `Receive` is the
handler up to the first call: the request is accepted, or answered 400. `Fail`
lets a call fail without effect for an outside reason (a connection, a context), `EndOrLost` lets it take effect with its answer
lost, `Publish` lets the publisher fail with the event taken or not, `Crash`
stops the instance between two calls. A handler that panics is a `Crash` of one
request: `net/http` cancels the context that `Begin` was given, and the database
rolls the transaction back.

| Variable | Code |
|---|---|
| `table` | the committed rows; a row keeps task, time and `throttled`, the columns that interleavings, the index or an update can tell apart |
| `saved[p]` | how many rows the open transaction of `WithTx` has inserted: they are `NewRow(p, 1..saved[p])` and nobody else sees them |
| `ids[p]` | the `[]*Remind`, or `[]RemindID`, a goroutine holds and returns |
| `entity[p]` | the `*Remind` between `FindByID` and `Update` |
| `events` | what the broker accepted |
| `reply[p]` | the HTTP status |
| `removedBy`, `faulty`, `before` | history, read by properties only |

The database is PostgreSQL at READ COMMITTED: a statement is atomic; an insert
with the key of a committed row fails; with the key of a row of an open
transaction it waits (`WaitsFor`); of a cycle of waiting transactions one is
aborted (`DeadlockVictim`). A statement needs a free connection (`FreeConn`), a
transaction keeps its own. A failed insert leaves the transaction, which
`WithTx` rolls back, in both the code and the model.

What is refused for its data is no outside failure. Schema and domain accept a token
with a NUL character, and the `jsonb` column does not: the body of a creation says
whether the columns take it (`storable`), and `Save` refuses one they do not take.
That is answered 500 every time, without a mark in `faulty`.

`UpdatedRow` is gorm's `Updates(struct)`: zero values are not written. That is
why an update with an old copy cannot undo a throttling; the mutant that writes
every column violates `ThrottleDurable`.

Task ids, remind ids and times are abstract. Times are what the column keeps
(microseconds), so two times of a request that differ by nanoseconds are one time
given twice. A client names ids it can know: of rows that exist or existed, or
foreign ones (`Known`).

### RemindStore

Three variables, four actions: a batch of one task appears under ids never used
(`Add`), a remind becomes throttled (`Throttle`), reminds disappear for ever
(`Drop`), and ids of reminds that disappeared are announced (`Announce`).
`RemindService!StoreSpec` is the abstract specification under the mapping
`reminds <- table`, `gone <-` ids with a remover, `announced <-` ids in events.

### RemindRetries

`Unanswered` requests (500, crashed, or their answer lost by `LoseAnswer`) are sent
`Again`: the same body arrives, the service remembers nothing of the earlier
attempt but what is in the table. `Handle` and `Break` are `RemindService`'s steps
with a count of outside failures, at most `MaxFailures`. Two kinds of creation are
answered 500 at every attempt and excepted by name from what clients are promised:
one that has a time twice (`RepeatsATime`), and one with a token the column refuses
(`Unstorable`). A request has one set of
remind ids, so an attempt that would create a second set, because another request
removed the first, stops (`OutOfIDs`): from there on it is the first attempt of a
new request. Attempts that overlap are other requests with the same body, which
`RemindService` has.

### HttpRequest

`stage` is how far the request has come. A path with a slash too many gin redirects
by itself, before any middleware, by the default that `setupRouter` leaves on
(`Redirect`); it is neither counted nor given an id (`Observed`). `Bypass` and `Enter` are the middleware
`Gin` before `c.Next()`, `Refuse`, `UseCase`, `Succeed` and `HandleError` the
handler, `Panic` a panic anywhere in it together with `PanicRecoveryGin`, `Leave`
and `Unwind` the way back with and without a panic.

| Variable | Code |
|---|---|
| `ctx`, `header`, `generated` | the id in `c.Request.Context()`, in the response's `x-request-id`, and the number of ids made up for this request |
| `lineIDs`, `eventIDs` | the ids that lines logged with the context and the event's metadata carry |
| `status`, `bodies`, `client` | what gin's writer holds, how many bodies were written, what the client gets |
| `outcome`, `effect` | what the use case returned and whether the table changed |
| `span`, `records`, `metered` | the request's span, what `HTTPMetrics` recorded, and whether `setupRouter` got an `HTTPMetrics` |

An id that a client sends counts only if it is a UUID of version 7. A path that is
skipped has no id in its context, so whoever needs one there makes up one of its
own. An answer that cannot be marshalled leaves a bare 500.

Success does not imply a change (`Effects`): a creation whose task has reminds is
answered 201 and stores nothing, `throttled=false` and a second throttling are
answered 200, and deleting what is not there 204. So what `AnswerTellsEffect` says of
2xx is about the use case's outcome; what success means for the table is the matter of
`RemindService`.

### SlideWindow

`Sort` is `sort.Slice` on the copy (any non-decreasing reordering), `Iterate`
one round of the loop, with the map write and the panic of
`MustSlideWindowWidth`. `Second` scales the time: the code has 10^9 ticks to the
second; the proofs hold for every scale. The code's float product with 0.30 is
the integer quotient 3·x/10; an interval long enough for a float64 to matter is
clamped to the maximum anyway.

### RemindModel

The one remind of a task, never removed; `row` is the row as the columns keep it,
`copy[u]` the entity an `UpdateThrottled` holds, `clock` is `time.Now()`.
`Accepted` is the schema the handler validates against together with what the use
case checks before it looks the task up; `TimeOK` is what is left to refuse
after it. The use case checks devices and type there too, but the schema lets
nothing pass that these checks refuse. `FromEntity` and `ToEntity` are the code's
conversions together with what the columns lose: a timestamp keeps microseconds,
a width whole seconds, and a `jsonb` column refuses `\u0000`. `Updates` is gorm's
`Updates(struct)`: it skips a `throttled` that is false, and sets `updated_at` to a
time of gorm's own whatever the struct says. gorm takes that time in the process
before it sends the UPDATE, which may then wait for a connection or for the row:
`Stamp` and `Update` are two steps. So `updated_at` may go back, when of two
overlapping updates the one that took the later time writes first, and
`UpdatedAtOfItsUpdate` says only that it is between the read and the write of the
update that wrote it. That concerns one call in one process; the clocks of several
instances need not agree for it.

### Lifecycle

`pc` is the step of `run()`, `deferred` its stack of deferred calls, `cancelled`
and `signalled` the two contexts called `ctx`. The second goroutine waits for
`ContextDone`. Handlers are a count. Every start-up step but the first may fail
(`StartupFails`, remembered in `failedAt`); the listener may fail; signals come at
any time and kill the process when nobody catches them.

`gcloud` is the build tag: it exchanges the publisher and `PubSub.Validate`, which
cannot fail without it. `tracer`, `meter`, `db`, `conn` and `publisher` say whether
what `run()` acquires is open; `conn` is the connection over which
`NewNATSPublisherWithStream` makes its stream and which it closes in any case.
`observability.Init` makes two providers one after the other, and `obs.Shutdown`
shuts both down although one fails. `ReleasedAtExit` names its two exceptions: the
tracer provider stays open when the meter provider cannot be made, and
`initDatabase` leaves the pool open when its later steps fail. Both end with the
process; spans of the first seconds are what is lost.

## 3. Runs

Checked properties and what they mean are commented in the modules.

| Run | Instance | Shows |
|---|---|---|
| `service` | 3 requests, 1 task, 2 times, up to 2 reminds at the start, 2 connections; creations of both times in either order, one with a token the column refuses, every throttle, delete and cancel | the safety of the store, of answers and of events: 7.1 million states up to symmetry |
| `service_pool` | 3 requests on 2 connections, an empty table, 3 times; conflicting creations, the ranges 1..2 and 2..3 and one that ends before it starts, every throttle, delete and cancel: 940 thousand states | requests that wait for a connection, for a key or for each other end; every step is a step of `RemindStore` or leaves it alone; range queries see what was answered and nothing else, also two that share an end |
| `service_ends` | 3 creations over a ring of 3 times, 3 connections, no publisher | under weak fairness every request ends, three-way deadlocks included |
| `create_race` (violation) | 2 creations of one time each | finding 1 |
| `cancel_race` (violation) | 3 requests, one-time creations | finding 2 |
| `double_cancel` (violation) | 2 cancels | finding 3 |
| `slide_window` | 11 times at and one tick around each boundary, up to 3 in a request, 4 types | the calculator's properties |
| `remind_model` | 9 request bodies, 3 widths, 2 updates at a time, each of which may wait between taking its time and writing, 2 ticks to the microsecond, 4 ticks | what is stored can be read and is what was answered; retries succeed |
| `retries` | 2 clients, 2 outside failures, conflicting creations, one with a token the column refuses, every throttle, delete and cancel | clients settle and know their reminds; the store keeps its promise through all attempts |
| `http_request` | every path, redirected ones included, operation and kind of header, with and without metrics | answers, counts, spans and ids, panics included |
| `lifecycle` | both builds, 2 handlers at a time | shutdown and failure paths |
| `lifecycle_signal` (violation) | 1 handler | finding 4 |

**Bounds.** One task is enough: tasks meet only in the connection pool, and the
index, the reads and the deletions never relate two tasks. Two times make a
conflict and a two-way deadlock; three make the ring. Three requests are what the
hazards need: two that race and one that observes, repeats or fills the gap. With
two connections two open transactions leave the third request waiting for one of
them (`service`, `service_pool`); the ring of three waiting transactions needs a
connection for each (`service_ends`). Three times make two ranges that share an end.
Two reminds at the start
let requests that change or remove meet without first spending a request on the
creation. In `RemindModel` the clock runs past the time of a creation and its
tolerance, and both updates can hold copies and times that straddle a tick, so that
`updated_at` does go back in some behaviours. In `retries` one
failure can hit each client, or one client's second attempt as well. `HttpRequest`
has no bound: one request makes a finite number of steps. `MaxTimes`,
`MaxEarlier`, `Inputs`, `MaxInFlight`, `MaxFailures` with the one set of ids of a
request, and `MaxClock`, `Bodies` and `Widths` of `RemindModel`, are the bounds of
the models. Deadlock is checked in every run: `Quiescent`, `Content`, `Done` and
`Finished` say where the system may stop.

**Symmetry** of the requests is used in the invariant runs only; no operator
orders requests.

**Fairness.** `RemindService!FairSpec` is weak fairness of each goroutine's own
calls: the Go scheduler and the database run whoever can run. Nothing has to
arrive, fail or crash. A waiting insert is not enabled; its wait ends because the
transaction it waits for is bound to end, or because the database aborts one of a
cycle. Waiting for a connection needs no strong fairness here, because the
requests are finitely many and each borrows a bounded number of times.
`RemindRetries!RFairSpec` adds that clients do send again, and strong fairness of
each INSERT. Without it two creations with the same keys in opposite order can be
each other's deadlock victims in turn for ever, an INSERT being enabled again and
again and never executed. PostgreSQL wakes the waiting INSERT as soon as the victim
is aborted, long before the victim's client has its 500 and its next attempt has
come back to its own INSERT.
`Lifecycle!FairSpec` is weak fairness of the two goroutines of `run()`.

## 4. Findings

1. `create_race`: `CreateRemind` looks the task up before and outside the
   transaction; overlapping creations of one task with different times both
   succeed and the task has two sets of reminds. The tests say "duplicate TaskID
   returns existing reminds". What does hold is `RepeatedCreateReturnsExisting`:
   a creation sent *after* another was answered gets its reminds.
2. `cancel_race`: a remind created between the SELECT and the DELETE of
   `DeleteByTaskID` is deleted and not named in the event, although the event's
   ids are "used to cancel queued notifications".
3. `double_cancel`: of two overlapping cancels both publish, though one deleted
   nothing; `DELETE ... RETURNING id` would repair both this and finding 2.
4. `lifecycle_signal`: `run()` shadows the context of `signal.NotifyContext`
   before the goroutine that is to shut the server down waits for it, so SIGTERM
   stops nothing. Deriving the second context from the first is not enough:
   the mutant `ContextDoneOnSignal` shows that `run()` would then return as soon
   as `ListenAndServe` does and close the database under running handlers
   (`DatabaseOutlivesHandlers`).

## 5. Proofs

Checked with TLAPS, for every value of the constants under the assumptions named
in the modules (finitely many requests; times are naturals; at least one time and
one connection; `Null` is no request, row or body).

**RemindService** (`RemindServiceProofs`). `TypeOK`, `UniqueKey` and
`AnnouncedAreGone` are not inductive. `IInv` adds:

* `BodyOK`, `SavedOK`: a goroutine is at a call of the method its body asks for,
  and only an open transaction has inserted rows, no more than the request has;
* `FreshInv`: ids a creation may still use were never in the table, and a removed
  id is not in it. Without it a commit could bring a removed remind back;
* `KeyInv`: rows of an open transaction share no key with the table, with each
  other or with another transaction. That is what "an insert that is not refused
  and does not wait" gives, and what `Commit` needs to keep the index unique;
* `CopyInv`: the copy an update is about to write has its row's task and time,
  so writing it back moves no key. This needs that nothing but deletion and
  throttling happens to a row, the lemma `TableStep`;
* `CancelInv`: what a cancel selected exists or was removed, and is of its task
  as long as it exists; hence the DELETE by task removes what is left of it, and
  it is gone when the event goes out.

`TableStep` says what any step does to a remind that was ever born: it keeps its
key, never comes back, and its remover is never forgotten. The theorems are
`TypeCorrect`, `Invariance`, `KeysAreUnique` and `AnnouncedStayGone`. Clients that
send again reuse their ids, which `FreshInv` excludes; `SharedInv` is `IInv` with
the weaker `UnbornInv` in its place (only the ids of an attempt about to insert
are not in the table), and most lemmas about steps assume no more.

**Answers** (`RemindAnswersProofs`). What an answer says is about a moment that
has passed; the properties say what a client may still conclude from it.
`AnswerInv` keeps what outlasts an answer:

* `RequestInv`: which kind of request can have which answer; the ids a request
  holds are those it made up or were in the table once; a client names ids it was
  shown; requests answered before another arrived stay answered; who has inserted a
  row asked for what the columns take (`StorableOK`);
* `TableInv`: where a row comes from (an earlier run, or the one request whose
  transaction inserted it, with the key it asked for), that only deletions and
  cancels remove, and that an answer 201 lists reminds of its task.

On top of `IInv` and `AnswerInv` each property has the part that its method adds:

* `BatchesAreAtomic`: the ids of a batch are born by one commit or not at all, and
  afterwards only ever leave;
* `ThrottleLasts`: an update that was answered left its row throttled, and gorm
  skips the zero value of an older copy;
* `RemovedNeverReturn`, from `GoneInv`: after the DELETE by task, nothing of the
  selected ids and nothing answered before the cancel arrived is left, because
  those reminds still have the task; ids gone are never born again;
* `RepeatedCreateReturns`, from `LookupInv`: a creation that is past its look-up
  found the task empty, so whatever was answered before it arrived was removed;
* `ErrorsAreExplained`, from `ErrorInv`: a refused insert met a committed row or
  lost to a transaction with its key, a row has an origin (`TableInv`), and what is
  of an earlier run the look-up has excluded, so the origin is a request that
  clashes; with `StorableOK` a transaction whose data is refused clashes with nobody,
  and its own 500 is explained by its data;
* `NotFoundIsFinal`: an id a client can name was born or is foreign, and neither is
  born again;
* `CancelsAreAnnounced`: between the DELETE and the answer there is only `Publish`;
* `RangesSeeAnswered`: the batch was born before the query arrived, so at the
  statement each of its rows is there or removed.

**RemindStore** (`RemindStoreProofs`). `ImplementsStore` is the refinement, step by
step: `Commit` is `Add` (by `UnbornInv` with ids the store never had, by `KeyInv`
with keys it has not), `Update` is `Throttle` or nothing (by `CopyInv`), a DELETE is
`Drop`, `Publish` is `Announce` (by `CancelInv` of what is gone), and all else is a
stutter. It is proved from `SharedInv`, so that the retrying clients can use it.

**RemindRetries** (`RemindRetriesProofs`), for any number of clients, failures and
attempts. Here ids are used again, and that an attempt does not insert an id that
is in the table needs the look-up: `RInv` says that

* an attempt on its way to insert has found no remind of its task, its own from an
  earlier attempt included, and nobody else inserts its ids (`FreshAttemptInv`,
  `OwnRowsInv`);
* the answer 201 lists all of its ids that are in the table (`AnsweredInv`).

Hence `ClientsKnowTheirReminds`, and `RetriesImplementStore` by the lemma of
`RemindStoreProofs`; sending again and losing an answer are stutters of the store.

**SlideWindow** (`SlideWindowProofs`). The invariant relates the map to the part
of the sorted list walked so far: the entry of a time is the width at its last
index. Since the list is sorted, the entry after the last index of a time is the
next different time, whence `WidthsDependOnTheSet`. `NeverPanics` and
`StoredWidthsAreReadable` follow from the clamping, the latter because both
bounds are whole seconds. `WindowsEndInTime` adds `FitsOK`: of the times walked
so far, each window ends before the next time that is the least width away. The
round for the last of equal times overwrites what the earlier ones wrote.

**RemindModel** (`RemindModelProofs`), for any resolution of clock and columns, any
bodies, any widths in bounds and any number of updates that hold copies. `Inv` adds
to the types:

* `CreatedInv`: there is a row from the first accepted creation on;
* `RowInv`: the row can be read, its times are within the clock and cut to what a
  column keeps, and what is read of it shows what was answered. Its core is that
  storing what was read from a column loses nothing more (`StoredTime`);
* `CopyInv`: however old a copy is, in all columns but `throttled` and `updated_at`
  it is what the row has, so writing it back changes no other column;
* `StampInv`: a call took its time for the UPDATE after its read and not after now.
  That and `StampStepInv`, the step of one update, give `UpdatedAtIsOfItsUpdate`;
* `ReplyInv` and `RetrySucceeds`: 500 goes to bodies the column refuses only, and a
  body that was accepted once is found by its task before its times are looked at.

**HttpRequest** (`HttpRequestProofs`). The invariant says what is settled at each
stage: nothing before the middleware, the one id from then on (`IDInv`), the span
open and nothing recorded until the end (`SpanInv`), nothing written before the
answer (`BeforeAnswerInv`), an event only for a cancel that succeeded (`EventInv`),
and, when the handler is left, a status that tells the use case's outcome
(`LeavingInv`). The panic is the case that matters: it leaves a 500 behind whatever
took effect, and only routed requests reach one. A redirection ends a request of
which nothing is settled but the types (`RedirectInv`).

**Lifecycle** (`LifecycleProofs`), for any number of running handlers. The stack of
deferred calls is always one of six, each the one before with one call on top
(`Layered`). `Inv` adds to the types:

* `StackInv`: which of the six it is at each step of the start-up;
* `OnceInv`: a closed publisher was closed through `closePublisherOnce`;
* `HeldInv`: for what is open the release is still on the stack, or the step that
  was to defer it is ahead or has failed. With the empty stack this is
  `EverythingIsReleased`;
* `ServerInv`: the context is cancelled and the database closed only on the way
  out, and that begins without a server or after it failed. So in this code the
  second goroutine never shuts a listening server down (finding 4 from another
  side), and `HandlersKeepTheirDatabase` follows.

**Only model-checked.** Every safety property and action property of the passing
runs is a theorem, and so are both refinements. What stays with TLC is liveness
under fairness, which is out of TLAPS's reach: `EveryRequestEnds`,
`EveryRequestSettles` and `FailedServerExits`. The four violations are TLC's
counterexamples. The theorems hold for every value of the constants, the bounds
`MaxTimes`, `MaxEarlier`, `MaxFailures`, `MaxClock` included; what they do not lift is
the one set of ids of a request in `RemindRetries`.

## 6. Not modelled, and the plan

Not modelled, and why:

* what a log line holds besides its request id, `GormLogger`, the exporters behind
  the providers: adapters to libraries, without state that another part reads;
* lines that use cases and repository log without the request's context: each gets
  an id of its own, and nothing depends on it;
* the trace context that travels beside the request id;
* the `Worker` branches of the middleware, which no build configures;
* configuration beyond its success and its failure: its values are constants of
  the models;
* generated code: the constraints of the schema are in `RemindModel`, the rest is
  getters and descriptors;
* the brokers and PostgreSQL beyond what section 2 says (external).

`RemindService` has no clock: it lets the check of `NewRemind` succeed or fail;
`RemindModel` has one. Two hazards have no property: a creation repeated after a
cancel brings the task's reminds back, and nothing in the repository says whether
it should; and the tracer provider that `observability.Init` leaves open is an
exception of `ReleasedAtExit`.

What is left:

1. a request with several sets of ids in `RemindRetries`, so that an attempt can go
   on after another request removed the reminds of an earlier one;
2. safety facts that the liveness properties rest on, as lemmas: that some
   transaction of those that wait is `DeadlockVictim` or can go on.
