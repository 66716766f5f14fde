# A verification project for the multi-platform crypto trading hub

The hub is a FastAPI service over PostgreSQL and Redis, with Celery workers. Its
users trade on paper accounts (a simulated ledger filled from live prices) or,
if the server allows it, on live exchange accounts through ccxt. This directory
holds TLA+ models of the parts where concurrency, failure and order of events
decide correctness, the TLC runs that check small instances of them, and TLAPS
proofs of the results that hold for every instance. Line numbers are those of
`src/`.

## 1. The system: inventory

| Component | State it keeps | Operations | Interacts with |
|---|---|---|---|
| Paper adapter (`exchange/paper.py`, `paper_store.py`) | balances (free, used) and open orders of one account, in memory for one request | `create_order`, `cancel_order`, `_reserve`, `_release`, `_debit`, `_credit` | market data source for the ticker |
| Paper ledger persistence (`repositories/paper_ledger_repository.py`, `models/`) | `paper_balances` rows, `orders` rows | `load` (FOR UPDATE), `save` | PostgreSQL at READ COMMITTED |
| Account service (`services/account_service.py`) | exchange accounts, encrypted credentials | create, delete, `adapter_session` | ledger repository, exchange factory |
| Trading service (`services/trading_service.py`) | none of its own | `place_order`, `cancel_order`, lists | account service, risk limits, audit log |
| Risk limits (`trading/risk.py`) | none | `check_order`, position size, PnL, liquidation price | trading service |
| Unit of work (`database/session.py`) | one transaction per request | commit, rollback | every service |
| Exchange factory, ccxt adapter (`exchange/`) | one client per request | order and market calls | circuit breaker, exchange |
| Circuit breaker (`core/resilience.py`) | state, failures, opening time, probe flag; shared by a process per exchange | `call` | every ccxt call |
| Sessions (`services/auth_service.py`, `security/token*.py`) | token generation per user, revoked token ids (memory or Redis) | login, refresh, logout, invalidate | PostgreSQL, Redis |
| Login throttle (`security/throttle.py`) | failure counts and locks (memory or Redis) | `is_locked`, `record_failure`, `record_success` | authentication |
| Second factor (`security/totp.py`, `auth_service.py`) | secret, enabled flag, last accepted time step | enrol, confirm, disable, consume | authentication, user row |
| Rate limiter, client address (`api/middleware.py`, `client_address.py`) | request times per client | `dispatch`, `_maybe_sweep`, `resolve_client_ip` | every request |
| Workers (`workers/`), portfolio and alerts (`services/`) | module-level engine, balances summed up, audit rows | sync, evaluate alerts, clean up | exchanges, PostgreSQL, the broker |
| Indicators, calculators (`analytics/indicators.py`, `trading/risk.py`) | none | pure functions of candles and prices | market endpoints, risk endpoints |

What is hard here:

* **Read-modify-write over awaits.** Every paper operation loads the balances,
  works on a copy and saves them: two requests on one account must be serialised
  by row locks, and a row that does not exist yet cannot be locked.
* **Decisions on values read earlier.** `cancel_order` reads the order's status
  before it waits for the locks; the risk check and the fill use two tickers.
* **Failure half way.** The process, the connection or a statement can fail
  between any two awaits; `save` runs in a `finally` block.
* **Results out of order.** Calls admitted by the breaker in one state report
  their result in another; a cancelled call reports none.
* **State that outlives a restart and state that does not**: rows, Redis keys and
  tokens do; breakers, in-memory stores and the server's policy do not.
* **Checks and their effects in two round trips**: the revocation store, the Redis
  throttle and the TOTP counter are asked at one point and written at a later one.
* **Time**: lifetimes cut to whole seconds, lockouts, windows and retentions race
  with requests and with each other.
* **Exceptions raised anywhere**: the workers' time limits strike inside handlers
  and inside `finally`.

The properties that make each part correct:

* Paper ledger: no trade is lost or applied twice; funds in use are exactly the
  reservations of the open orders; an order's status is final; the whole behaves
  as if operations ran one at a time; every request ends.
* Breaker: closed exactly while healthy; never stuck half-open while calls end;
  recovers once the exchange does.
* Live trading: an order is never sent to an exchange while the policy forbids
  it; the record of an order agrees with where the order is; a cancel is recorded
  only when the exchange confirmed it.
* Sessions: a spent refresh token buys nothing; a second use ends every session;
  a client that behaves keeps its own.
* Second factor: a code counts once, on whichever endpoint; the factor is in force
  only when proved and goes only against a code. (Of overlapping requests this is
  not so: section 3, `two_factor_overlap`.)
* Throttle and rate limiter: guesses are bounded however they overlap; a lockout
  ends; every client has its own quota, whatever header it makes up.
* Workers: a run never uses another loop's engine; one failing account or user
  does not take the others along; audit rows past their retention go in the end.
* Indicators and calculators: aligned, not repainting while the chart grows, on
  their scale; a position is sized to the risk or to the buying power.

## 2. The modules

| Module | What it models |
|---|---|
| `PaperAdapter` | `paper.py` and `risk.py` as operators on a ledger, no state |
| `SerialLedger` | the abstract specification: orders placed and cancelled one at a time |
| `PaperTrading` | concurrent requests as transactions, statement by statement; refines `SerialLedger` |
| `CircuitBreaker` | `core/resilience.py` and the calls that go through it |
| `LiveTrading` | a live account under the server's policy: orders on the exchange or on paper, and what the hub records of them |
| `Sessions` | refresh tokens of one user on either revocation store, with time and restarts |
| `ClientAddress`, `RateLimiter`, `LoginThrottle` | the three components a login passes, each with its own state and steps |
| `LoginPath` | their composition: overlapping logins from several clients |
| `TwoFactor` | the TOTP columns of a user's row under overlapping requests |
| `Rationals`, `Indicators`, `RiskCalculators` | exact arithmetic; `indicators.py` and the calculators of `risk.py` as operators |
| `Analytics` | the chart of the last `limit` candles and the properties of the two |
| `Workers` | a Celery worker process, its three tasks, the portfolio service and the audit log |
| `MC*` | small instances for TLC |
| `PaperTradingProofs`, `LiveTradingProofs` (with the breaker's), `SessionsProofs`, `TwoFactorProofs`, `LoginPathProofs`, `WorkersProofs`, `AnalyticsProofs` | theorems and their proofs |
| `ArithmeticTheorems` | laws of finite sums, for the proofs about books and portfolios; induction, recursion and the arithmetic of fractions, for those about indicators |

Operators whose comment begins "Mutant of" are wrong versions of the definition
that follows them. No specification uses them; `PROJECT.json` says which property
notices each of them, which shows that the property depends on the code it is
about.

### PaperAdapter

A ledger maps each asset to `[present, free, used]`; `present` says whether the
ledger has the asset at all, which is whether the database has its row. `Credit`,
`Debit`, `Reserve`, `Release` are the four private methods of `paper.py`, with
`Covers` the condition under which `_debit` and `_reserve` do not raise.
`ResolveFillPrice` is `_resolve_fill_price`: market orders fill at `last`; a
marketable limit order fills at `min(price, last)` or `max(price, last)`, which
is `last` in both cases; post-only, non-marketable and conditional orders rest.
The types `stop_limit`, `take_profit` and `trailing_stop` behave as `stop` does
in the adapter (they rest), so one of them stands for all. `Created` is the
ledger after `create_order`, `Affordable` the condition under which it does not
raise. `WithinRisk` is `RiskLimits.check_order` as `place_order` calls it, with
the substitute for zero equity; `Accepted` combines it with `Affordable` and lets
the two tickers differ.

Amounts are naturals. The code computes with exact decimals, and the instances
are chosen so that every fee is a natural (`FeesAreExact`), hence nothing is
rounded in the model that is not rounded in the code. Rounding to
`Numeric(36,18)` when a row is written is left out. An order's base and quote
differ (`AdapterAssumption`).

### SerialLedger

State: the committed rows and order records. `Place` and `Cancel` take effect at
once. An account without rows is read as if it held the starting balance
(`Opening`). The book-keeping properties are stated here and used by
`PaperTrading` through `INSTANCE`. No run checks this module alone: the arithmetic
of rests, fills, fees and cancels, cross pair included, is checked under
concurrency by `paper_established` and proved for every order (`SerialBooks`,
`SerialReservations`).

### PaperTrading

A request is a transaction; `pc` says which statement it is at.

| Action | Code |
|---|---|
| `PlaceOrder`, `CancelOrder` | the handler up to `adapter_session`: for a cancel, the read of the record and the early return |
| `SelectForUpdate` | the snapshot of `load`'s SELECT |
| `LockRow` | PostgreSQL locks one of the rows it saw, in any order |
| `LoadLedger` | the SELECT returns, unseen rows are missing, an empty result is seeded; the open orders are read |
| `Place`, `PlaceRaises` | risk check and `create_order`, or the exception |
| `Cancel` | `PaperAdapter.cancel_order` or the NotFoundError branch, and the new status |
| `Save` | the SELECT of `save`, what it will insert and update |
| `FlushRow`, `UniqueViolation` | one INSERT or UPDATE gets its lock, or meets a committed row |
| `Commit`, `Rollback` | the end of `get_session` |
| `Abort` | process, connection or statement failure at any step |
| `DeadlockVictim` | PostgreSQL ends one of the requests that wait for each other |

PostgreSQL is external and modelled from how the code uses it: READ COMMITTED,
row locks, a unique constraint, deadlock detection. SQLite, which tests use and
where FOR UPDATE is ignored, is not modelled.

### CircuitBreaker

`state`, `failures`, `probeInFlight` are the fields of the same names. The clock
appears in the code only as `clock() - _opened_at >= recovery_timeout`, so the
model keeps what is left of the timeout (`cooldown`); `_failures` is only
compared with the threshold and saturates there. `call[c]` is what caller `c` has
in flight; its admission is remembered (normal or probe) for the properties, no
action reads which of the two it was. `Cancelled` is a task cancelled during its
call: `except Exception` does not catch it. In `BreakerNext` every call runs to its
end; `CancellableNext` adds `Cancelled`, which the workers can meet.

### LiveTrading

`liveTrading` is `settings.allow_live_trading`, read once per process. `OpenAdapter`
is `adapter_session`: the policy decides whether the request gets a paper or a live
adapter, which it uses later (the risk check asks for the ticker and the balances
in between). On paper a request is one step (`PlaceOnPaper`, `CancelOnPaper`:
`PaperTrading` is about what happens inside). Live, `Send` puts a message on the
network, the exchange carries it out (`ExchangeCreates`, `ExchangeCancels`) or refuses it
(`ExchangeRefuses`, an ExchangeError), its answer may carry no status and
no identifier, and `Persist` records what `_parse_order` made of it. A record without an identifier
is cancelled by marking it (`MarkCanceled`). `Raise` stands for every exception: a rejected order, an open circuit, a timeout, a lost answer, a failed
commit. A message outlives the request that sent it, so an exchange may act on a
request the hub has given up. `ExchangeMoves` fills, cancels or expires an open
order; the hub is not told. `Restart` ends all requests in progress and may change the
policy (`PolicyChanges`). The exchange is external and modelled from how ccxt's
answers are used. Orders that the exchange accepted and the hub could not record
do occur in the model: no part of the code looks for them.

### Sessions

Login, refresh and logout of one user (tokens of different users share nothing).
`LoginRead`/`LoginIssue` and `RefreshDecode`, `RefreshRead`, `AskStore` split a
request at its awaits. With the in-memory store `AskStore` goes on to mark the
token and issue the pair in the same step, because nothing there suspends; with
Redis `RedisRevoke` and `RedisIssue` are steps of their own. `Invalidate` is
`_invalidate_sessions` with the commit before the exception; it writes the
generation it read plus one. Time is counted in half seconds, since
`_remaining_ttl` cuts to whole ones. `Restart` empties the in-memory store and, with
an ephemeral secret, voids the tokens. Whether the user is active is an input of
`RefreshRead`. Three variables exist for the properties only: `presented`/`twice`,
`spent` (what the store has been told since it was last empty) and `slipped`.

The promise of single use has limits in the code, which the properties name
instead of hiding: two refreshes that *both* begin before the token is spent may
both succeed with Redis; an entry may end up to half a second before the token it
covers; an in-memory store forgets at a restart; detections that overlap can write
the generation back to an earlier value (`slipped`).

### ClientAddress, RateLimiter, LoginThrottle, LoginPath

`ResolveClientIp` is `resolve_client_ip`: the peer, or behind a trusted proxy the
rightmost hop that is not one. `Route` builds what the application sees from the
client's origin, a header of its own making and the proxies on the way.
`RateLimiter` keeps the deques as ages; `PopPast` is the loop that pops what has left
the window from the front, and `Admit` includes `_maybe_sweep`. In
`LoginThrottle` every method of the in-memory class is one step; on Redis
`record_failure` is `RedisCount` (INCR and EXPIRE in a pipeline), then `RedisLock`.
`LoginPath` runs overlapping attempts on one identity through all three: `Arrive`
or `TurnAway`, `Proceed` or `Reject`, then `Fail` (and `SetLock`), `AskForCode` or
`Succeed`; what the password check answers is an input. `admitted` and `wrong` are
for the properties.

### TwoFactor

A request reads the row (`Begin`), decides (`Enroll`, `Confirm`, `Disable`, `Login`)
and commits later; `Commit` writes only the columns the request changed, as the ORM
does, over whatever the row holds by then. `Abort` is any failure before the commit.
A code is its secret and time step. `raced` says that the row comes from a write
over one that had changed since it was read; it ends with the next enrolment or
removal that nothing overlapped, so the properties speak of all later states again.
While it lasts they do not hold, because nothing locks the row: an enrolment
that overlaps a confirmation replaces the enabled secret without a code
(`two_factor_overlap`), a removal that overlaps a removal and a new confirmation
takes the new secret out with a code of the old one, and two logins that overlap
can both use one code.

### Rationals, Indicators, RiskCalculators, Analytics

Each indicator is an operator on a series, by the code's own recurrence (running
sum, Wilder smoothing, trailing line), with `None` for leading positions; the
properties compare them with what they are meant to be (a mean over a window, a
scale of 0 to 100). Arithmetic is exact: the code's floats round, which is left out.
Bollinger bands are modelled up to the square root, which rationals do not have
(the variance stands for the width). `NewCandle` is what two requests of the same
chart see of a candle that closes between them: the chart grows by it up to `Limit`
candles and then loses its oldest one. All indicators and the calculators are
evaluated on every such chart; the candle in progress is not part of it.

`AnalyticsAssumption` says what the program is given: prices are positive and a
candle's close lies between its low and its high, volumes are not negative, periods
are positive (`_require`, `ge=1` of the API) with macd's fast one below the slow one,
leverages and prices asked for are positive (`gt=0` of the schemas). supertrend's multiplier, a float, is a natural.
`None` is not a number.

### Workers

`run` is the task in progress, `engine` the module-level engine: "mine" was made on
the present event loop, "stale" on an earlier one. `Take` starts a loop, `Connect`
makes the engine or fails on a stale one, `Finish` is `_run`'s `finally`.
`SoftLimit` is an exception raised where the task is: inside `reset_engine` it
leaves the engine behind (`cutShort`), inside the per-account and per-user handlers
it is swallowed as one of their failures, elsewhere it ends the run. `HardLimit`
and `Crash` take the process away, with or without the message
(`task_reject_on_worker_lost` is not set, so a lost task may be acknowledged). All users of a run
share one database session, which an error aborts (`session`). A row's age is in
days; the cutoff is fixed when the task starts (`run.elapsed`).

## 3. The runs

| Run | Expect | What it shows |
|---|---|---|
| `paper_established` | pass | three requests of four order kinds or cancels, on two pairs that share an asset, on an account whose rows exist: the locks serialise them (`Serializable`, refinement of `SerialLedger`), the books balance, funds in use back the open orders, statuses are final |
| `paper_first_use` | pass | the same on an account without rows: every request ends |
| `paper_new_asset_lost` | violation | a row that does not exist yet cannot be locked: of two first purchases of an asset one can be missing from the balances |
| `breaker` | pass | failure accounting, no stuck half-open, recovery, when calls are not cancelled |
| `live_policy_changes` | pass | nothing is sent while forbidden, records name the venue their order went to, reservations are not stranded, statuses are final, a cancel is recorded only when confirmed, under any change of policy |
| `live_cancel_after_policy_change` | violation | cancelled through the paper adapter, a live order stays open on the exchange |
| `sessions` | pass | a replayed token buys nothing, a reuse drops every session, a client that presents no token twice stays in; both stores, both kinds of secret, restarts |
| `login_path` | pass | own quota, bounded guesses, lockouts that end; both backends |
| `two_factor` | pass | single use, proved before enabled, kept until a code of the secret removes it, wherever no request writes over another |
| `two_factor_overlap` | violation | an enrolment that overlaps a confirmation changes the enabled second factor without a code |
| `analytics` | pass | seven properties of ten indicators, the trend and four calculators, on charts that grow and windows that slide |
| `workers` | pass | engine of this loop, isolation of failures, and that old rows go once runs are not interrupted for ever |

The violations are disagreements between the code and its own comments or
documents; `PROJECT.json` quotes the lines under "findings".

**Bounds.** Three requests are the least that show an order placed, a cancel
waiting and a third request between them, and the least that could make three
transactions wait in a circle; two suffice for a lost update. Two assets make the
lock order matter, three a cross pair (`paper_established` sells and buys on
ETH/BTC next to orders on BTC/USDT). Two prices make a limit order marketable
or not; the amounts are such that funds run out within three orders. The fee is
10% instead of 0.1%, so that it is visible in small naturals. The breaker runs
with three callers, so that a probe and two late results can overlap, threshold
two and timeout two. Three requests on the live account allow an order and two
cancels of it. `sessions` has two tokens (a login's and the one it was exchanged
for, or two logins'), two requests and a life of two and a half seconds, so that
the half second the store may miss exists; generations reach two, enough to be set
back. `login_path` has two clients and one with no address, one proxy that can be
passed twice, an unparsable entry in the list of proxies, a limit of two in a
window of one tick, and two guesses that lock for two ticks; the counter saturates
at four. `two_factor` has two requests, two secrets (an enrolment after a removal)
and a window of one step around two points in time. `analytics` has windows
of up to five candles of five kinds (flat, without trades, moves, gaps) and periods
of one to three: every series is then defined for some and undefined for other
candles, and a window that slides still holds complete windows of an indicator. `workers` has two users with three accounts, one of them live, one audit
row that is written again, a retention of one day; ages saturate past it.
The callers', tokens' and requests' identities play no role, which makes the
symmetry of the safety runs sound; the liveness runs use none. The largest run,
`two_factor`, has 5.5 million states and takes two minutes, `sessions` 1.5 million
and half a minute, `analytics` evaluates much on 3,906 states in about a minute and
a half; the others take less than a minute each.

**Fairness.** `PaperTrading`: a request that has arrived makes progress
(`WF(Step(r))`): the event loop resumes it and PostgreSQL grants free locks and
breaks deadlocks. Nothing is assumed of arrivals, failures, or of who gets a
lock. `CircuitBreaker`: time passes, an admitted call returns (the ccxt client
has a timeout), and a call the breaker would admit is made some day. Whether
calls succeed is not assumed: `Recovers` says what follows if they stop failing.
`LoginPath`: only that time passes; clients may do as they like. `Workers`: the
beat schedule goes on and a task gets on (weak fairness), time passes, and a kind
of message that is in the queue again and again is taken (strong fairness: the
queue is first in, first out, so the other kinds cannot overtake it for ever).
Interruptions are not fair; `OldRowsGo` assumes that they stop: from some point on
no step is a crash, a limit or an error (but one that does what `Finish` would).

## 4. The proofs

All of them hold for every set of requests, assets, orders, prices, callers,
tokens, secrets, clients, proxies, attempts, users, rows and candles, and for every
limit, window, lockout, retention and period; the assumptions are the modules'
`ASSUME`s. Two of them say that a set is finite: `Account` of `Workers`, whose balances are summed up,
and `Attempt` of `LoginPath`, whose number is in the bound. Nothing else needs to be.

* `PaperTradingProofs!TypeCorrect`: `Spec => []TypeOK`. Naturals are the point:
  no balance is overdrawn. The type invariant alone is not inductive: `Cancel`
  builds its outcome from `records[op[r].target]`, so the target of a pending
  cancel must have a record. `RecordInv` says so, and that an outcome continues
  the record it will replace. The induction is on `IInv == TypeOK /\ RecordInv`,
  one lemma per action.
* `PaperTradingProofs!FinalStatus`: `Spec => StatusIsFinal`, from the same
  invariant: a commit is the only step that writes a record.
* `PaperTradingProofs!SerializableAccount`: if every row exists at the start
  (`EstablishedAccount`), `Spec => Serializable`. The strengthening `SInv` says that
  rows never go away and that a request past its SELECT holds the lock of every
  row and a working copy which is the committed rows changed by its own
  operation, so `Commit` is a `Place` or a `Cancel` of the serial ledger and every
  other step a stutter. The hypothesis is needed: `paper_new_asset_lost` refutes
  it on an account that lacks one row, and an account without rows fails in the
  same way.
* `PaperTradingProofs!SerialBooks` and `SerialReservations`: the serial ledger keeps
  `BooksBalance` and `UsedBacksOpenOrders`, also on an account that its first order
  seeds. `BooksBalance` is not inductive alone: a cancel releases
  `min(used, reservation)`, and that the minimum is the reservation follows from
  the sum of all reservations being in use (`ReservationCovered`). `LedgerInv` has
  both, that only finitely many orders are placed, so that the sums are finite
  although `Req` need not be, and that rows exist or nothing was placed, which is
  what the seeding order starts from. `CreatedBooks` is what one `create_order` does to the books, `BooksPlace` and
  `BooksCancel` the two steps.
* `PaperTradingProofs!BooksKept` and `ReservationsKept`: on an established account
  the concurrent specification keeps them too: a corollary of the refinement.
* `ArithmeticTheorems`, first part: how a sum over a finite set changes when an index is added or
  removed, when one value changes, and that it is monotone. `SumFunctionOnSet` is a
  fold whose order is chosen, so first `AddsUpUnique` and `AddsUpExists` show that
  there is one function that adds up every subset. The induction is first-order:
  `SubsetInduction` takes the smallest subset outside a given *set* (the strict
  subset order of a finite set is well-founded), so no operator is instantiated.
* `LiveTradingProofs`: `TypeCorrect`, `VenueRecorded`, `ReservationsKept`,
  `PolicyEnforced`, `FinalStatus`, and `ConsistentUnderFixedPolicy`
  (`~PolicyChanges => (Spec => []CanceledIsNotOpen)`). `RecordsNameTheVenue` is not
  inductive: a late message could create an order that meanwhile has a record.
  `Inv` adds that an order is unknown everywhere until its own request sends it
  (`Fresh`), that there is no record while its message is under way
  (`MessageInv`), what an answer says of the exchange (`AnswerInv`), and that a
  cancel in progress is about a record that was not filled (`OpInv`).
  `PolicyEnforced` rests on `Inv` as well: a request holds a live adapter only while
  the policy allows it, because only a restart changes the policy and none of the
  requests survives it.
  `ReservedForOpenPaperOrders` rests on the venue: an answered cancel is about a
  live order, which has no reservation. `CancelsConfirmed` follows from `AnswerInv`:
  a record with an identifier becomes canceled through an answer that says so or, on
  paper, while live trading is off.
* `LiveTradingProofs`, second part, of `CircuitBreaker`: `BreakerTypeCorrect` and
  `HealthTracked` (`[]ClosedIffHealthy`, inductive together with the types) of
  `CancellableSpec`, hence of `BreakerSpec`, which implements it; `ProbeAccounted`,
  `[]HalfOpenHasAProbe` of `BreakerSpec` only: a cancelled probe breaks it.
* `SessionsProofs`: `TypeCorrect`, `LoyalClientKept`, `ReplaysRefused`, `ReuseDrops`.
  `ReplayRefused` speaks of a step and needs what led to it: `RotationInv` says that
  a spent token's entry lasts to within half a second of the token (`Entries`, the
  rounding of `_remaining_ttl`) and that a request which began with a spent token
  either has the store still to ask or asked it in the last second (`Replays`).
  `CounterInv` says that, until the counter slips, no token and no request is ahead
  of the generation. `LoyalInv` says that while no token was presented twice
  the generation is zero, no two requests hold the same token and nothing in flight
  is revoked.
* `TwoFactorProofs`: `TypeCorrect`, `Proven`, `CodesUsedOnce`, `SecondFactorHeld`. The
  invariant carries what a request checked from its decision to its commit
  (`Decided`), what a request with a used code must have read (`Snapshot`), and that
  a secret not committed yet is nowhere but in its own enrolment (`Private`,
  `Apart`), without which a code could be used against a secret before it is in
  the row. `RowInv` adds to `EnabledIsProven` that no code of a pending secret was
  ever used. All of it is said of rows that do not come from overlapping writes
  (`raced`), and what a clean enrolment or removal leaves re-establishes it.
* `LoginPathProofs!QuotasKept`: `[]OwnQuota`. Two arguments meet. `ResolveSeesOrigin`:
  behind any number of proxies, and with any header in front, the rightmost hop
  that is not trusted is the client itself, so every request is counted under its
  origin (`ClientIsCaller`). `QuotaInv`: the hits of a bucket are in order, the oldest
  first (`Declining`); hence popping from the front leaves exactly the window
  (`Popped`), a bucket dropped by its newest hit had none left (`SweepCounts`), and
  what the deque keeps beyond the window never counts again (`WindowTick`).
* `LoginPathProofs!GuessesKept`: `[]GuessesBounded`. `Covered` says that the lock outlasts
  every recorded guess but the newest `max_attempts - 1`, or but those the counter
  still knows of if they are fewer; that in memory a counter at the limit means
  that the lock outlasts all of them; and that on Redis each is outlasted by the
  lock or by the counter's expiry. Hence with the lock gone fewer than
  `max_attempts` are left (`FewWhenUnlocked`), and `Room` counts the attempts past the
  check on top. The counter is set and expires on its own and the lock is set in a
  second round trip, which is why both timers are in it. `LoginTypeCorrect` follows
  from the two invariants.
* `WorkersProofs`: `EngineRebuilt`, from the fact that between runs an engine is left
  by an interrupted `reset_engine` only (`LeftBehind`);
  `SyncIsolatesFailures`, from `Portfolio`: at any point of a sync the accounts tried
  and those still to try make up all accounts, and each total is the sum of the
  answers so far; `WorkersTypeCorrect`, which needs the sums to be monotone and a
  run's message to stay in the queue until the run acknowledges it (`Messages`).

* `AnalyticsProofs`: all seven properties of the run `analytics`, for charts of any
  length: `LinesAligned`, `OscillatorsOnScale`, `AveragesAreAverages`,
  `SuperTrendOnlyTrails`, `NothingRepaints`, `PositionsSizedToRisk`,
  `CalculatorsInAgreement`. The state is the chart, and that it is a sequence of
  candles (`ChartInvariant`) is the whole inductive invariant; `NewCandleIs` says that
  a step extends it by a candle or shifts it by one. The work is in what a
  chart implies, and goes in layers:
  - *Fractions* (`ArithmeticTheorems`, last part). Euclid's algorithm terminates, so
    the recursive `Gcd` is a function (`GcdUnfold`); it divides both numbers and a
    common factor can be taken out (`GcdScales`). Hence equal fractions are equal
    records (`FracEqual`), without which no equation between indicators could be
    proved, any four have a common denominator, and order, sums, products and
    quotients obey the laws the later steps cite.
  - *Recurrences.* `SumsIs`, `SmaIs`, `WilderIs` and `EmaIs` say what the recursive
    definitions compute, position by position, and `DefinedIs` what a filtered series
    is. The rest never unfolds a recursion again.
  - *Bounds.* One step of Wilder's smoothing or of ema keeps any lower and any upper
    bound of the values (`WilderStepAbove`, ...), so both stay within them. With the
    values not negative this puts rsi, dx and adx on their scale; `WeightedSums` does
    the same for vwap.
  - *Alignment.* `From(line, n, k, V)` says that a line over `n` candles is undefined
    before `k` and in `V` from there on. Every line is of that form; `ShiftedFrom` is
    the offset by which macd, %D and adx put a shorter list back.
  - *Stability.* The `...Stable` lemmas say that an indicator of a longer chart
    agrees with that of the shorter one where both are defined. adx is the hard one:
    the position its offset depends on is where dx begins to be defined, which does
    not move because a smoothed range that was positive once stays so
    (`WilderStaysPositive`, `DxKeepsDefined`, `AdxShows`). That needs a period above
    one, hence the exemption in `NoRepaint`: see section 5. `SlidKeeps` is the case of a
    window that slides: sma, the middle band and %K depend on their own window only
    (`SlidWindow`).
  - *Calculators.* `PositionSized` splits on whether the leverage cap binds
    (`CapBites`); `MarginAlgebra` is the identity behind `liquidation_price`.

Induction over data is out of the provers' reach as a rule with an operator for its
parameter. These proofs state it for a *set* of numbers instead (`StrongInduction`,
`StepInduction`, `SubsetInduction`): the set is a `DEFINE`d one, and the backends
instantiate it like any other constant. `RecursionExists` makes of it the existence
of a function defined by recursion, which is what a recursive definition's CHOOSE
needs.

Type invariants that are proved are not checked again by a run of `breaker` or
`two_factor`.

Only model-checked: `EveryRequestEnds`, `Recovers`, `LockoutEnds` and `OldRowsGo`,
liveness under fairness. Every safety property that a passing run checks is stated
by a theorem; those of `SerialLedger` are stated of its instance in `PaperTrading`
(`SerialBooks`, `SerialReservations`).

## 5. Known divergences that no run states

Met while modelling; each is a behaviour of the models above, and no run repeats
it as a violation.

* A stop buy without a price reserves nothing (`exchange/paper.py:156`), while
  `paper.py:13-16`, `docs/security.md:71` and `README.md:39` say that a resting order
  reserves the funds it would need. The instances of the runs have no such order;
  in the theorems `UsedBacksOpenOrders` counts what the code reserves, which is zero
  for it.
* A record without the exchange's identifier, which an answer without one leaves
  (`exchange/ccxt_adapter.py:276`), is marked canceled without asking the exchange
  (`services/trading_service.py:136`), where the order may be open.
  `CanceledIsNotOpen` and `LiveCancelIsConfirmed` speak of records that have one.
* A failure of a late call while the breaker probes clears the probe flag and lets a
  second probe in (`core/resilience.py:83`, comment at line 70). A cancelled probe
  leaves the circuit half-open for good (line 95): `except Exception` does not catch
  the cancellation. `CancellableSpec` has both.
* A cancel answered without a status is parsed as open and recorded so
  (`exchange/ccxt_adapter.py:280`).
* Overlapping logins with one TOTP code, a removal with a code of an older secret
  that overlaps a new enrolment, overlapping reuse detections, and a lock set after
  another attempt's success: see `TwoFactor`, `Sessions`, `LoginThrottle`. (The secret
  that an overlapping enrolment swaps is a run: `two_factor_overlap`.)
* After a database error the remaining paper accounts and users of a portfolio
  sync fail with it, since they share the session: see `Workers`.
* adx with a period of one, which the API admits (`api/v1/analytics.py:37`, `ge=1`),
  repaints: smoothing over one candle forgets, so a flat candle after one with a
  range makes atr zero again and leaves a hole in dx; the hole is dropped, the offset
  grows by one and the earlier values move by one candle (`analytics/indicators.py`,
  `adx`). `NoRepaint` exempts this one case. No other indicator and no other period is
  affected while the chart grows: `NothingRepaints`.
* Once a client asks for a full window (`limit`, 200 by default), ema, rsi, atr, adx,
  macd, vwap and supertrend are seeded from another oldest candle at each request
  (`services/market_service.py:73`), and what they show of a candle changes a little
  with every new one. Nothing in the code or its documents promises otherwise.
  `NoRepaint` asks only sma, the middle band and %K to keep their values then.
* `position_size` "loses exactly `risk_per_trade`" at the stop (`trading/risk.py:37`) and
  returns "the currency amount at risk" (`risk.py:40-41`) only where the buying power
  allows the position. A capped position loses strictly less than the `risk_amount`
  that is returned with it. `SizedToRisk` states both cases exactly.
* `liquidation_price` of a long position is not positive at a leverage up to 200/201,
  which the schema admits (`schemas/trading.py:80`, `gt=0`). Such a position cannot
  be liquidated; `pnl` then refuses the price, and `CalculatorsAgree` speaks of
  positive ones only. The instance has a leverage of one half.

## 6. Not modelled, and the plan

* Hashing and encryption, configuration, logging, error envelopes, routing, the
  dashboard, list and read endpoints: no state that changes, or pure I/O. Settings
  appear as constants or as initial choices.
* Account creation and deletion while requests run: what a request in progress
  sees of a cascade is the database's, and differs between SQLite and PostgreSQL.
  Registration is covered by a unique index.
* Market data and the testnet switch of the exchange factory: reads of an external
  service. Reconciling orders an exchange accepted and the hub could not record:
  there is no such code.
* Rounding: floats in the indicators, `Numeric(36,18)` in the rows, decimals in the
  calculators. The models are exact.
* `pivot_points`: six formulas without state or recurrence.
* Alert evaluation: the task loads the rules and does nothing with them yet.

The plan: the modules above are done, and every safety property is proved. What is
left are the refinement of accounts in first use should the code come to lock them,
a model of account deletion should the code come to define it, and the error that
floating point adds to the indicators, for which the exact series are the reference.
