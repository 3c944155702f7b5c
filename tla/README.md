# A formal model of the payout engine

The payout engine is a Go service that answers one question for a merchant with
three acquirers: which of my card and QR payments have been paid out, which are
late, and how much money comes when. It keeps everything in memory. Files come
in over HTTP (or from a fixture directory at the start), queries go out.

This directory holds TLA+ modules for the service, TLC configurations that
check them on small instances, and TLAPS proofs of what matters most. Source
paths below are relative to `src/`.

## 1. Inventory

| component | source | state | operations | here |
|---|---|---|---|---|
| store | `internal/store/memory.go` | two maps under one `RWMutex`: transactions by ID, settlements by (transaction, acquirer) | save one record (overwrites), list all records | `StoreLock`, `AtomicStore`, `Ingestion`, `TransactionLifecycle` |
| upload handlers | `internal/api/handlers.go` | per request: the parsed records, the loop index | `POST /ingest/transactions`, `POST /ingest/settlements/:acquirer` | `Ingestion` |
| transaction loader | `internal/api/loader.go` | none | CSV to records, whole file or error | `Parsers` |
| settlement parsers | `internal/ingest/*.go` | none | two CSV formats, one JSON format | `Parsers` |
| money | `internal/domain/money.go` | none | decimal text to and from minor units | `Money` |
| schedule and calendar | `internal/schedule/schedule.go`, `internal/domain/time.go` | none | expected settlement date per acquirer | `Schedule` |
| start-up | `cmd/server/main.go` | position in the fixture load | load fixtures, listen, exit on error | `Ingestion` |
| reconciliation | `internal/reconcile/reconcile.go` | per call: index, counts, consumed keys | match, flag discrepancies | `Reconcile`, `ReconcileLoop` |
| queries | `internal/query/service.go`, `internal/api/handlers.go` | per request: parameters, one or two snapshots | unsettled, settled, overdue, forecast, cash flow, fees, anomalies | `PayoutEngine`, `Cashflow` |
| forecast arithmetic | `internal/forecast/forecast.go` | per call: buckets | predicted cash per day and acquirer | `Forecast` |
| fee rules, anomalies | `internal/anomaly/detect.go` | none | expected fee, deviation | `Fees` |
| fixture generator | `cmd/gen-testdata/main.go` | transactions drawn, file being written | generate, write four files | `Fixtures` |
| HTTP layer | `internal/api/handlers.go`, gin | none | routing, rendering, `/health` | left out |

How they interact: `main` creates the store and the query service, loads the
fixtures itself, then listens. net/http gives every request a goroutine. An
upload parses its whole body, then saves row by row, taking the write lock for
each row. A query takes the read lock once for the transactions, releases it,
takes it again for the settlements, releases it, and reconciles the two
snapshots without any lock. There is no other shared state, no callback, no
message and no persistence: when the process ends, the store is gone.

### What is hard here

* **Uploads are not atomic.** Rows of two files interleave; a client that
  retries adds a second goroutine over the same rows while the first, which
  never looks at the request's context, runs on.
* **Uploads stop midway.** An unknown acquirer ends a transaction upload with
  400 after the rows before it have been stored.
* **Everything overwrites.** Last row wins, in a file and across files, and a
  transaction may return under another acquirer.
* **Order is free.** A settlement may precede its transaction.
* **Reads are torn.** Uploads and midnight come between a query's snapshots.
* **A list takes time.** A map is copied entry by entry while others wait to
  save; only the lock makes that one step.
* **Maps have no order.** The inputs of `Reconcile` and `Forecast`, and their
  loops, come in whatever order Go walks a map.
* **Days have edges.** Weekends, the GlobalPay window, "on or before" against
  "before", Bangkok days and months against instants.
* **Amounts have edges.** Signs inside a fraction, remainders of negative
  amounts, half-up rounding, fee tiers, a fixed fee above the payment, an
  expected fee of zero.
* **Two programs must agree.** The generator's float arithmetic, the parsers'
  checks and the detector's integer arithmetic describe the same fees.

`PROJECT.json` lists each of these at its line, with the properties meant to
catch it going wrong.

### What makes each component correct

* store: saves and lists act as single steps, and each call returns.
* uploads: an answered file is in the store; a refused one has left exactly the
  rows its answer implies; whatever the interleaving, once uploads are quiet no
  row superseded by its own file is left; seen from one transaction, nothing
  happens but entering, settling, moving to another acquirer and the loss of the
  whole ledger; every upload is answered.
* start-up: it ends, serving or exiting.
* schedule: an expected date is a day on which that acquirer pays.
* money: what is printed reads back, and what is read is the amount named.
* reconciliation: one result for every map order; no settlement row unnoticed.
* queries: no invented missing payment, no withdrawn payment, exact about
  whatever was left alone while the query ran, no alarm before the day is over,
  nothing open out of sight, books that balance, always an answer.
* forecast: if it comes true, the cash flow query says the same on top of what
  is stored already.
* fees: nearest satang; the detector agrees with the generator at every tier.
* generator: what it writes the service reads, and reconciles to the numbers the
  sample was made for.

## 2. Modules

```
Schedule    Money    AtomicStore (abstract)        TransactionLifecycle (abstract)
   |          |           | INSTANCE                    | INSTANCE
   |          |       StoreLock --- MCStoreLock         |
   |          |                                         |
   +----------+--- Parsers ----------------------- Ingestion --- MCIngestion
   |          |       |                                 |
   |          +--- Fees, Cashflow ----------------------+
   |          |       |                                 |
   +-- Reconcile -----+---------------------------------+--- PayoutEngine
   |      |           |                                        |
   |  ReconcileLoop   |                                    MCPayoutEngine
   |      +-----------+--- Forecast --- MCForecast
   |
   +--- Fixtures (EXTENDS Parsers, Reconcile, Fees) --- MCFixtures

proofs: Schedule_proofs, Fees_proofs (Money and Fees), StoreLock_proofs,
        Ledger_proofs (Cashflow's sums, Reconcile; uses Fees_proofs),
        Ingestion_proofs (uses Schedule_proofs),
        PayoutEngine_proofs (uses Ingestion_proofs, Ledger_proofs),
        Forecast_proofs (ReconcileLoop and Forecast; uses Ledger_proofs,
        Schedule_proofs),
        Fixtures_proofs (uses Fees_proofs, Schedule_proofs)
```

**Schedule** is the calendar and the three schedules as operators. Bangkok has
no daylight saving, so a Bangkok day is an integer and `AddDate(0,0,k)` adds k;
day 0 is a Sunday. `NextBusinessDay` and `nextGlobalPayWindow`, loops in the
code, are the first day of a range with a property. An instant is a number of
hours.

**Money** is decimal text and int64. A text is kept as its parts: sign, whole
digits, whether there is a point, and after it a sign of its own, the number of
digits and their value; any other text is `Malformed`. `Converts` is
`ParseMinorUnits` returning no error, `Wrap` the overflow of `whole*100 + frac`,
`FormatMinorUnits` is `"%d.%02d"` with Go's truncated division, so that the
remainder of a negative amount carries its sign. `HalfRange` stands for 2^63.

**Parsers** says which files are accepted and what records they give. A file is
"framed" (required header columns present, or decodable JSON) and a sequence of
rows; an amount column holds decimal text, a date column its converted value,
either may be `Malformed`. What is kept is the control: a file is accepted whole
or not at all; settlement amounts must agree (gross - fee = net); only the JSON
parser insists on a reference and on JSON numbers; CSV dates are Bangkok days,
JSON dates are instants; the transaction loader looks at neither acquirer nor
currency, and trims the ID (`TrimSpace`), which the settlement parsers do not.

**Fees** and **Cashflow** are the arithmetic of `internal/anomaly` and of the
two summing queries, in int64. A calendar month is known by its first day, and
the months in question are a constant (`MonthStarts`).

**AtomicStore** is the store as its callers think of it: call, one step that
saves or lists, return. **StoreLock** is the store as it is written: a writer
announces itself, waits for the readers before it, writes and unlocks; a reader
that comes after the announcement waits; a list copies its map entry by entry in
any order. `StoreLock` implements `AtomicStore`, with `phase` the refinement
mapping of the program counter. This is what allows every other module to take
one save, and one snapshot, as one step.

**Ingestion** is the store, the uploads and the life of the process.

| variable | code |
|---|---|
| `txns`, `settlements` | the maps of `Store` |
| `pc`, `txnBatch`, `stlBatch`, `next` | for each handler goroutine and for main: where it is, `records`, the loop index |
| `reply` | the last response of each handler |
| `toLoad` | what is left of `settlementFiles` in `loadFixtures` |

One action per lock-protected or externally visible step:
`PostTransactions`/`PostSettlements` (read and parse the body: no shared
state), `SaveNextTransaction`/`SaveNextSettlement` (one turn of the loop, with
the schedule lookup and the save), `StopAtUnknownAcquirer`, `FinishUpload`;
`Start`, `OpenTransactions`, `OpenSettlements`, `FixtureUnknownAcquirer`,
`FixtureSaved`, `Listen`, `Crash` for the process. `Exit` is `log.Fatal`: the
process and its memory go.

**TransactionLifecycle** is the abstract promise about the ledger: per
transaction, known or not, under which acquirer, settled or not; one
transaction changes at a time. `Ingestion` implements it with
`ledger <- Ledger`, where a transaction is settled when the settlements map has
its (ID, acquirer).

**Reconcile** defines what reconciliation should return, without loops.
**ReconcileLoop** is the code: index the rows keeping the first of each key,
flag repeated keys, match the transactions in any order, then walk the index in
any order for rows nobody consumed. **Forecast** goes on from its result: every
entry, in any order, is put into the bucket of its day and acquirer or left out,
then the totals are made.

**PayoutEngine** composes Ingestion with readers, who serve all seven queries.
`Arrive` fills in the defaults (`WithDefaults`) and validates, `ReadTransactions`
and `ReadSettlements` take the snapshots in the order of the code's argument
lists (`After`; cash flow, fees and anomalies read settlements only,
`FirstRead`), `Answer` is the reply. A parameter that the handler of a query
does not read is ignored, malformed or not (`ReadsDays`, `ReadsDate`). `NextDay`
is midnight in Bangkok. `touched`
and `unsettled` are history variables that nothing reads but the properties.

**Fixtures** is the sample generator in full size. Its fees are float64; since
the rates have no exact float64 and a product may be fused with the sum, a fee
that lies exactly between two satang may be rounded either way, and the model
takes both. A net is the difference as float64 gives it, off by up to a
thousandth of a satang, and then rounded (`NetsOf`): that the rounding undoes
the error is proved (`NetsAreExact`), the bound on the error is not. It rests on
the size of the amounts: below 50000 baht the nearest float64 is less than 10^-11
baht away. Of a file only the row written last is kept, with the position of
its transaction (`written`); the rows come in the order of the positions. A
write whose error is looked at ends the program (`WriteFails`: a directory or a
file cannot be created, a row does not go through, the JSON file cannot be
written). The last flush of a CSV writer is deferred and its error is never
asked for: `OpenNextFile` goes on to the next file whether it succeeds or not.
What the disk then holds is not modelled (section 5).

Operators introduced as "Faulty variant of ..." stand just before the operator
they vary. Each is a plausible bug (an off-by-one, a dropped check, the first
row kept instead of the last, two reads swapped); nothing uses them except the
mutants of `PROJECT.json`, which put them in place of the real ones to show that
each property can fail.

## 3. What the runs check

| run | instance | shows |
|---|---|---|
| `ingestion` | 2 handlers, 2 transactions, a padded and a blank reference, 3 transaction files, 6 settlement uploads, fixtures present, missing, unreadable and with an unknown acquirer | types; expected dates are real; 200 means stored; 400 midway means the prefix is stored; the last row wins under interleaving, for both maps; the lifecycle is implemented; every accepted upload is answered; every start ends |
| `engine` | 1 upload goroutine, 1 reader, 10 queries of all seven kinds with and without parameters, some malformed, 2 days, the second the first of a month | the promises about answers; fees and cash of a month add up to its gross; every query is answered |
| `forecast` | every call with up to 3 rows of 5 kinds, one of them with a padded reference, 4 sets of transactions, as_of before, on and after the expected day; and forecasts of 3 transactions at the tier limits and around GlobalPay's fixed fee, windows of 0 to 2 days, with up to one row stored already and dated in the window; every map order | the loops compute `Reconcile`; no row unnoticed; the forecast, if it comes true, is the cash flow on top of the rows stored already; totals and currency; printed nets, day totals and grand total |
| `store_lock` | 2 writers, 2 readers, a map of 2 keys, 2 values | the lock excludes; the store is atomic; every call returns |
| `fixtures` | 300 transactions per invocation, 3 random sources with the tier limits and extreme amounts among the draws, every file row by row, a write that fails at any point | what is written reads back; no sample fee is an anomaly; the sample reconciles as intended |
| the seven others | as above | documents and code disagree (section 5) |

Why these bounds are enough to meet the hazards. Two handlers interleave in all
ways two uploads can, and each may repeat the same file (the retry). The files
hold what can go wrong in a row: a key repeated with a correction, a second file
for the same key, a transaction that moves to another acquirer just before a row
of an unknown one, a refund, amounts that disagree, an empty file, an unknown
path. Transaction days include a GlobalPay window day and days before a weekend.
In `forecast`, three rows are the fewest that contain a duplicate pair and a
stray of the same transaction, and three transactions the fewest that share a
day, share an acquirer's bucket with nobody, and miss the window. In `engine`,
one upload goroutine suffices because its uploads follow each other while the
query runs, so any number of saves may come between the snapshots; readers do
not affect each other or the store, so one reader stands for all. Its two days
are the expected day of a transaction and the one after. The other transaction
moves between an acquirer that pays the next day and PromptPay over a weekend,
five days after it, so that a default window of four days would lose it; and one
settlement is paid at an instant that is still the month before in UTC. In `store_lock`, two
keys are the fewest a copy can tear, two writers the fewest that compete for the
announcement. `h1` and `h2` are interchangeable; symmetry is used only in
violation runs without temporal properties.

The model has no counter that grows without bound. What is bounded, by
constants: the clock (`FirstDay .. LastDay`), the months (`MonthStarts`), what
uploads may bring (`TxnFiles`, `SettlementUploads`, `TxnFixtures`,
`SettlementFixtures`), the queries, the inputs of a forecast (`Inputs`), the
draws of the generator, and `HalfRange`: TLC's own integers have 32 bits, so it
is less than 2^31 there and amounts stay far below; the wrap at the limit is
left to the proofs. Deadlock is checked in the ingestion, engine and store runs;
the forecast and fixture runs turn it off, because a call that has returned and
a program that has ended stop.

**Fairness.** Weak fairness for a handler that has accepted a file, for main
while it boots, and for a reader with a query in hand: the Go scheduler runs
every goroutine that can run. No fairness for requests, starts, crashes or
midnight. That the lock starves nobody is not assumed but shown in `store_lock`,
with weak fairness for every step inside a call and strong fairness for one:
`Announce`, the acquisition of the `sync.Mutex` inside the `RWMutex`, which
hands itself to a writer that has waited for a millisecond (its starvation
mode). `UploadsAnswered` does not depend on the other handler stopping, nor
`QueriesAnswered` on uploads stopping.

## 4. What is proved

For any number of handlers, readers and writers, any files, fixtures, queries,
references, ledgers and random draws, under the named assumptions of the modules
only, which TLC evaluates for the instances of the runs:

* constants are of their kind, `Main` is no handler, `TrimSpace` is a function on
  references, `Malformed` is neither decimal text nor a number;
* the months cover the clock and every month a fee query asks for
  (`ClockAssumption`, `MonthsAskedAssumption`): the calendar goes on after the
  last one;
* a forecast's transactions have different IDs and known acquirers, as those of
  the store have (`InputsAssumption`), and amounts within int64
  (`AmountsAssumption`);
* the generator draws as `Intn` does (`DrawsAssumption`), its names are not
  blank, have no spaces around them and differ (`TxnIDAssumption`), and 64 bits hold the fee of its largest amount
  (`RangeAssumption`).

| theorem | |
|---|---|
| `PayoutDaySpec`, `BangkokDayRoundTrip` | each schedule pays one to five days later, never at a weekend, GlobalPay on a window day; a CSV day is the Bangkok day a query reads back |
| `AmountsReadBack`, `AmountsAreExact` | an amount of at least zero survives printing and reading; text without a sign after the point is read as the amount it names, as long as that fits |
| `HalfUp`, `FeeWithinPayment`, `GlobalPayFixedPart`, `FreeOfCharge` | fees are the nearest satang; they exceed the payment only at GlobalPay below 10.20 baht; they are zero below 0.20 (Thai) and 0.34 baht (PromptPay) |
| `LockExcludes`, `StoreIsAtomic` | `LockSpec => []LockInv`, `LockSpec => Atomic!Spec` |
| `TypeCorrect`, `InvariantHolds` | `Spec => []TypeOK`, `Spec => []IInv` |
| `PayoutDaysCorrect` | `Spec => []PayoutDaysAreReal` |
| `AnswersKept`, `RefusalsExact` | `Spec => []OkMeansStored`, `[]RefusedMidwayKeepsPrefix` |
| `SettlementsConverge`, `TransactionsConverge` | `Spec => []LastSettlementRowWins`, `[]LastTransactionRowWins` |
| `LifecycleImplemented` | `Spec => LifecycleSpec` |
| `EngineInvariant`, `EngineTypes` | `EngineSpec => []EngineInv`, `[]EngineTypeOK` |
| `NoPaymentInventedMissing`, `ReceivedForGood`, `UntouchedToldExactly`, `AlarmsOnlyAfterTheDay`, `EverythingInSight` | `EngineSpec => []NoFalseAlarm`, `[]ReceivedStaysReceived`, `[]UntouchedIsExact`, `[]NoAlarmBeforeDayIsOver`, `[]NothingOutOfSight` |
| `SnapshotsOfMaps` | `EngineSpec => []SnapshotsInv` |
| `BooksInvariant`, `BooksAlwaysBalance` | `EngineSpec => []BooksInv`, `[]BooksBalance` |
| `LoopsInvariant`, `ForecastReconciles` | `LoopSpec => []LoopInv`, `ForecastSpec => LoopSpec` |
| `LoopsAlwaysComputeReconcile`, `RowsAlwaysAccountedFor` | `ForecastSpec => []LoopsComputeReconcile`, `[]RowsAccountedFor` |
| `ForecastInvariant` | `ForecastSpec => []ForecastInv` |
| `ForecastAlwaysAddsUp`, `CurrencyAlwaysOfTheForecast`, `ForecastAlwaysComesTrue` | `ForecastSpec => []ForecastAddsUp`, `[]CurrencyIsOfTheForecast`, `[]ForecastComesTrue` |
| `ForecastAlwaysReads` | `ForecastSpec => []AmountsReadable`, if no payment is negative and the fee of each, the sum of the payments and the sum of their fees fit in int64 (`PaymentsFit`) |
| `FixtureInvariant` | `FixtureSpec => []FixtureInv` |
| `RowsAlwaysReadBack`, `NoSampleFeeEverStandsOut` | `FixtureSpec => []RowsReadBack`, `[]NoSampleFeeStandsOut` |
| `SampleAlwaysTellsItsStory` | `FixtureSpec => []SampleTellsItsStory` |

The arguments.

*Schedule.* At most two weekend days follow each other, so the range of
`NextBusinessDay` contains a working day, and three turns of it stay within five
days.

*Ingestion.* `Ingestion_proofs` first proves types, then classifies steps: every
step either saves one transaction, or saves one settlement, or leaves the store
alone, or ends the process (`StepKinds`). The properties are not inductive as
they stand:

* `OkMeansStored` speaks of the moment of the answer; before it,
  `RowsBehindAreStored` says that the rows a loop has passed have their keys in
  the store, and `AnswersFit` ties each answer to where the loop stopped.
* `LastSettlementRowWins` speaks of quiet moments. While uploads run a
  superseded row may well be in the store, but then
  (`SupersededSettlementsGo`) some goroutine still has a row with its key ahead
  of it. A save keeps this true: either it stores the last row of its key, or
  the later row is ahead of the same goroutine; and a row that another save
  overwrites is judged afresh. For transactions "ahead" must also mean
  "reached", because the loop stops at an unknown acquirer
  (`SupersededTransactionsGo`). `BatchesAreFiles` says the rows come from a
  file, and `OneBatchEach` that a loop over one kind has no rows of the other.

`IInv` is the conjunction of these. The refinement of the lifecycle needs only
the types: a save of a transaction enters or reroutes it or stutters, a save of
a settlement settles at most the transaction with its ID, the end of the process
loses the ledger, anything else stutters.

*The store under its lock.* `LockInv` says who holds the lock at which label
(`Exclusion`) and that a copy under way agrees with the map as far as it has
come (`CopiesAreCurrent`): a writer writes only when nobody copies. So at the
end of a copy the result is the map of that moment, and `FinishList` maps to the
abstract `List`, `Write` to `Save`, the two returns to the returns, every other
step to a stutter.

*The service.* `EngineInv` adds, for each reader, what holds between its
snapshots. That a missing payment was missing (`NoFalseAlarm`) follows from
`MissingWasOpen`; before the second snapshot this is `OpenOrSettled`: what is in
the transaction snapshot was open while the query ran or its settlement is there
to stay, since settlements are never withdrawn while the process lives. This is
where the order of the two reads matters. `UntouchedIsExact` needs that of an
untouched ID the snapshot has what the store has (`UntouchedStands`) and that
its settlement, if there is one, was seen with the figures it has now
(`UntouchedSettled`);
`ReceivedStaysReceived` that rows of a snapshot are stored (`RowsAreStored`);
`NothingOutOfSight` that no snapshot has a transaction expected more than five
days after its own (`PaidWithinDays`, from `PayoutDaysAreReal`). A step of
Ingestion keeps `EngineInv` because it keeps `IInv` and `Watch` records what it
touched. `SnapshotsInv` says that the lists are of maps: finite, one transaction
per ID, one row per key. With `EngineTypeOK`, IDs being text, the fields of these
records that the loops read are what `InputsAssumption` and `AmountsAssumption`
ask for, so the theorems about the loops and the forecast speak of the arguments
the service gives them.

*The sums.* `Sum` folds a function over a set and wraps once. What the fold gives
is shown by induction over finite sets, stated for sets rather than for
predicates (`SubsetInduction`, `ElementInduction`): the order does not matter
(`PlainFirst`, `PlainRemove`), a union of disjoint parts sums to the sum of the
parts (`PlainUnion`, `PlainParts`), and wrapping inside a sum or outside it is
the same (`WrapSame`, `SumParts`). `BooksInv` adds to `EngineInv` what
`BooksBalance` rests on: every row in a batch, in the store or in a snapshot
balances, because the parsers refuse the others, and every month asked for has
an end. Then the cash of a month, day by day, and its fees are the sums of two
columns over the same rows, whose gross is their sum (`MonthBalances`).

*Reconciliation.* `LoopInv` says what each loop has done: after some rows, the
index has the first row of each key seen and the count is that of its rows
(`IndexInv`); while matching, the entries are those of the transactions handled
and the consumed keys are their matches (`MatchInv`); in the last loop, the keys
visited have left exactly the strays among them (`UnknownInv`). The order in
which transactions and keys are taken does not occur in it, which is why the
result does not depend on the order of Go's maps. When the loops are done these
are `Reconciled` and `Discrepancies` of the input. A row that is neither used nor
flagged has a known transaction which was matched exactly, by a row of another
acquirer: the one exception `RowsAccountedFor` allows.

*The forecast.* It leaves the variables of the loops alone, so `LoopInv` holds of
it too. `BucketsInv` says that each bucket holds the sum of the predicted nets of
the transactions counted into it so far, and the number of them; an entry goes
into one bucket and one day. `ForecastComesTrue` is about the rows stored, with
whatever dates they have, followed by the imagined rows of the transactions
forecast. The cash of such a sequence is the cash of its two parts
(`CashOfBoth`, after shifting the numbers of the second: `PlainShifted`). That
of the imagined rows and the forecast are sums over different sets, rows there
and transactions here; a bijection between them carries one into the other
(`PlainRenamed`), and every imagined settlement falls on its Bangkok day
(`BangkokDayRoundTrip`). For `AmountsReadable`, nothing wraps as long as the
payments and their fees add up within int64 (`BucketsExact`), a net of another
acquirer than GlobalPay is not negative (`OthersNotNegative`), so a day total
below zero has a GlobalPay net below zero in it (`DayOwesGlobalPay`), and the
grand total below zero such a day; what is not negative reads back
(`AmountsReadBack`).

*The generator.* `FixtureInv` says that the transactions are within the drawn
range and that the row written last belongs to the transaction whose turn it
was. The rest is arithmetic for every amount: two decimals read back, the nearest
satang to the generator's fee is at most one from the detector's, the net is not
negative, and the settlement's day survives both formats. `SampleTellsItsStory`
also needs `RoundsInv`: the n-th transaction is the (n-1) div 3-th of its acquirer,
which fixes its age and whether it is settled. As names differ, each loaded row
matches the transaction it was written for and no other, so the settled ones are
the first 210, and the old overdue ones the 30 after them; they are counted by
a bijection between an acquirer's transactions and their numbers.

TLC checked the inductive invariants (`BooksInv`, `SnapshotsInv`, `LoopInv`,
`ForecastInv`, `FixtureInv`) on the instances of their runs before they were proved.

Only model-checked: liveness (`UploadsAnswered`, `BootEnds`, `QueriesAnswered`,
`CallsReturn`), which is out of the prover's reach.

## 5. Where documents and code disagree

* `DefensiveBranchIsDead`: the branch of `Reconcile` commented "This shouldn't
  happen" does. With an exact match present, a row of the same transaction under
  another acquirer is neither consumed nor flagged, so a payment reported by
  two acquirers leaves no discrepancy.
* `OverdueOnTheDay`: README and TEST_CASES say overdue from the expected day on;
  the code (and behaviors.md) wait for the day to be over.
* `FirstSettlementRowWins`: behaviors.md says the store keeps the first of two
  rows with the same key; it keeps the last. Reconciliation therefore never sees
  a repeated key in the service (`SnapshotsInv`, proved), and no endpoint returns
  the discrepancies of `Reconcile` anyway.
* `OnlyBaht`: README and behaviors.md say the parser rejects other currencies;
  it does not look.
* `NoNegativeAmounts`: README, behaviors.md and SYSTEM_OVERVIEW.md say negative
  amounts are rejected; only a minus sign in front is, and `0.-5` is read as
  minus five satang.
* `FeesOutOfNothingReported`: a fee where none is expected is critical by the
  comment of `Detect`, but its deviation is `+Inf`, which `encoding/json`
  refuses: the report is lost, the other anomalies with it.
* `RecentIsPending`: the generator calls its recent unsettled samples pending;
  those of two days and more (by acquirer) are overdue on the reference day.

Seen on the way, without a run of its own: SYSTEM_OVERVIEW.md:118 says that
records with gross - fee # net are kept and recorded as such; all three parsers
reject the file, and nothing produces `net_calculation_error`. And the forecast
prints an amount below zero as, say, `-9.-4`. GlobalPay's net of a day is below
zero when its fixed fee exceeds its payments, and may take the day total and the
grand total with it; `AmountsReadable` states that these are the only amounts of
a forecast that do not read back. The generator prints "wrote fixtures" also when
the last flush of a CSV writer failed (`defer w.Flush()` at main.go:142, 171, 207,
with `w.Error()` never asked): such a file misses its end, and nobody learns of it.

## 6. Abstractions and limits

* Reading and parsing a body is one step: it touches nothing shared.
* Amounts are int64 (`Wrap`); days and row counts are unbounded integers. Text
  other than amounts, formatting, logging, payment methods, source names and
  discrepancy details are left out, and discrepancies form a set, so their
  multiplicity is not observed. Spaces around amounts and leading zeros are left
  out.
* Sums of int64 wrap once at the end in the model and at every addition in the
  code, which is the same modulo 2^64.
* The anomaly's deviation percentage and its comparison with 10% are float64 in
  the code; the model compares exactly.
* A settlement file's transaction date must convert but is read by nothing
  afterwards; it has no column of its own.
* Bodies too large, broken connections and panics in handlers are not modelled;
  they lose a request, not the store.
* An answer need not describe any single instant: a transaction replaced
  between the two snapshots may be reported as settled by a settlement of the
  new version's time. No document promises otherwise; the properties speak of
  untouched transactions and of missing payments.

### Not modelled

HTTP routing, status codes beyond accepted and refused, and JSON rendering (gin,
`encoding/json`) hold no state of their own; the one failure of rendering that
changes an answer, the infinite deviation, is modelled in `AnomalyReport`.
`/health` reads nothing. `Store.GetTransaction` and `Store.FindSettlement` are
called by tests alone.

## 7. What could follow

Everything that keeps state, and all arithmetic, is modelled, and every safety
property of the passing runs is proved. What is left is depth: that the readers of
`engine` do not affect each other is argued and covered by the proofs, which hold
for any number of them, but no instance with two is checked for liveness.
