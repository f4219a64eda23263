# A TLA+ model of ThaiVtuberFinder

ThaiVtuberFinder looks for public accounts of Thai VTubers in rosters, feeds and searches, keeps
them as candidates in a SQLite database, and lists them in the `FINDER_INBOX` table of a Google
workbook, where people review them. The modules here model the parts of it in which goroutines,
processes, requests and people meet, model-check them with TLC, and prove the most important of
their invariants with TLAPS. Paths below are relative to the repository's root (`internal/...`,
`cmd/...`).

## 1. Inventory

| Component | Code | State | Operations | Hard because |
|---|---|---|---|---|
| Account identity | `internal/model/model.go` | none | `Normalize`, `Account.Key` | one account has several links; only some carry its platform ID |
| Candidate store | `internal/store/store.go` | `candidates`, `candidate_sources`, `resolver_cache`, `quotas`, `source_runs`, `account_relation_proposals` | `Upsert`, `Cached`/`Cache`, `Spend`, `RunStatus`, `AddRelationProposal` | workers of one cycle and other processes write at the same time |
| Resolver | `internal/sources/youtube.go` | resolver cache | `Engine.Resolve`, `Engine.youtube` | a lookup can hit the cache, fail, run out of quota, or give another answer than last week |
| Quota ledger | `youtube.go`, `store.Spend`, `netx.Client.Bytes` | `quotas` by day | charge before every attempt | crash between charge and request, several processes, midnight |
| SQLite adapter | `internal/sqlite/sqlite.go` | open transaction | `Transaction` | one writer at a time, `busy_timeout`, rollback when a process dies |
| HTTP client | `internal/netx/client.go` | none | `Bytes` with three attempts and back-off | a lost answer is not a lost request |
| Sync plan | `internal/sheets/sync.go` | none | `PlanSync`, `CanonicalKeys` | row numbers are worked out from rows read earlier |
| Inbox client | `internal/sheets/client.go` | `FINDER_INBOX`, its grid | `Tables`, `ensureRows`, `Sync` | no transaction spans read, growth and batches; curators edit meanwhile |
| Cycle | `internal/app/app.go` (`Once`) | channels, wait group, report | producer, workers, closer, collector | every goroutine must end, no result may be lost, the context can end anywhere |
| Processes | `app.go` (`New`, `Run`, `Close`), `lock_unix.go`, `cmd/finder/main.go` | lock file, health server, signal context | start, lock, cycle, close | `enrich` takes no lock; a failing health server races with a signal |
| Enrichment | `internal/enrich/enrich.go`, `cmd/finder/main.go` | `account_relation_proposals`, the known accounts | `RunBatch`, `AddRelationProposal` | it takes no lock and works from what was known when it began; failures are passed over |
| Inbox cleanup | `internal/sheets/cleanup.go`, `scripts/cleanup_inbox_duplicates.go` | `FINDER_INBOX` | find, merge and delete duplicates | deletions are positional and are retried |
| Hand-off | `internal/sheets/proposals.go` | none | `Proposals` | which reviewed rows may leave, and under which key |
| Token cache | `internal/sheets/auth.go` | OAuth token | `Token` | a token can expire inside a retried request |
| Twitch resolver | `internal/twitch/twitch.go` | app token | `Resolve`, `ThaiVTubers` | pages of streams, then searches; nothing is kept after a failure |
| Sources | `internal/sources/*.go` | none | `Discover` by kind of source | each kind has its own rules for caps, cursors, repeated and invalid records, and for what of it is an error |
| Configuration | `internal/app/config.go` | none | `Load`, `Validate` | - |

Interaction: `App.Run` calls `Once` again and again; `Once` hands sources to workers over a
channel; a worker calls `Discover`, for each lead `Resolve` (cache, ledger, HTTP) and `Upsert`
(SQLite), and sends a result back; when all are back, `Once` reads the candidates and calls
`Client.Sync`, which reads the workbook, plans, and writes. Curators and the receiving repository
edit the workbook on their own. `enrich` runs beside all that in a process of its own, and adds
candidates and relation proposals; `proposals.go` turns verified rows into the document another
repository reads.

What makes each part correct, in words: one candidate for each account, with a stable ID, first
sighting and channel; no request beyond the daily budget; an inbox that keeps what curators wrote,
lists every account once, and never gets into a state the next synchronisation refuses; a cycle
that ends, tells the truth about what it did, and leaves no goroutine behind; one owner of the
database; a listing that is complete or says that it is not; a proposed relation with an account a
reviewer can find; an export of what curators decided. `PROJECT.json` lists the hazards behind
these, each at its line.

## 2. Modules

| Module | Models | State and actions |
|---|---|---|
| `Accounts` | `Normalize`, `Account.Key`, `Store.Upsert` | operators only |
| `Ingest` | one lead's way through `Once`, `Resolve` and `Upsert` | `db`, `prov`, `cache` are tables of the database; `work[w]` is where a worker is between two uses of the database mutex |
| `SyncPlan` | `PlanSync` and what `values:batchUpdate` does with its ranges | operators only |
| `InboxSync` | `Client.Sync` with retries, curators, canonical tables, database loss | `inbox`, `grid` are the sheet, `wire` the requests under way, `writer[w]` a run of `Sync`; extends `SyncPlan` |
| `InboxCleanup` | the cleanup script: `ScoreRow`, `FindDuplicateInboxGroups`, `UpdateInboxRows`, `DeleteInboxRows` | `inbox` is the sheet, `script` what it has read and how far it is; extends `Handoff` |
| `ReviewQueue` | what the inbox promises its curators | `queue`, implemented by `InboxSync` |
| `Enrich` | the enrich command: known accounts, profiles, links, candidates, relation proposals | `enr` is where the command is and what it takes for known, `hand` the link in hand, `proposals` the table; extends `Ingest`, of which it uses one goroutine |
| `Listing` | `Discover`: the loops over feeds, pages and records of every kind of source | `feed`, `page`, `rest`, `next`, `cursors` are the loops' variables, `seen` and `out` what was found; `offered` and `left` remember what there was |
| `Handoff` | `Proposals`: what is exported, and what refuses the export | operators only; extends `SyncPlan`, used by `InboxCleanup` |
| `QuotaLedger` | `Engine.youtube`'s hook, `Store.Spend`, the attempts of `Bytes` | `spent` is the ledger; `call[c]` where a goroutine is; `sent`, `used` count what left, by day charged and by day sent; `late` is who was caught by midnight today |
| `CyclePool` | `App.Once` | `next` is the producer, `worker[w]` the pool, `reported` the report in the order of its results, `collector` the rest of `Once` |
| `Processes` | `New`, `Run`, `Close`, the lock, the commands | `pc[p]` is where a process is, `flock` the lock file, `opened` who has the database open |
| `*_proofs` | theorems about the module they are named after | - |
| `MC*` | instances for TLC | - |

`Ingest`, `SyncPlan` and `InboxSync` extend `Accounts`, so the table that workers fill and the
table the synchronisation reads are merged by the same operator. `Enrich` composes the command
with the workers of a cycle: its steps on the candidate table are `Ingest`'s (`Take`, `Look`,
`Answer`, `StoreAt`, ...), taken by one more goroutine in a process of its own. `InboxCleanup`
composes the script with the curators and asks `Handoff` what would leave. `CyclePool` treats
discovery and the sheet as single steps, which `Listing` and `InboxSync` open, `Processes` treats
a cycle as two.

An operator whose comment starts with "Mutant of" stands for a mistake a change to the code could
make at that place. It is used by no specification: replacing the operator it is a mutant of must
make TLC refute the property that `PROJECT.json` pairs it with.

### Abstractions

* A channel is named by its platform ID, a page is a mutable name (`@handle`, `/user/`, `/c/`), a
  video is known by its channel. Links of the other platforms have no ID and no resolver in a
  cycle; they behave as pages that are never looked up, and a Twitch login is one of them.
* A row's columns A:K are its `candidate_id`, account and `first_seen`; L:S are one value,
  `review`; T is `sync`. Names, descriptions and classifications are left out.
* `CandidateId` is a set of numbers because `PlanSync` sorts by ID; a new ID is any unused one, as
  `newID` draws at random. The space of IDs never runs out in the code, so an action that needs a
  new one is disabled when the model's are used up.
* A batch counts entries; the code counts ranges, of which a refresh has two (A:K and T). A batch
  that ends between the two leaves column T for the next one.
* `values:batchUpdate` is applied as a whole: the API documents that. It may be applied after its
  sender has given up on it, but not after that sender has begun another synchronisation: a
  cycle's interval lies between the two (`Begin`).
* In `CyclePool` a lead is stored in one step with the look at the context before it; discovery
  gives a source's leads or an error; a listing cut short by a cap without an error counts as all
  of the source (`Leads`). Which kinds do that is `Listing`'s `NoErrorMeansAll`.
* `Listing` takes any page, with any records and any cursor, at every request: the server may
  change its answers. A record is the account it is normalised to, or `Bad`. `csv` goes by the
  rules of `jsonl`, `bluesky_starterpack` by those of `bluesky_list` once the list is found. The
  searches of `twitch_th` are feeds of one page after the feed of streams; its records that give
  no Twitch signal, and the actors that are no Thai VTubers, are not on the page. A talent of
  `vtuberthaiinfo` is one or two records, so one lead past the cap is possible before it is looked
  at. The texts of 32 MB, or longer than a line may be, are errors like any other of the file.
* `Enrich` notes what is known in one step (`StartBatch`); the command reads the candidates of the
  platform, the workbook and all candidates one after the other, and only the last has writers
  beside it that matter. The workbook is read whole, without `ACCOUNTS` when that sheet lacks a
  column, or not at all, and has any ID beside any link: `RowAccount` and `CanonicalKeys` take the
  ID from its column. The command goes through links in any order. Only YouTube's links are taken:
  the others are never resolved, and go from the known accounts straight to the table. A workbook
  that cannot be read leaves its accounts out of what is known. A time is taken once for the batch
  (`now`).
* A decision is the columns L to Q, each empty or not, entered whole or in part (`Decision`):
  `status`, `action`, `target`, `name`, `type`, `reviewer`. `Handoff` exports all but the status.
  `reviewed_at` is entered with the reviewer, and one column stands for both; notes are free text.
  That names and dates are well formed concerns one cell each.
* In `InboxCleanup` the columns of a decision are kept apart, since they rank and merge
  separately; "declined" is any status that is neither pending nor verified. A request is settled
  before it is repeated: a copy that arrives after the client has given up, or after the deletion,
  is not modelled here (in `InboxSync` it is). Nobody touches column C while the script runs, nor
  the decisions of rows it is about to write or delete; the sheet is not locked, so that is asked
  of people, not enforced. A duplicate that comes about by an ID filled in meanwhile is left for
  the next run. A dry run, a failed backup and an inbox without duplicates change nothing and are
  no steps. The code sorts the rows of a key and goes through the losers one by one; the model
  says what that comes to: the survivor is the `Best` row, a merged column is that of the best row
  that has it (`FilledColumn`), `first_seen` the earliest. Rows of one key with the same score
  stay in order, as `sort.Slice` leaves up to twelve of them.
* In `InboxSync` the owner of a page is fixed; in `Ingest` handles move. There are finitely many
  IDs, as there are of 16 random bytes.

## 3. Runs

| Run | Question | Result |
|---|---|---|
| `enrich` | Do a worker and the enrich command beside it, with cache, failures, restarts and a handle that moves, keep the table unique by key, stable in identity and free of twins after an upgrade, and every proposal backed by an account? | holds |
| `ingest_twin` | Is an account that is known by its handle never appended again? (README.md:78) | violated |
| `inbox_sync` | Does a writer with faulty requests, beside curators, keep the inbox acceptable, inside the grid, with IDs, channels and reviews intact, and a `ReviewQueue`, a lost database included? | holds |
| `inbox_loss` | With column C the machine's: do rows keep their earliest `first_seen` when the database is lost, are they unique by key until then, and is every account that is due listed in the end? | holds |
| `inbox_retry` | Are curator columns safe when curators do not wait for a request? (README.md:43, client.go:116) | violated |
| `inbox_hidden` | Does a resolved channel ID reach its row for good? (README.md:37) | violated |
| `quota` | Do three goroutines of two processes keep the budget, lose no charge, pass a day only by the calls midnight caught, each once, and always return? | holds |
| `cycle_pool` | Does a cycle lose no result, end, and return nil only when complete? | holds |
| `processes` | One owner, no stale lock, no hidden server failure, signals obeyed? | holds |
| `cleanup` | Does the cleanup script keep every account's first sighting and all that its verified row says, leave no duplicates, and change the export only by filling blanks, when requests fail and runs break off? | holds |
| `listing` | For every kind of source: is a listing without an error complete but for the silent caps, within `max_items`, and does it end? | holds |
| `cleanup_retry` | Are row deletions safe to repeat? (DESIGN.md:10) | violated |

### Bounds

* `enrich`: a worker that reports a page, and one batch with a profile that links to the page and
  to a channel, in any order; two channels, of which the workbook has the other one: canonical,
  and in the inbox as the ID beside the link of the page; five IDs, two instants, one move of the
  handle. Two goroutines interleave any two steps; `Upsert` looks at one row besides the new one;
  two links make the second find what the first has added to the known accounts. Videos, more
  workers and more batches are left to the proofs.
* `ingest_twin`: two workers of one process, a second page under `/c/`.
* `listing`: three accounts, a bad record, three cursors; pages of up to two records, three pages,
  two leads, four feeds. A cursor can come back at once or after another; the cap can be met by
  the last record, before it, or past it on the same page; a directory has more creators than
  pages are allowed.
* `inbox_*`: two IDs suffice for an upgrade (one account under two links) and another account, or
  for a candidate before a loss and the one after it; `inbox_hidden` has three. `BatchSize` 1 puts
  a fault between any two writes; `GridStep` 2 makes the grid grow; `Attempts` 2 has one repeat.
  `MaxFaults` bounds lost requests, lost answers and abandoned runs: two of them exhaust the tries
  of a request, or make one late and abandon its run. `MaxClock` bounds the instants, `MaxLosses`
  the losses of the database. `inbox_sync` has two accounts, `CuratorFillsId`, a loss and one
  instant; `inbox_loss` one page that turns out to be a channel's, a loss and two instants, with
  column C the machine's.
* `cleanup`: three rows, all of one account or two of one and one of another; two instants of
  `first_seen`; new, verified completely, verified as a link without its target and name, and
  declined with both, each by another reviewer, so that every blank of the verified link can be
  filled by either of the others; two faults, as many as exhaust the two tries of a request or
  break off two runs.
* `quota`: three callers, two in one process, a budget of 2, two attempts, two days, one crash: a
  budget one request short, a second process at the door, and midnight in between. A search costs
  2 and a lookup 1, so two tries of a call that midnight catches use more of the new day than
  `OvershootBounded` grants it: a retry that keeps the day of the first try is seen
  (`BackoffEndsStamped`).
* `cycle_pool`: more sources than workers, one disabled, one with two leads and one with none.
* `processes`: one process of each command, two at most dying.

### Violations

Each of the four runs above that ends in a violation shows a statement of the documentation that
the code does not keep; `PROJECT.json` quotes the lines.

* `ingest_twin`: a handle is resolved and its row becomes the channel's. Reported again while the
  resolver cannot answer, it matches neither by key nor by URL, and a second candidate is made.
* `inbox_retry`: an append is applied and its answer lost. A curator reviews the new row. The
  repeat writes A:T again, with `pending`. With `CuratorWaits` (curators leave a row alone while
  it is being appended) `inbox_sync` shows that the columns are kept.
* `inbox_hidden`: two candidates share a row, one found by ID, one by key; the last write wins,
  and the order is that of random IDs.
* `cleanup_retry`: the deletion of row 2 is done and its answer lost. The repeat deletes the row
  that was row 3, the only one of its account. `cleanup` assumes that answers of the deletion
  arrive (`LostAnswers`); the update of the merged rows is safe to repeat, and its answers may be
  lost.

Two more disagreements are findings of runs that pass, because the property there is stated, or
the run set up, without the case:

* `FirstSeenEarliest` is checked and proved while column C is the machine's. `docs/OPERATIONS.md`
  (line 18) says without condition that a synchronisation retains the earliest `first_seen`. With
  `CuratorFillsId = TRUE` in `MCInboxLoss.cfg` TLC refutes it in 22 states: a channel and later
  its page, which could not be resolved, are sighted; a run is abandoned when it has listed the
  page; a curator fills in the page's ID, and the next run refreshes that one row from both
  candidates, by `candidate_id` with the later instant and by key with the earlier one. The first
  of the two requests times out and is repeated, the second is applied, and then the late copy of
  the first undoes it.
* `NoErrorMeansAll` excepts the page caps that nobody reports (below), and line 19 of
  `docs/OPERATIONS.md` says that they are visible errors. With the exception taken out (`left =
  {}` in the place of the last conjunct) TLC refutes it in eight states.

### Fairness

* `InboxSync!FairSpec`: cycles are repeated by `Run`, so a writer that can go on does (weak), and
  a request that is not lost is delivered. Faults are bounded, and nothing is assumed of curators.
* `QuotaLedger!FairSpec`: requests, back-off and SQLite calls are bounded by time-outs, so a
  goroutine inside a request goes on (weak). Waiting for the database is strongly fair: a Go mutex
  does not starve a waiter and `busy_timeout` ends the wait for another process.
* `CyclePool!FairSpec`: goroutines that can go on do (weak). The context ending is never assumed.
* `Processes!FairSpec`: each process goes on (weak). `select` chooses among ready channels at
  random, so a timer may win against an ended context; a cycle later `Emit` looks at the context,
  which is why `Emit` is strongly fair.
* `Listing!FairSpec`: an HTTP request ends with an answer, an error or its time-out, and a parser
  runs on (weak). Nothing is assumed of the server: it may hand out cursors for ever.

### Deadlock

TLC checks for deadlock in every run but `listing`, whose steps end with the listing; a cycle that
has returned may stutter (`Returned`).

### Caps that nobody reports

`docs/OPERATIONS.md` (line 19) says that a pagination cap is a visible error. For `bluesky_list`,
`bluesky_starterpack` and `youtube_search` it is. `bluesky_search` and `twitch_th` stop at
`max_pages` without one, `tipjai` passes over the creators past `max_pages`, and `raw_links` and
`twitch_th` stop at `max_items` without one. `NoErrorMeansAll` names just these five, so that a
sixth would be seen; the first three of them are a finding.

## 4. Proofs

All are for every value of the constants that the modules' named assumptions allow. Each goes
through an inductive invariant that TLC found to hold before it was proved.

* `QuotaLedger_proofs` (`LedgerInv`). That the ledger stays within the budget is not inductive: a
  commit writes what was read earlier. The invariant adds that whoever is between BEGIN and COMMIT
  owns the database (`Exclusion`) and that what it read is still what the table holds and leaves
  room (`FreshRead`). Two further invariants are sums over the callers, which are written as
  cardinalities of sets of units so that no recursion is needed. `ChargedInv`: what was sent on a
  day, together with the calls that have committed and not sent, is at most the day's ledger.
  `ReceivedInv`: what was used today is at most what was sent for today and one request of each
  caller that midnight has caught (`late`); no caller is caught twice, because one that still has
  a request of an earlier day to send has sent none late today (`Stale`), and the next try is
  charged to the new day. Proved: `TypeOK`, `WithinBudget`, `ChargesKept`, `SentIsCharged`,
  `OvershootBounded`, and what follows for all days together: a day's requests pass the budget by
  at most one of each caller (`DaysOvershoot`), for a finite number of callers and any number of
  days.
* `Ingest_proofs` (`IngestInv`). Keys are unique because `Upsert` reuses the one row of its key;
  identity is stable because a row with an ID shares its key only with accounts of that ID
  (`KeyOfId`), which needs every account in table, cache and tasks to be `WellFormed`: without an
  ID it is a page. Proved: `TypeOK`, `OneCandidatePerKey`, `StableIdentity`,
  `UpgradeLeavesNoTwin`. The assumption on leads is that one that needs resolution is what
  `Normalize` makes of its URL.
* `Enrich_proofs` (`EnrichInv`). First, every step of enrich and cycle is a step of `Ingest` or
  leaves its variables alone, so `EnrichSpec` implies `Spec` and all of `Ingest_proofs` holds with
  enrich beside the workers. That a proposal is backed is not inductive, since accounts were noted
  before the workers went on to change the table. Every account of the table and of the tasks is
  what `Normalize` makes of its own URL (`AccountsNormal`), so a known key that an account with an
  ID shares with another is that ID's; a row with an ID keeps it, so a key that was known from the
  table keeps its account, and any other is one of the workbook (`KnownBacked`); the account in
  hand is known, just filed, or could not be stored (`HandBacked`). Nothing is assumed of the
  workbook's accounts, in which any ID may stand beside any link: the one assumption is that what
  sources and profiles report is normalised (`NormalAssumption`). Proved: `EnrichTypeOK`,
  `ProposalBacked`, and the three properties of `Ingest` for `EnrichSpec`.
* `Listing_proofs` (`ListingInv`). Until the listing ends, what was offered is delivered or still
  to read (`Owed`), a feed was left early only by the kinds that may (`LeftEarly`), and there is
  room for what the kind takes without looking (`Room`); `Position` ties the loops' counters
  together. Proved: `TypeOK`, `NoErrorMeansAll`, `LimitKept`, for any accounts, cursors, pages and
  caps.
* `CyclePool_proofs` (`PoolInv`). A source is in one place at a time (`OnePlace`), none falls out
  while the context lives (`NoneDropped`), a task that has not failed accounts for its leads
  (`Accounted`), and the results channel closes after the last worker (`Closing`). Two results of
  one source would be two entries of `reported`, equal or not. Proved: all five invariants of the
  run.
* `Processes_proofs` (`ProcInv`). An exclusive process past `AcquireLock` holds the lock
  (`Locked`), the database is open only in between (`Opened`), a context ends only by a signal or
  after the server's error is in the channel (`Ended`). Proved: all four invariants of the run.
* `InboxSync_proofs`. `InboxInv` is the inductive invariant everything about the inbox rests on.
  That no `candidate_id` is on two rows is not inductive, because requests carry row numbers
  worked out earlier and arrive late or twice. It becomes so with: an entry that is planned or on
  the wire still fits the rows, a refresh naming a filled row and its ID, an append being the
  candidate's only row, before and after it was applied (`Settled`); before its first request a
  writer is alone with what it has read (`Alone`), and its new rows are free (`Unsent`); the grid
  has, or is about to have, every row that is named (`Room`); a row that may be appended again is
  still pending if curators wait (`Untouched`). Three more invariants stand on it. `IdentityInv`:
  candidates, plans and rows of one ID are of one channel. `KeyInv`, until the database is lost: a
  row shows what its candidate is or was before its upgrade, and no two entries of any plans carry
  one account. `FirstInv`: two entries for one row carry one instant, and what is shown of a
  candidate is not newer than it or than any candidate of that account. Each was checked by TLC
  before it was proved. Proved: `TypeOK`, `InboxAccepted`, `WritesFitGrid`, `ReviewColumnsKept`,
  `RowIdentityFixed`, `OneRowPerKey`, `FirstSeenEarliest`, and that `InboxSync` implements
  `ReviewQueue`, for any candidates, pages, channels, batch sizes, grids, attempts and number of
  faults.
* `InboxCleanup_proofs` (`CleanInv`). While the script writes, nothing but its own requests
  touches the rows it has planned for. `CleanInv` says that a row that stays is written as a row
  of its own account (`UpdatesKeepKeys`; merging fills in a `platform_id`, which must not change
  the key) and that no two rows that do not go are of one account (`KeptApart`), hence none of
  those read back (`AllApart`). What the deletion leaves is a recursion over row numbers, and is
  proved without the induction rule: the rows left are the rows kept, renumbered (`Renumbers`),
  from the last row on; each `RemoveAt` passes that to the row before; so the least row number
  from which it holds is 0 (`DownTo`). `FirstCovered` adds that every row that goes has one of its
  account that stays and is, or will be written, first seen no later; `VerdictsCovered` the same
  for verdicts: a merged row has all that was entered in the row it replaces (`Confirms`), each
  column of it comes from a row of its account (`Gathered`), and a verified row that goes has a
  verified one that stays. Proved: `TypeOK` and `CleanedInOnePass` without hypotheses,
  `FirstSeenKept` and `AccountsKept` from the first of the two below, `VerifiedReviewKept` and
  `ProposalsOfVerified` from both. All of them, `CleanedInOnePass` before the others, rest on what
  the module takes as given: column C and the rows in work are left alone while the script runs.

The theorems of `InboxSync_proofs` have hypotheses on the constants, each of which the code or its
documents give, or without which TLC refutes the property:

* `SingleWriter`: README and `docs/DESIGN.md` ask for one writer of the workbook. The code
  enforces it between workers (the lock) and not for `enrich -sync-sheet`.
* `ObservationsResolved`: what is stored for an input is what `Normalize` makes of it or its
  channel's account, as `Engine.Resolve` returns (needed where channels and keys matter).
* `CuratorWaits` for `ReviewColumnsKept` and the refinement: `inbox_retry` is the counterexample.
* `~CuratorFillsId` for `OneRowPerKey` and `FirstSeenEarliest`: a curator who fills in a page's
  channel gives the row the key of another, and of `FirstSeenEarliest` that is the finding above.

`OneRowPerKey` itself speaks of the time until the database is lost (`losses = 0`): afterwards an
upgraded account is listed once more.

`MCInboxSync` states as an assumption that its instances satisfy the first two, so every run of it
shows that the hypotheses are met.

The theorems of `InboxCleanup_proofs` have these:

* `DeletesAnswered`: the answer to the deletion is not lost. Without it `cleanup_retry` is the
  counterexample.
* `VerdictsOutrankRows`: at most 3890 rows. `ScoreRow` takes a point off for every row above. A
  verified row with nothing but its status has 3890 points more than a declined one that kept its
  target; as many rows further down it has no more than that, and the declined row is the one that
  stays. The proof showed this bound; the comment on `ScoreRow` calls the row number a tie
  breaker.

`MCInboxCleanup` states that its instances satisfy the second, and `MCInboxCleanup.cfg` gives
`LostAnswers` as the first asks.

Nothing is assumed of verdicts: the code does not ask for whole ones before the export does. What
`ProposalsOfVerified` says is therefore less than that an exported decision is one that somebody
took. `cleanup.go:128` fills a blank of a verified row from any row of the account, and the result
can be exported: a link whose target or name was left out goes out with those of a declined row, a
decision without a reviewer with another's. The theorem gives the limit of that: the proposal has
everything one verified row had, and where that was blank only what a row of the account had.

Only model-checkable: `CallsEnd`, `CycleEnds`, `SignalStops`, `EveryAccountListed` and
`ListingEnds`, which are liveness under fairness and out of the prover's reach. Of the properties
that a run refutes, `ReviewColumnsKept` and `AccountsKept` are proved under the hypothesis that
run breaks; `KnownUrlNotAppended` and `StableIdShown` do not hold. All other properties of the
runs are proved.

## 5. Not modelled, and the plan

Not planned: what parsers make of HTML, CSV and JSON text, classification of descriptions, address
and redirect rules, configuration files, flags and output formats, the read-only commands: data
and I/O without interleaving. `twitch.Resolver.Resolve` looks logins up for a script and stores
nothing. The access token of `auth.go` is one value with an expiry under a mutex, read once for a
request; a try it is too old for is a refused request, which `InboxSync` has. Of the links in
profiles, those to other platforms than YouTube are left out of `Enrich`: they are never resolved.
When several `ACCOUNTS` rows have one key, `CanonicalKeys` keeps the last: an account linked by
another of them is then listed for review once more. The model has one canonical state for a
channel.

Planned, in this order:

1. Two writers of the inbox: `enrich -sync-sheet`, which takes no lock, or the cleanup script,
   beside the worker's `InboxSync` and its `ensureRows`. The documents ask for a single writer;
   what is open is which of the properties survive two.
2. `Handoff` composed with `InboxSync`: a `platform_id` filled in at review and blanked by the
   next synchronisation refuses the export until it is entered again.
3. Proofs: the hypothesis `~CuratorFillsId` weakened to the cases in which TLC refutes
   `OneRowPerKey` and `FirstSeenEarliest`; the ledger and the pool shown to implement abstract
   specifications, as the inbox implements `ReviewQueue`.
