# BAL Will-Executor: verification project

TLA+ modules, TLC configurations and TLAPS proofs for the Bitcoin
after-life will executor of this repository: a server that stores time-locked
transactions (wills), and a pusher that broadcasts each of them once its
locktime has passed. Run the tools in this directory:

    tlc -config PusherFaults.cfg MCPusher.tla     # any run of PROJECT.json
    tlapm PusherProofs.tla                        # any module of proofs

`PROJECT.json` lists the components, runs, mutants, findings, hazards and
theorems, and for each definition the lines of the source it stands for.
Line numbers in the modules' comments are those of the file the module's header
names.

## 1. Inventory

| Part | Code | State it keeps | Operations |
| --- | --- | --- | --- |
| bal-pusher, one process per network | `bin/bal-pusher.rs` | locals of one pass; ZMQ queue; `block-status.json` | `main` (subscribe, first pass, one pass per `hashblock`), `main_result`, `get_client`, `calculate_stats`, the signed welist report |
| bitcoind | external | chain, mempool | `getblockchaininfo`, `sendrawtransaction`, `getrawtransaction`, `getmempoolentry`, `hashblock` |
| bal-server, pushtxs | `bin/bal-server.rs`, `db.rs` | `tbl_tx`, `tbl_inp`, `tbl_out` | `echo_push`, `parse_request_transactions`, `check_duplicate_txids`, `execute_insert` |
| bal-server, info | `bin/bal-server.rs`, `db.rs`, `xpub.rs` | `tbl_xpub.path_idx`, `tbl_address` | `echo_info`, `get_last_used_address_by_ip`, `get_next_address_index`, `save_new_address` |
| dashboard API: settings | `umbrel_api.rs`, `entrypoint-server.sh` | `settings.json`, `custom_logo`, the environment of the process | `set_settings`, `set_settings_testnet4`, `upload_logo`, `remove_logo`, `restart_server` |
| dashboard API: merge, restore, backup | `umbrel_api.rs` | snapshots on disk; all tables; `tbl_stats` | `merge_from_db`, `restore`, the weekly backup |
| statistics, list, detail, search | `umbrel_api.rs`, `bin/bal-server.rs` | none (`tbl_stats` is the pusher's) | read-only queries |
| dashboard page | `ui/index.html` | none that lasts | `resolveState`, forms, polling |
| forms and welist validation, xpub derivation, configuration | `validation.rs`, `xpub.rs`, both binaries | none | pure functions, run once |

How they interact. The server and the pusher are separate processes that share one
SQLite file in WAL mode: the server inserts rows of status 0, the pusher moves them on.
Inside the server, four actix workers (by default) share one connection behind a mutex,
which a handler takes and gives back several times; the dashboard endpoints run in the
same process but open connections of their own, without the mutex, and share
`settings.json` with nothing around it. The pusher talks to bitcoind by RPC, which can
fail at every call, and hears of blocks by ZMQ, which delivers at most once. Docker
restarts each process that ends; the entrypoint turns `settings.json` into the server's
environment only then.

What is hard, and what makes each part correct:

* **pusher**: crashes and lost replies between a broadcast and its UPDATE, conclusions
  drawn from failed calls, a tip that is old when used, lost notifications, two kinds of
  locktime in one column, transactions that others broadcast, a report that panics in
  every pass when its key cannot be read. It is correct when it never broadcasts too
  early, never claims what the node has not done, and attempts every mature transaction.
* **pushtxs**: check-then-act over three separate locks, an error path that goes on to
  COMMIT, queries that fail half-way and count as complete, statement-size limits,
  tables tied together by nothing but one database transaction (the UNIQUE indexes of
  `create_database` are not valid SQL and do not exist). It is correct when the tables
  agree, what is stored pays, and answers are true.
* **info**: claim and save under two locks, errors answered like values, a claim whose
  commit fails unheard, one client that asks twice at once, rows that a merge brings
  without their `path_idx`. It is correct when no two clients share an address (with
  three exceptions that the code makes), a client keeps its own, and what was answered
  is known, to pushtxs above all.
* **settings**: read-modify-write by several workers, a write that truncates first, an
  exit in the middle, an entrypoint that dies on a torn file, a page that reads the
  settings and posts them back with a new logo text. It is correct when acknowledged
  fields are kept and a restart applies them.
* **merge, restore and backup**: rows from another time meet rows a running pusher is
  moving; a merge is eight statements, of which each may fail; a snapshot is written,
  renamed and pruned in steps while a restore may hold the name of the file that is
  pruned. It is correct when no row goes back, the tables stay complete, and the newest
  snapshots are whole at every moment.

## 2. Modules

| Module | What it is |
| --- | --- |
| `BitcoinNode` | the node, external: chain, mempool, answers |
| `Pusher` | the pusher, its rows, its node; safety, the inductive invariant `Inv`, fairness, liveness |
| `WillLifecycle` | abstract: the life of one will as the dashboard tells it |
| `MCPusher` | a small chain for TLC |
| `PusherProofs` | `Inv` is inductive; types and safety |
| `PusherRefinementProofs` | `Pusher` implements `WillLifecycle` |
| `PusherEnvironmentProofs` | what reports mean where certain faults are excluded |
| `PushTxs`, `MCPushTxs`, `PushTxsProofs` | the pushtxs handler |
| `TxStore` | abstract: a set of stored transactions, and requests that are one step on it |
| `AddressBook`, `MCAddressBook`, `AddressBookProofs` | the info handler, and merges of its table |
| `Server`, `MCServer`, `ServerProofs` | both handlers on one mutex and one database; it implements each |
| `Settings`, `MCSettings`, `SettingsProofs` | settings.json, the handlers that write it, the page's form for the logo text, restarts |
| `SettingsStore` | abstract: settings that a form changes in one step |
| `Backup`, `MCBackup`, `BackupProofs` | merge, restore and the automatic backup |

`Pusher` EXTENDS `BitcoinNode`. The server side appears in it as `Arrive`, the row that
a COMMIT of `execute_insert` makes visible. `PushTxs` alone sees `info` as
`SaveAddress`; `Server` EXTENDS `PushTxs`, takes `AddressBook` as an INSTANCE and puts
the row that `AddressBook!Save` adds in the place of `SaveAddress`. Definitions whose
comment begins with "Bug:" are plausible mistakes that no action uses; the mutants of
`PROJECT.json` put each in the place of the definition after it, and show which property
notices.

### Pusher

`pc` is the place in `main_result`: `client` (get_client), `select` (the query),
`send` (the loop over `send_raw_transaction`), `store` (the UPDATEs of
`pushed_txs`, then of `invalid_txs`), `list`, `track`, `probe` (confirmation
tracking with its two RPC calls), `report` and `recount` (the DELETE and the
INSERT of `calculate_stats`), `idle` (waiting on the socket), `down`. Each RPC
call and each SQL statement is one action, so the node, the server and a crash
come between any two. The locals (`tip`, `todo`, `verdict`, `tracked`,
`probed`) are what the process loses in a crash; the rows are not. `accepted`
is a history variable.

Faults have kinds: `outage` (the node is away), `lostReply` (the node took the
transaction, the pusher got an error), `refuse` (relay policy), `evict`, `relay`
(somebody else broadcasts the transaction, or this executor did before its database came
back from an older snapshot), `unheard` (a lost notification), `crash`, `busy` (an
UPDATE that fails, which the code ignores, a SELECT that fails, which ends the pass, or
one that fails at some of its rows, which are skipped) and `badKey`. `Faults` is the set
a run or a theorem allows. `badKey` is the report whose private key cannot be read:
`sign_message` panics, in this pass or, as the process is restarted, in each that
follows, so `Panic` is not counted against `MaxFaults`. The report itself changes no
state that is modelled, and its other errors are only logged.

Simplifications: no block is ever disconnected; heights and median times
saturate at a bound, and blocks at the bound are still announced; a merge brings
rows only as `Arrive` does, waiting; the order of rows within one loop is free (the
code's is that of SQLite); `BEGIN`-less UPDATEs are atomic, as SQLite makes
them.

### PushTxs

A call is in `load`, `parse`, `check`, `begin`, `tx`, `inp`, `out`, `commit` or `done`.
`lock` is the mutex; phase 3 holds it to the end. `db` is what is committed, `work` what
the open transaction sees; `inp` and `out` count how often the rows of a transaction are
there, for nothing in the schema forbids twice. A body is a sequence of transactions and
`Junk`. `MaxTerms` stands for SQLite's limit of 500 terms in the INSERT of the
transactions; how many inputs and outputs these have is left out, so the INSERTs into
`tbl_inp` and `tbl_out` may fail for it at any time, uncounted. Both queries step with
`while let Ok(State::Row)` (`db.rs` 30 and 133): one that cannot be prepared is answered
"error" (`Load`, `Check`), but one that fails at a row returns what it has read, and the
request goes on with any part of the addresses or of the duplicates. A COMMIT may fail
when the disk is full; in WAL mode it does not fail for being busy. Merges are left out:
they double rows of `tbl_inp` and `tbl_out` (see Backup), and what they bring need not
pay.

`TxStore` is what the handler promises, without mutex, tables or phases. A
request is `new`, `open` or `ended`; it has transactions accepted (`Accept`),
finds those of them that are stored (`Look`; only some of them if that fails), and ends by
storing all it still wants (`Store`) or none. A failure that the request survives
is `GoOn`. `Drop` is the answer "thx" without storing, which needs a
failure, a line that came twice, or a transaction that somebody else has stored
by then. The mapping: `stored` is what has its row in `tbl_tx` and its rows in
both other tables once, `wanted` is `New`, the lines accepted less the
duplicates found, and the step that stores is the COMMIT. `BEGIN` and the three
INSERTs are stutters.

### AddressBook

A call is in `lookup` (lock #1: find or claim) or `save` (derive, then lock #2). An
address is the index it is derived from. `claim` keeps `[id, index]` as
`get_next_address_index` returns it, `(0, 0)` for any error of the UPDATE or of reading
what it returned (`ClaimFails`; in the second case `path_idx` may have gone up). The
UPDATE is committed when its statement is dropped, after the row was read, and nobody
looks at the result: `ClaimLost` is the claim whose commit fails, with an index that the
next client is given again. `Start` registers the xpub (which may fail and is only
logged), `Crash` cuts calls off. `second` is the one-second resolution of `date_create`,
so that two rows may tie.

`Merge` adds the rows of an uploaded `tbl_address` as they are, with the xpub's
number of their own database but without its `path_idx`: addresses of an
earlier installation come back as indexes that will be given again, and those of
another server's xpub (`Foreign`) pass for ours. The history `brought` holds
those rows, `raced` the clients that had two requests under way at once,
`lost` the indexes claimed without a commit. `OneOwner` excepts index 0, the addresses
in `brought` and those in `lost`, and nothing else; `StableAddress` the
clients in `raced` and in `brought`. A merge between a lookup and its claim, which
one lock holds together but no lock keeps the dashboard out of, has the
effect of a merge after the claim and needs no step of its own. A server that could not
insert its xpub does not merge in the model.

### Server

Both handlers take `lock`; an info request takes it for the time of one step only,
so it is a guard of `InfoStep`. `Known` is `get_all_addresses_by_xpub` over
`book`, and `known` of `PushTxs` follows it. The errors of the two handlers are counted
apart (`faults`, `infoFaults`), and a crash is both. `offered` remembers which
addresses had been answered, to anyone, when a pushtxs request came: those a
client may have put into its transactions.

### Settings

A worker is `idle`, has `loaded` the file, or has `truncated` it. `file` has a text and
a size: a size beyond the text's length is the tail of a longer text that another
handler wrote since the truncation, a smaller one its beginning (both are `Torn`), and 0
is an empty file. Lengths are a parameter. A write into an empty file that fails may
leave any beginning of its text, for nothing bounds the length of `info`; a beginning
over what another handler has written since is left out. `active` is what the running
server read at its start. Histories: `acked` (the forms answered ok, put into each other
in the order of the answers), `overlapped`, `cut` (a handler ended between truncating
and writing all of its text) and `short` (in the middle of the text). Requests that
validation refuses write nothing and are left out.

The form for the logo text has no handler of its own: `PageReads` is its GET of
the settings, `PagePosts` its POST of what it read (a form of kind `text`), with
`PageFee` for a fee that was not set. `fresh` says that it read while no handler
was at work and that no other form has come since.

`SettingsStore` has neither file nor workers: `Save` puts a form into what is
stored in one step, `WriteCut` leaves it blank, `Start` takes it. The mapping
(`Stored`) takes a file that is being rewritten for what it is going to hold, so
the step that saves is the truncation, and a write that fails or dies after it is
`WriteCut`, or a `Stop` that loses the settings. From the first overlap on,
`garbled` allows any content; starts still take just what is stored.

### Backup

`db` is `tbl_tx` with its statuses and, per transaction, how often its rows are in
`tbl_inp` and `tbl_out`; `files` maps the date in a snapshot's name to what the file
holds, `Broken` if that is no whole database. The backup thread is `asleep`, or about to
`snapshot`, `rename` or `prune`, each a step at which it may fail or die (`Crash`);
`today` and `excess` are its locals. `merge_from_db` is one action, for `BEGIN
IMMEDIATE` keeps every other writer out and any failing step rolls back. A restore is
two: `FindFile` (`exists`), then `Restore` or, if the file was pruned or renamed
between, `RestoreTooLate`, whose ATTACH creates an empty file. Several restores may be
under way (`restoring`). They may be of an automatic file or of the `.tmp` file, which
VACUUM INTO may be writing just then; a file that an operator has put into the directory
under another name is in nobody's way, and restoring it is the merge of an upload. An
empty file in the place of a pruned one has the date of an outdated one, so the thread
counts it among the backups: it is what the invariant has to show harmless. `Arrive`,
`Settle` and `CalculateStats` stand for the server and the pusher. The optional tables
are left to `AddressBook!Merge`; the download and the staging of an upload under a
unique name are left out.

A merge of a database into itself adds the rows of `tbl_inp` and `tbl_out`
once more: INSERT OR IGNORE has no unique index to go by there. `Sound` asks
that the rows are there, not that they are there once.

## 3. Runs

All bounds are CONSTANTS with their values in the cfg files.

| Run | Bounds | States | What it shows |
| --- | --- | --- | --- |
| `pusher_faults` (`PusherFaults.cfg`) | 2 transactions (height, time), 3 heights, 2 times, queue of 1, 1 fault of any kind, any number of panics | 195,630 | safety, refinement and liveness survive any one fault |
| `pusher_clean` (`PusherClean.cfg`) | 3 transactions, at most one refusal, any number of panics | 932,185 | "done elsewhere" and "failed" are true, no block is missed, nothing accepted is sent again |
| `pusher_threshold` (`PusherThreshold.cfg`) | a locktime equal to the threshold | violation | it is never sent |
| `pusher_eviction` (`PusherEviction.cfg`) | 1 eviction | violation | an eviction is reported as another executor's win |
| `pusher_outage` (`PusherOutage.cfg`) | 1 outage | violation | an outage is reported as a rejection, for good |
| `pusher_crash` (`PusherCrash.cfg`) | 1 crash | violation | a confirmed transaction is reported as failed |
| `push_txs` (`Server.cfg`) | 2 pushtxs requests, 3 bodies, 2 terms, 2 info requests of 1 client, 1 fault in each handler | 1,339,641 | tables, answers and payments; what info offers is accepted; a pushtxs request is atomic (`TxStore`); every request ends |
| `push_txs_thx` (`PushTxsThx.cfg`) | no fault | violation | `thx` for a batch that was rolled back |
| `address_book` (`AddressBook.cfg`) | 3 requests, 2 clients, 2 faults, 2 seconds, 2 uploads | 1,120,748 | addresses are not shared but in three cases, stay with their client, are known when answered, without gaps |
| `settings` (`Settings.cfg`) | 2 workers, 3 forms, 1 page, 1 fault, any number of restarts | 1,011,856 | kept, whole, applied, back after a restart; a logo text keeps address and fee; an atomic store until an overlap (`SettingsStore`) |
| `settings_apart` (`SettingsApart.cfg`) | 2 workers, 2 forms, no fault | violation | a mainnet form takes back testnet4 settings |
| `backup` (`Backup.cfg`) | 2 transactions, 1 upload, a week of 2 days, 1 file kept, 3 days, 2 merges or restores, 1 fault | 1,256,530 | no row goes back, the newest file is whole, a missed backup is caught up |

Why the bounds are enough to reach the cases. The chain of three heights passes
`byHeight` (2) and leaves one block for its confirmation; the times pass `byTime` (11);
Threshold 10 lies above every height and below every time, as the real one does. A queue
of one is the smallest that can both hold and drop a message. One fault is enough for
each of the four violations found, and the theorems of `PusherProofs` do not bound them.
Two pushtxs requests race for a transaction, which a third cannot make worse as the
mutex admits one at a time; the bodies repeat a line, share one, exceed the limit,
underpay and carry junk. Of the two info requests beside them, one can answer an address
before a pushtxs request comes and the other save one while it runs. Three info requests
alone allow a client to race with itself while another comes between; the two uploads
bring an index that will be given again and an address that is foreign, to a client that
may have one. Three forms on two workers allow an update to be lost, a text to be torn,
and a torn text to be healed. With one file kept and a week of two days, the third day
prunes the first day's file, which a restore may be holding. Each mutant of
`PROJECT.json` is caught under these same bounds.

What some properties leave aside is their guard, and the hazard that names them says so
in `PROJECT.json`. `AnswerIsKnown`, `NoGap`, `StableAddress`, `ThxStoredSome` and
`AnsweredIsAccepted` speak of behaviours in which nothing has failed: that an unsaved
address is answered, or an index skipped by a death, is what the code does, and no
property denies it. `SavesKept`, `StartApplies` and `TextKeepsSettings` speak of
handlers that have not overlapped and were not cut short; `ImplementsStore` says what is
left then, and `settings_apart` shows an overlap. `DoneElsewhereMeansRival` and
`FailedNeverMined` are checked with the faults that falsify them excluded, and refuted
with them in the runs `pusher_eviction` and `pusher_crash`. `StatsNeverAhead` is about
the numbers in `tbl_stats`, not about a row that is missing.

Deadlock is not checked in `Server`, `PushTxs`, `AddressBook` and `Settings`: requests are
finitely many, and the server may stop for want of them; in the pusher runs it
is checked.

## 4. Fairness

* `Pusher!Fairness`: weak fairness of `PusherStep` (the process is scheduled and Docker
  restarts it, `restart: unless-stopped`), of `NodeReturns`, and of blocks that move the
  median time, whether they are heard or not: blocks keep being found. Faults have no
  fairness, and every pass may panic. With it, `MatureSettles` and `ConfirmationNoticed`
  hold although a notification is used up by a failed `get_client`, for the next block
  repairs it, and although no pass may ever reach its statistics, for what matters is
  stored before the report and `main` runs a pass as it starts.
* `Server!FairServer` (as `PushTxs!FairSpec`): weak fairness of the next step of each
  pushtxs request, whose worker thread goes on. Info requests hold the mutex in no state
  and need none. A request that waits for the mutex while others take it is not starved,
  because a behaviour has finitely many requests and each gives the mutex back; nothing
  is assumed of the order in which waiters get it. `Answered` asks that again and again
  no request is under way, which with finitely many requests is that each of them ends.
* `Backup!FairSpec`: weak fairness of the backup thread, whose loop sleeps an hour and
  goes on; its failing steps are bounded by `MaxFaults`.
* `Settings!FairSpec`: weak fairness of `Start` (which a torn file disables), and of the
  handlers and the tasks that are to exit, all together: some worker goes on. That is no
  more than each worker going on, for forms are finitely many.

## 5. Findings

Where a document or a comment says otherwise than the code does; each is a
violation run, quoted in `PROJECT.json`.

1. A locktime of exactly 500000000 is neither a height nor a time to the query
   (both comparisons are strict) and waits for ever.
2. `confirmations = -1` is read as "another executor won the race", and is
   written whenever both lookups fail: an eviction for its fee, or by age, too.
3. Every error of `sendrawtransaction` is stored as a rejection and never tried
   again, a lost connection included; the page calls it genuine.
4. A pusher that dies after sending and before its UPDATE sends again; if a
   block came first, "already in chain" is stored as a failure.
5. `thx` is answered for a batch that was rolled back; the page says "accepted
   and stored".
6. A mainnet form that overlaps a testnet4 form on another worker restores the
   old testnet4 settings, although both were answered ok.

Each counterexample is one behaviour. For all six a theorem says how far it
reaches, for every value of the constants:

| Finding | The theorem | What it takes; nothing else will do |
| --- | --- | --- |
| 1 | `ThresholdWaitsForEver` | the locktime alone: no chain, node or fault ever moves such a row |
| 2 | `ElsewhereIsTrue` | an eviction, an outage, or a node without txindex |
| 3 | `RejectionIsTrue` | an outage, or a reply that is lost |
| 4 | `FailedIsTrue`, `NothingIsSentTwice` | for the second send: the death of the process, or an UPDATE that fails; for the false failure: one of these, an outage, a lost reply, a broadcast by others, or a node without txindex |
| 5 | `ThxMeansStoredAlone` | a failure, a line twice, or another request with one of the transactions |
| 6 | `OverlapMixes` | handlers that overlap, or a write cut short |

## 6. What is proved

For every value of the constants that satisfies the named assumptions
(`LocktimeAssumption`, `BoundsAssumption` and so on: types, and that no height
reaches the threshold), any number of faults, requests and steps.

**Pusher.** `Inv` is inductive (`PusherProofs!Invariance`). The safety
properties alone are not: that a row is waiting when its outcome is stored
depends on what the pass read two phases earlier. `RowInv` says that what a pass
read of a row (waiting, mature, sent) is still true when it writes, as nobody
else updates a stored row; `TipInv` that a pass's tip may be old but never runs
ahead; `PhaseInv` which locals are in use when; `AcceptedInv` and `ConfsInv`
carry the two claims through. From `Inv` follow `TypeCorrectness`,
`SentIsAccepted`, `NothingIsPremature`, `ConfirmationsAreReal`,
`StatsLagBehind`.

`SelectedIsSettled` is an action property for all faults: what a pass has selected
(`Selected`: still in `todo`, or with an outcome in hand) leaves it with an
outcome in its row, unless the process dies or the UPDATE fails. It is the
safety half of `MatureSettles`: what a pass can lose, and how. `WhoSettles` lists the
only three actions that write `status`. `ThresholdWaitsForEver` needs `LeftRipe`:
a row that has left "waiting" is mature on the chain as it is now, which
blocks keep true (`RipeStays`), and a locktime of the threshold is never mature.

`PusherRefinementProofs!Refinement`: every step is a step of `WillLifecycle` or
a stutter. The mapping takes `fate` to `resolveState` over the row, and `now` to
the chain. A confirmation shown is taken back only if the node has no txindex or
may be away (`Durable`), which needs `ProbeInv`.

`PusherEnvironmentProofs` names the faults each reading of a failed row
excludes: `ElsewhereIsTrue` (no outage, no eviction, txindex),
`FailedIsTrue` (only refusals, evictions, lost notifications and panics, txindex),
`NoBlockIsMissed` (no outage, no lost notification), `RejectionIsTrue` (no
outage, no lost reply; `AnswerInv` carries the node's answer from the send to
the row) and `NothingIsSentTwice` (no death, no failed UPDATE). The last stands
on `TakenInv`: a transaction that the node has accepted is not in `todo`, and
its outcome is in hand or in its row. A panic keeps that true only because the
report comes after the UPDATEs, when nothing is in hand any more (`PhaseInv`).

**PushTxs.** `PushInv` adds who holds the lock and what `work` differs by from
`db` at each step (`LockInv`, `WorkInv`), that what was parsed is paid
(`PaidInv`: the address book only grows), that a call which is answered is at its
end (`AnsweredInv`), and that one which passed the check brings something new
(`NewInv`). It gives `PushTypes`, `TablesAlwaysAgree`,
`PresentMeansStored`, `ThxMeansStoredSome` and `StoredAlwaysPaid`. For the
fourth: without a fault "thx" comes from a COMMIT, which stores all of a
batch that is not empty, or from a conflict, which without a repeated line is with a
stored transaction.

`ThxMeansStoredAlone` goes further for a request that nobody competes with: by
`OwnedInv`, whatever is stored was brought by a request that has ended, so a
conflict is with a transaction of another request.

`RequestsAreAtomic` (the handler implements `TxStore`) has one lemma per action.
The step that needs an argument is the COMMIT: that it stores just `wanted`, and
none of it was there, is `WorkInv`, and that all three tables take it at once is
`TablesAgree` before and after the step. `Accept` happens once and `Look` once,
by `LinesInv`; something is left to store, by `NewInv`. A query that is cut short needs
no more than that: fewer addresses are fewer lines accepted, and a duplicate that was not
found is a conflict at the INSERT, so the batch is rolled back and the "thx" is a `Drop`.

**AddressBook.** `BookInv`: every index handed out lies at or below `path_idx`
(`IndexInv`) and has one owner among the requests that hold it, the rows and the
answers (`OwnerInv`), rows that a merge brought and indexes in `lost` excepted. It
gives `BookTypes` and `AddressesAreOwn`. Index 0 is
excepted too, for the code also answers it in case of an error. `CalmInv` is the
invariant of a behaviour without faults: requests run only with a registered
xpub, and a client that never raced with itself has one address and finds none
while it claims (`ServedInv`, `OneAddressInv`). It gives `AnswersAreKnown`,
`IndexesHaveNoGap`, `AddressesAreStable`, and, with the owners of
`BookInv`, `FirstIsOwnWithoutFaults`: the exception for index 0 is needed for
errors only.

**Server.** `ServerRunsAddressBook` and `ServerRunsPushTxs`: every step of the server is
a step of `AddressBook` or a stutter, and a step of `PushTxs` or a stutter, so whatever
is proved of either holds of the server; an info request that saves is a `SaveAddress`
(`KnownInv`: `known` is `Known`). `ServerKeepsPushTxs` draws the conclusion for the
tables, the answers, the payments and the atomicity of a request. `OffersAreAccepted`
needs both: by `AnswersAreKnown` what was answered is in `book`, so in `known` when the
request loads it (`OfferInv`), and the request keeps every line that pays it.

**Settings.** `SettingsInv`: while handlers have not overlapped, at most one is at work,
it has the acknowledged settings in hand, and the file is whole or empty, or a beginning
if the disk was full (`SerialInv`); handlers run only while the server does (`DownInv`);
what the page of a fresh read holds or has posted is what was acknowledged (`PageInv`).
It gives `SettingsTypes`, `SavesAlwaysKept`, `OnlyOverlapTears`, `StartAlwaysApplies`,
`TextAlwaysKeeps` and `OverlapMixes`.

`HandlersAreAtomic` (it implements `SettingsStore`): while nothing overlaps,
`SerialInv` says that the only handler at work still has in hand what the file held
with its form put in, so the truncation is a `Save` of that form; with an
overlap only the type of the file is left, which is all `Garbled` asks.

**Backup.** `BackupInv`: what the thread is going to remove is older than what it makes
and has `Keep` newer files once that is there (`ExcessInv`); the file about to be
renamed is there and whole, whatever a restore of it does, and a file that a restore
holds is gone only if it was outdated (`SnapshotInv`). `NewestWhole` needs the last
part: without it `RestoreTooLate` could put an empty file among the newest. It gives
`BackupTypes`, `RowsAlwaysComplete`, `NewestAlwaysWhole`, `StatsAlwaysLag`,
`RowsAlwaysAdvance` and `NewestAlwaysStay`.

## 7. What is only model-checked

Liveness (`MatureSettles`, `ConfirmationNoticed`, `Answered`,
`RestartCompletes`, `BackedUp`): out of the prover's reach. Every safety
property that a passing run checks is proved as well, the three refinements
(`ImplementsWill`, `ImplementsTxStore`, `ImplementsStore`) included.

## 8. Not modelled, and the plan

Not modelled: xpub derivation (an injection from indexes here), validation of
strings, configuration parsing, list, detail and search queries, the contents of
the signed report, rendering, and the installation scripts: no state of their own, or
none that is shared. The logo's file and `backup_config.json` are left out of
`Settings` and `Backup`.

What could come next:

1. `Pusher` with `Backup`: rows that a merge brings in a status further on
   than waiting, whose transactions this node has not accepted. What
   `SentWasAccepted` then says would have to except them, as `AddressBook` does for
   merged addresses.
2. `Server` with merges of `tbl_tx`: `TablesAgree` would become what `Backup`
   has as `RowsComplete`.
3. An abstract address allocator that `AddressBook` implements.
4. `backup_config.json`: two directories, of which a torn or late read picks
   the wrong one.
