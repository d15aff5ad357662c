# Stellar ERP: a verification project

TLA+ models of Stellar ERP: the proof ledger (a Soroban contract and the outbox
that feeds it), the double-entry books beneath it, the documents that post to
them (billing, sales, purchasing and stock), and the sessions, organisations
and permissions that guard them all. Paths below are relative to the
repository; `attestation/`, `accounting/` and so on stand for
`backend/app/modules/attestation/` etc.

## 1. The system

Stellar ERP is a FastAPI/PostgreSQL/Redis application with web and desktop
clients. A business posts journal entries, by hand or through the documents of
sales, purchasing and billing. Each posted entry leaves a *leaf* (a digest of
its canonical encoding). From time to time a batch of leaves is *sealed*: their
Merkle root is written to a contract on the Stellar network, chained to the
previous one. Afterwards anybody can check that an entry is unchanged.

| Part | State | Operations | Module |
|---|---|---|---|
| ProofLedger contract, `contracts/proof_ledger/src/lib.rs` | one `Book` per namespace, one `Seal` per (namespace, seq) | `register`, `seal`, `rotate`; reads | ProofLedger |
| Outbox, `attestation/service.py` `SealService`, `worker.py`, `hooks.py` | `seal_leaf`, `seal` rows, `attestation_setting.enabled` | `record_leaf`, `create_seal`, `drain`, `submit`, `reconcile`, `seal_now`, period-close hook | SealOutbox |
| Chain client, `attestation/stellar.py` | transactions in flight | `_invoke` (prepare, sign, send, poll), `_simulate` | SealOutbox, Onboarding |
| Onboarding, `attestation/service.py` `AttestationService` | the `attestation_setting` row | `enable`, `disable`, `set_cadence`, `rotate_signer` | Onboarding |
| Daily schedule, `attestation/worker.py` | time of the newest confirmed seal, zone, hour | `_daily_window_open`, cadence pass | DailyWindow |
| Merkle tree, `attestation/merkle.py` | none | `merkle_root`, `inclusion_proof`, `verify_inclusion` | Merkle |
| Posting engine, `accounting/service.py`, `repository.py` | `journal_entry`, `number_sequence`, `accounting_period` rows | create, update, post, reverse, delete; close and reopen | Posting |
| Chart, calendar and billing, `accounting/service.py`, `billing/` | accounts, fiscal years, cards, bank details | the billing screen and the chart beneath it | Books |
| Sales, `sales/` | customers, leads, quotations, orders, invoices, payments | life cycles, posting, allocation | Sales |
| Purchasing and stock, `purchasing/` | suppliers, products, warehouses, stock levels and movements, orders, receipts, bills, payments | life cycles, posting, valuation, allocation | Purchasing |
| Tax, `tax/gst.py` | none | line and document totals | Gst |
| Authentication, `auth/`, `core/security.py` | users and sessions in PostgreSQL; codes, links, throttles, epochs in Redis | sign-in, second factor, refresh, revocation | Auth |
| Organisations and roles, `organizations/`, `rbac/` | organisations, members, invitations, roles | administration; permissions in tokens | Access |
| The API's routes | none | what each of 222 endpoints demands | Routes |
| OCR, rate limits, audit, analytics, mail; clients, installer | documents, counters, log | | none |

How they interact. Accounting announces a posting and a period close to
subscribers (`accounting/hooks.py`) in the caller's database transaction;
attestation subscribes to both. The worker, the Seal now button and the
period-close hook all create seal rows; worker and button submit them. The
contract is the authority: `submit()` and `reconcile()` ask it before they
believe anything. Sales, purchasing and billing post through
`PostingService.create_entry()` and undo through `reverse_entry()`. Every
request presents an access token that states its permissions; what invalidates
it (an epoch per user, a list of revoked sessions) is in Redis, and its rights
are in PostgreSQL.

What is hard here. Transactions are READ COMMITTED and most rows are read
without a lock, so a request acts on copies that may be out of date; a sent
transaction outlives the request that sent it; "no answer in time" is not a
failure; a process may die between sending and committing; two replicas may
run the worker; the schedule compares dates of two clocks; Redis changes at
once and PostgreSQL when the request commits; the same sum of money is kept in
several places by different code; and money is rounded at several of them.
`PROJECT.json` lists these hazards at their lines, with the properties that
would catch them.

## 2. Modules

Definitions keep the names of the code. An operator `Mut_...` is a plausible
mistake in the operator that follows it; it is used by no specification and
exists to show that a property can tell the two apart.

**ProofLedger** is the contract. `books` and `seals` are its storage, `now` the
ledger timestamp. `register`, `seal` and `rotate` are the accepted calls;
`SealError` gives the refusal of a call in the order in which `seal()` checks.
A refused call changes nothing, so it is not a step. TTL extension, events and
the `debits` total (stored, never read) are left out.

**SealOutbox** composes the outbox with `INSTANCE ProofLedger`. `tx[p]` is the
open database transaction of process `p`, `rows` and `leaves` committed tables,
`net` the transactions sent and neither applied nor dead. `create_seal` is one
step per query (`create_seal`, `read_unsealed`, `read_previous`,
`insert_seal`); `submit` is one action per early return, then `mark_submitted`,
`send_transaction` and the outcomes of the poll. `Settle` is the end of a
transaction, with SQLAlchemy's rule that only changed columns are written, by
primary key. `Locked`, `InTheWay` and `Clashes` are the row locks and the two
partial unique indexes. A root is the set of leaf numbers under it. Choices
that only add behaviours: a pass handles one row per transaction; account
sequence numbers of the network do not serialise transactions; a server clock
may step back. `reconcile` reads and writes in one step, which is sound because
what it reads of the chain never changes again.

**Onboarding** has the settings row, one request per process, and the same
network, against `register` and `rotate` of ProofLedger. `OneKey` names the case
of an organisation that brings its own key and keeps it, to which one conjunct of
`ReadyCanSeal` is limited (see section 6 for the others).

**DailyWindow** has a UTC clock in slots, a fixed offset, and a worker that
stops and starts; a slot does not end before the running worker made a pass.

**Merkle** runs `inclusion_proof()` and `verify_inclusion()` step by step with
symbolic collision-free hashes, and compares `merkle_root()` with RFC 6962's
definition. It uses `RECURSIVE` operators and is for TLC alone.

**Posting** has entries, the number sequence, period states and leaves, and an
open transaction per request. What a request read is in `tx[p].entry`; its writes
appear at `commit_...`. The sequence row is the only one read FOR UPDATE
(`MayLock`); the first number of a scope has no row to lock (`insert_sequence`).
`record_leaf()` may fail or be switched off without the posting noticing, so
`commit_post` commits with a leaf or without one. The lines of an entry are one
amount, negative when mirrored; a date is the number of its period. `serves` gives
the operations each request process takes: one process that takes them all, or
three that post documents. `OneEditor` and `OneAtATime` name which of these a
property is for: the first allows any number of processes that create, post and
reverse documents beside one that edits drafts.

**Books** is the billing screen over the chart and the calendar: accounts,
cards, bank details, years, periods and two-line entries. A request is one
step. Nothing but the ledger entry is stored for the day book, so the module's
`_to_entry` and `summary` read the lines as the code does. `ensure_books()`
(template sync and fiscal year) runs inside every operation that calls it. The
template has the accounts the code names. `reverse_entry` takes the date of the
reversal, as accounting's endpoint does. Accounts entered by hand are leaves
under an existing one; names are their case-folded form.

**Auth** has the rows (`users`, `sessions`), the Redis keys and the access tokens.
Requests are one step except those whose reads and writes another request can
part. Refresh, revoking every session, the app's poll and the second factor read
in one step and write in another. A password sign-in, an e-mailed code and a
password reset ask `is_locked` first,
answer and count a failure in a later step, and at the limit set the lockout and clear
the counter in two more. So any number
of requests can be past the question when the lockout begins. `RowLocked` is
`SELECT ... FOR UPDATE`. A session remembers its sign-in (`root`), whether a
second factor was owed and shown, and the user's `era`, for the properties. A key,
the counter of failures among them, may expire at any moment.

**Routes** is the permission catalogue, the seeded roles and one record per router
with what each endpoint demands and writes: nothing, anything, or, for a GET that
writes, what it tends (`Tends`; `Upkeep` are the kinds that reading brings with
it). **Access** extends it with organisations, members, invitations, roles and
tokens. The database is one record; `SaveAndBump` forgets the tokens of the users
whose epoch it bumps, and `Commit` or `Rollback` follows, with sign-ins and
refreshes between. A token is minted in two reads, the rights and then the epoch;
`minting` holds those between the two, and `racing` marks a token whose minting a
change overlapped. One change is staged at a time (`staged`) and one edit of a
role's permissions may overlap it (`regrant`), which is where the list of a role's
holders can be out of date.

**Gst** is the arithmetic of `tax/gst.py` in units of 0.0001. **Sales** and
**Purchasing** extend it; each has its document tables and the journal entries
it posted, as signed amounts by account. A request is one step, that is,
requests that overlap are not covered. `Posted`, `PostReceipt` and `PostBill`
are used both by the posting endpoint and by creation with `post=True`, as in
the code. A request that any check or constraint refuses is not a step: in
particular `cancel_invoice` of a draft, which the CHECK constraint
`posted_has_journal_entry` always refuses.

`MC...` modules name the processes, keys, documents and operations for the
runs. The theorems are in modules of their own that extend the component's:
**ProofLedgerProofs** (the contract, the daily schedule that seals on it, and the
posting engine whose entries are sealed), **SealOutboxProofs**, **BooksProofs**,
**SalesProofs**, **PurchasingProofs**, **AuthProofs** and **AccessProofs**
(organisations and roles, and the onboarding of an organisation). **Sums** has the
lemmas about sums over finite sets.

## 3. Runs

| Run | Shows | Bounds |
|---|---|---|
| `ledger` | the contract's promises under every call by every signer | 1 namespace, 2 accounts, 2 roots and the sentinel, chains of 3; 5,000 states |
| `outbox_worker` | one worker through timeouts, refusals, crashes, seals given up and replaced: database and chain agree, and every leaf is sealed at last | 3 leaves, 4 rows, 3 faults, 2 attempts, batches of 2; 40,000 states |
| `outbox_concurrent` | two workers, a request that seals or closes a period, an operator who switches sealing off and on: a CONFIRMED row is on the chain, no leaf is stranded | 2 leaves, 2 rows, 1 fault, 1 attempt; 780,000 states |
| `onboarding_own_key` | overlapping requests, unknown outcomes, crashes, rotation to a multisig account: a ready row can seal, retries converge | 2 requests, 2 faults; 88,000 states |
| `window_zones` | the schedule in seven zones over five days | slots of four hours; 222,000 states |
| `merkle` | root, path and verdict for every batch in bounds | distinct leaves and all lists over two values; 14,000 states |
| `posting` | numbering without gaps and true leaves, with three requests at once or one of any kind; the books stand as posted with one | 4 entries, 2 periods, rollbacks anywhere; 2,040,000 states |
| `books` | entries read back as typed, keep their accounts, sum to the ledger's profit; the form offers what is accepted | 4 requests, 2 days, 2 entries, 1 card, organisations with and without books; 249,000 states |
| `auth` | one live session per sign-in, revocation, second factor, lockout | 1 user, 5 requests, 2 at a time, 3 sessions, 1 tick; 1,650,000 states |
| `access` | the owner keeps control, tokens do not outlive rights, roles stay home, readers change nothing but upkeep | 2 users, 2 organisations, 3 changes; 372,000 states |
| `sales` | documents, allocations and receivable agree; orders track invoices; every invoice balances | 5 requests, 2 documents of 2 lines, 2 invoices, 2 payments; 120,000 states |
| `purchasing` | bills, payments and payable agree; stock, stock card and order lines agree; stock value follows the ledger | 4 requests, 3 deliveries, 2 receipts, 2 bills; 270,000 states |

The bounds are chosen so that the cases happen. Three leaves with batches of
two make seals that follow each other and batches that do not exhaust the
backlog. Two attempts make giving up reachable; the code's limit is 5 and
nothing depends on the number. Three faults are enough for an attempt that
times out, a replacement that fails and a crash. With 2 rows two seals can
compete for one number or share leaves. Merkle sizes pass two powers of two.
Four requests of `books` suffice to record an entry, reverse it, and touch its
accounts on either side. In `auth`, five requests enrol a second factor and
use it, or sign in, refresh twice at once and revoke. In `access`, two
organisations make a role of the other one, and three changes follow the
registration and sign-in of both users, which the bound does not count. The
documents of `sales` and `purchasing` are chosen so that lines round up and
down, tax splits unevenly and the document rounds both ways. In `purchasing`
the organisation starts with a supplier and a product, so that its four
requests can order, receive, move and cancel, or bill and pay.

`CHECK_DEADLOCK FALSE` is set where requests or faults are bounded: when the
bound is used up there is nothing left to do.

`PassesApart` in SealOutbox says that one worker runs and that its passes and
restarts are further apart than a transaction lives. That is the default (a
transaction has a time bound of `soroban_timeout_seconds` = 45, passes are
`seal_worker_interval_seconds` = 60 apart) except for a restart within the
bound. It is assumed in `outbox_worker`, and needed there for
`FailedNeverLanded`: otherwise a seal can be given up while the transaction of
an earlier attempt is still alive. `outbox_concurrent` does not assume it.

Fairness. `outbox_worker`: the worker loop (`run_forever()`) never stops for
good, days turn, and the network applies what it was sent unless it spends one
of the bounded faults. A crash is a fault, followed by a restart.
`onboarding_own_key`: a request that began runs to its end, the network applies
what it was sent, and somebody presses the button again while sealing is off.
No fairness is assumed of anything the environment chooses to do wrong.

## 4. Proofs

Of the 38 safety properties that the runs check, 35 are also theorems, for every
value of the constants: any number of processes, users, organisations, keys,
rows, faults and any length of history. Every theorem rests on an inductive
invariant `IInv` of its module, which was model-checked before it was proved.
The assumptions are the named `ASSUME`s of the component modules: bounds and
limits are naturals, sets of processes are disjoint and finite where they are
counted, and a model value that stands for "none" is not one of the things it is
none of. TLC evaluates them in the runs.

**ProofLedgerProofs**: `TypeCorrect`, `ChainIsContinuous`, `GenesisIsFirst`,
`WindowsAreTiled`, `RetryIsRefused`, `IsAppendOnly`, `ReadsAreTrue`.
`ChainContinuous` relates neighbours in the chain, and is not inductive alone:
to append a seal one must know that the book's summary is that of the newest
stored seal, that no entry lies at the number being written, that stored roots
are not the sentinel and stored timestamps not in the future. The invariant is
therefore types, `NoGaps`, `Linked`, `HeadAgrees`, `WellFormed`,
`GenesisOnlyFirst`, `WindowsTile` and `Bounded`; `WindowsTile`, which spans any
distance, is carried rather than derived from `Linked`. For the reads: without
gaps a page is an interval, so its k-th seal has a closed form (`PageIsRun`),
and `Totalled` carries a running total as a function that exists, which seal()
extends by one number; that the recursion of `EntriesIsTotal` computes this
function follows because two solutions that differ would differ at a least
number (`WFMin` of the library).

For the daily schedule: `EveryDayIsSealed`, `OncePerDay`, for every offset, hour,
length of day and horizon. The invariant `DayInv` records what a pass decided
(`Decided`) and when the open row was created (`FlightInv`).

For the posting engine: `BooksAreGapFree`, `LeavesAreTrue`, `ReversalsCancel`,
`BooksStand`. The number sequence is locked by at most one request from reading
to commit (`Sequenced`), so used numbers and the one in hand run without a gap;
`LeavesAreTrue` is about the leaves that exist, and says that nothing but
the books is ever sealed; that an entry has a leaf is not true of the code.
`EditorInv` says that a draft in hand is still the draft in the table when one
process edits, `SoloInv` the same of everything a request read when there is
only one.

**SealOutboxProofs**: `ConfirmedMeansSealed`, `LeavesFindTheirWay`,
`ActsThroughContract`, for any number of workers and requests, with
`PassesApart` or without, and sealing switched off and on. `submit()` acts on a
copy that may be out of date, so `TxInv` says what stays true of a stale copy:
its number and root are the row's, it was open when read, and a request's
uncommitted row is its own. The contract only appends, so what confirmed a copy
is still there when it commits. `Room` bounds rows and uncommitted rows together
(it needs the cardinality of the set of requests that hold one).
`ActsThroughContract` is the step half of the composition: every step of the
outbox is a step of ProofLedger's `Next` or leaves its storage alone.

Its second half has `LeavesInOrder`, `ChainIsKnown`, `TurnIsAccepted` and
`GivenUpNeverLanded`, under `Solo`: `PassesApart`, one worker, no request beside
it, sealing left on, which is the configuration of `outbox_worker` with its
bounds lifted. None of them holds without it (section 6). Database and chain
change in different transactions; the invariant `SoloInv` says how far apart
they can be. The live rows are the chain's seals in order and at most one more
(`Mirror`); that one is the only open row, and the contract would take it
(`OpenRow`); only its call can be in flight (`InFlight`); the live rows cover the
backlog from its start (`Tiling`); and the worker's reads are the front of the
backlog and the end of the chain (`HoldsAlone`). So the new row is always the
one the contract expects (`NewRowIsNext`, where `covered_window`,
`latest_confirmed` and `highest_live_seq` meet the checks of `seal()`), and a row
is given up only while nothing of it can land.

**Sums**: what a sum over a finite set is when a term is added, changed, moved or
is zero. The library's sum is a fold over elements chosen in some order. There
is no induction: a statement that failed of some subset would fail of a smallest
one (`SmallestSet`, again by `WFMin`), which gives that the fold exists as a
function (`FoldsExist`), is unique, and does not depend on the order (`SumTake`).

**BooksProofs**: `AccountsOutliveEntries`, `DayBook`, `OffersAreAccepted`,
`SummaryIsTheProfit`. An entry is read back through accounts that have had a life
of their own since, so the invariant says what that life can be: rows stay and
keep code, type, subtype and parent (`Kept`), a parent is a heading (`Tree`), the
template's rows stay (`Full`), a debit card points at cash or a bank (`CardInv`).
`OffersAreAccepted` then follows from the types and from reading an entry back as
`record()` does before it commits; it leaves out income and expense accounts of a
cash subtype, which are offered and refused (section 6). `SummaryIsTheProfit`
follows from one more invariant, `PairsCancel`: over any accounts whatever, an
entry and its mirror add up to nothing, whatever the mirror's date, because a
mirror is counted in the window of its entry. It is proved for `Len(entries) <=
PageSize`: beyond that `summary()` leaves entries out (section 6), and the
statement is false.

**SalesProofs**: `ReceivablesAlwaysAgree`, `OrdersTrackInvoices`,
`PostingLinesBalance`. The same money is kept in four tables by different code.
The invariant states each stored figure as a sum with one term per row: the
balance (`Dues`), what is outstanding (`Opens`), billed to an order (`BilledTo`),
unallocated (`Unspents`) and paid on an invoice (`Settled`). A request then
changes one term of each sum (`Wrote`), or, for an allocation, the terms that its
plan names (`ApplyStep`). A standing invoice's entry is the one it posted
(`Entered`), so a cancellation takes off what the posting put on, and the `max(0,
...)` of the order's total never comes to bear (`RolledBack`). The first theorem
assumes `ControlAccountKept`: no line and no receipt is booked to the receivable
account itself, which the code does not refuse (section 6) and which moves the
account without a document. `PostingLinesBalance` is about arithmetic: whatever
the discounts, the split and the rounding, the lines of an invoice sum to zero.

**PurchasingProofs**: `PayablesAlwaysAgree`, in the manner of SalesProofs and under
its own `ControlAccountKept`. The ledger has more to it here, for receipts and
stock-takes post too: their entries do not touch the payable account (`Booked`), a
bill puts its total on it whatever its lines debit (`BillOwes`, which needs that a
bill's products exist, `Known`), and so any order of receiving, billing, paying and
cancelling moves the account with the documents. `StockAlwaysAddsUp` needs no such
hypothesis. `record()` is the only writer of a position, and moves position and stock
card together (`PositionMoved`); what it takes out is never worth more than what is
there, for a rounded share does not exceed the whole (`ShareBounded`). A receipt with
any number of lines is a row of such moves, so the theorem first shows that the stock
after each line exists, by a smallest counterexample as in Sums (`StepsExist`). An
order line's received quantity is a sum over the receipts that stand (`Tracks`), so a
cancellation finds there what it takes back and the `max(0, ...)` never comes to bear.

`StockMovesWithLedger` is an action property: a request that moves stock and posts
does both by the same amount. It needs `InventoryKept`: the inventory account of a
product is neither the cost-of-sales nor the accrual account (section 6), for an entry
with both sides on inventory accounts moves nothing. The worth of the stock (`Worth`) is
a sum over products of sums over warehouses, of which `record()` changes one term by
the total of its movement (`WorthRecorded`); what the inventory accounts hold (`Held`)
is a sum over accounts of sums over entries, to which `create_entry()` adds one entry
(`HeldAdded`). Line by line, a receipt without free goods gains the stock exactly the
sum that it posts (`LinesWorth`). That all these are numbers is an invariant of its
own (`LedgerInv`), for the bills too, since they post to the same accounts.

**AuthProofs**: `OneSession`, `SecondFactor`, `EarlierSessionsEnd`,
`GuessesAreBounded`. A session that was rotated is revoked, a refresh in hand
holds its row's lock and so is the only one of its sign-in (`RefreshInv`);
everything a session can begin from (code, link, poll, challenge) records
whether a factor is owed (`SourcesInv`); births are in the user's era unless a
refresh was overtaken (`EraInv`). `GuessesAreBounded` has an invariant of its own,
`ThrottleInv`: what counts against a user is the counter and, besides it, the
requests past the question `is_locked` (`Asking`) or between counting and locking
(`Locking`). A request is in one of the two at most, so together they are no more than
the workers (`Shared`, by the cardinality theorems of the library), and `Within`
bounds the wrong answers by the limit and the others in hand. The counter's expiry
begins a new count; how many of them fit into a day is not bounded by the code.

**AccessProofs**: `OwnersKeepControl`, `GrantsDoNotOutlive`, `RolesAtHome`,
`ReadingIsUpkeep`. The invariant is `Sound(d)` of the committed database and of
the one being committed: one owner per organisation whose role is the seeded one
and cannot be edited or deleted, roles at home. Tokens and those being minted are
bounded by the rights of the committed database and of what each change about to
commit makes of it, unless marked `racing`. `ReadingIsUpkeep` goes through the
catalogue of `Routes`, endpoint group by endpoint group.

For onboarding: `ReadyMeansAble`. The row, and each copy a request holds, is
registered only if a book is open, and ready only with a key; with one key the
book's admin is that key's account or one it signs for (`SetupInv`).

Model-checked only, and why. Liveness (`EventuallySealed`, `EventuallyReady`) is
out of the prover's reach. Merkle's three properties are about definitions that recurse
over trees, which the prover cannot expand.

## 5. Plan

Done: the contract, the attestation service, the books, billing, sales,
purchasing, authentication, organisations and permissions; theorems for all of
them but what section 4 names. Next, in this order:

1. An abstract specification of the attestation service (a leaf is waiting, in
   flight or sealed, and a seal is never undone), refined by SealOutbox with
   one worker; `SoloInv` is the invariant the refinement needs.
2. Requests that overlap in Sales and Purchasing, with the row lock of a stock
   level as the only one, and what still holds then.
3. The life cycle of a captured document (`ocr/service.py`) and its advisory
   lock.
4. Lock order: number sequences, the organisation row and stock levels in one
   request that posts in two journals.

## 6. Disagreements met

Where the code and what it says of itself part. Each was met while modelling;
the runs state what does hold, with the exception named in the property or its
bounds. Properties and operations in parentheses show it when the exception is
lifted.

Attestation.

* `seal_now()` inserts and submits in one transaction
  (`attestation/service.py:1377`). A crash after sending rolls the row back and
  the chain keeps a seal nobody knows, although "pressing the button never
  leaves a seal orphaned" (:1367). (`NoOrphan` with a request.)
* A generated key is saved only when the request commits (:578). An unknown
  registration outcome rolls it back, and the book that then opens belongs to a
  key that is gone, while the row reports ready ("Whether a seal could actually
  be submitted right now", `models.py:284`). (`ReadyCanSeal` without
  `OneKey`.) The same happens when overlapping or later requests supply different
  keys. `enable()` with a key of one's own after a rotation records an account
  that is not the book's admin; sealing works when the key still signs.
* `last_local_date` is a UTC date (`worker.py:192`), although due means "the
  organization's own local date has advanced" (:160). West of UTC a local day
  can pass without its seal, east of it a local day can have two.
  (`NoDaySkipped` west of UTC.)
* Switching sealing off while a submission is unresolved makes `submit()` fail
  the row before it asks the chain (:1039), so a seal that landed is marked
  FAILED. The worker and the period-close hook can both pass `exists_open()`
  (:933) and end with two live seals that share leaves. With two workers the
  slower one writes its outcome over a terminal status.

Accounting.

* `update_entry()` reads the draft without a lock (`accounting/service.py:838`),
  so an update that overlaps the posting changes a posted entry ("Posted
  entries are immutable", `models.py:16`). With the same cause: two requests
  that post one draft leave a gap in the numbers, two that reverse one entry
  post two mirrors, a posting commits into a period that closed after the
  check, a reopening that overlaps a locking opens a locked period, and two
  edits keep the lines of both. (`OneEditor` and
  `OneAtATime` are the exceptions in Posting.)

* By design `record_leaf()` swallows every exception and does nothing when
  `ATTESTATION_ENABLED` is false (`attestation/service.py:863`, :888): "A failure
  here must never fail the posting". So an entry can be posted that no seal will
  ever cover. (`LeafMatchesEntry` is about the leaves that exist.)

Books and billing.

* An account of type income or expense can be created with subtype cash or bank
  (`accounting/schemas.py:52`). `money_accounts()` then offers it, `record()` refuses
  it when it reads the entry back, and `transfer()` takes it, although its lines are
  to be "neither of them on an income or expense account"
  (`billing/service.py:1662`): a transfer changes the profit. (Such
  accounts are the exception in `OfferedIsAccepted`.)
* `summary()` drops a cancelled entry together with its reversal. Accounting may
  date the reversal later, and a ledger report of a window that holds only one of
  the two then differs from the screen. (`SummaryIsProfit` counts a reversal in the
  window of its entry.)
* `summary()` asks for one page of 200 entries and sums only those.
* `_save_bank_details()` returns early when every field is blank
  (`billing/service.py:662`), although the endpoint says that a blank field
  clears what was stored.
* `ensure_year_for()` does not look for overlaps, although "Fiscal years must
  not overlap" (`accounting/repository.py`): after a year created by hand the
  derived one may overlap it, and a day in both has no period to post in.
* `_next_code()` ignores soft-deleted accounts while `uq_account_org_code`
  covers them, so the next account of the block is refused.
* Deleting an account through accounting leaves its cards pointing at it, and a
  card that says it can be deleted is then refused.
* Reversing a reversal through accounting puts the entry back in the ledger
  while the screen still shows it as cancelled.

Authentication.

* A refresh that overlaps `revoke_all_for_user()` commits a successor the
  UPDATE does not see, so a session from before a password change stays good,
  although a new password is to "invalidate everything issued under the old
  one". (`overtaken` is the exception in `EarlierSessionsDie`.) Revoking a
  lineage has the same gap.
* `OtpStore.verify()` is check-then-consume, "in one step" by its docstring:
  two requests can sign in with one code. The app's poll and a recovery code
  can be used twice in the same way.
* `complete_two_factor()` counts failures and never asks whether the account is
  locked, so the throttle does not bound the codes of the second factor.
* The lockout is asked for before the answer is checked and the failure counted
  after it, across awaits: requests that overlap each have a guess beyond
  `max_login_attempts` (`GuessesBounded` has the term). The counter expires, after
  which the count begins again.
* Signing a rotated successor out leaves the predecessor's access token good
  until it expires.

Organisations and roles.

* The epoch is bumped before the change commits, and `_issue_access_token()` reads
  the rights before the epoch (`auth/service.py:1134`). A token minted across either
  carries the old rights until it expires, although a suspension is to "Cut off access
  immediately rather than at token expiry" (`organizations/service.py:318`) and
  "Permission changes must reach existing sessions immediately".
  (`racing` is the exception in `StaleGrantsRefused`.)
* Some GET endpoints write behind a read permission: listing invitations expires
  stale ones (`organizations/service.py:529`), the billing screen creates what is
  missing of the chart and the fiscal year (`billing/service.py:408`), the sealing
  page its settings row. (`Upkeep` in `ReadersOnlyTend`.)
* Deleting an organisation bumps nobody and existing tokens keep working in it.
* The default role can be unset or deleted, after which an invitation that
  names no role is refused.
* Resending an expired invitation while another is pending is refused by the
  index.

Sales.

* Cancelling a draft invoice always fails on the CHECK constraint
  (`sales/models.py:570`), although `cancel()` has a branch for it.
* `from_quotation()` drops the discount amounts of the lines and converts a
  quotation that was never accepted.
* The control check says that receivable and open invoices must agree; an
  unallocated payment makes them differ. (`ReceivablesAgree` has the term.)
* "Unallocate them first", says a refused cancellation; there is no operation
  that unallocates.
* An invoice's order is not checked for customer or status: posting against a
  cancelled or draft order marks it invoiced, and an over-invoiced order shows
  as partly invoiced after a cancellation.
* Reversing a document's entry through accounting is not refused and the
  document does not learn of it; this is outside the model's inputs. A line or a
  receipt may be booked to the receivable account, and a bill's line, product or
  payment to the payable one (`ControlAccountKept`).
* The split of an odd tax gives the larger half to CGST; its docstring says
  that the half is rounded down.

Purchasing and stock.

* Cancelling a receipt after other movements takes out another value than the
  ledger reverses, although the two "can never diverge". A line received at no
  cost enters stock at the purchase price and is left out of the entry
  (`FreeGoods` in `StockFollowsLedger`). A bill without a receipt debits
  Inventory without a movement. Nothing keeps a product's inventory account apart
  from the cost-of-sales or the accrual account (`InventoryKept`). Receipts post to the system Inventory account
  and issues to the product's own. Transfers round again.
* An inactive supplier can never be made active again: `update()` looks for
  active ones only.
* A cancelled bill still blocks the cancellation of its receipt ("Cancel the
  bill first") and keeps its supplier's invoice number; two bills of one
  receipt make the look-up raise.
* A bill may name a draft or another supplier's receipt and clear the accrual
  again; a receipt line may name a line of another order; a receipt needs no
  approved order; cancelling a receipt does not refresh the order's status.
* `default_warehouse()` creates MAIN even if a warehouse of that code exists
  and is not the default, which the index refuses.
* `issue_for_sale()` is called by nothing, so invoices do not move stock.

## 7. Not modelled

Reports, exports, dashboards, mail and audit (read-only or insert-only); text
extraction and the documents it fills; rate limits; clients and installer. The
canonical encoding is taken to be injective. Several organisations in one
worker pass, daylight saving time, two overlapping edits of one draft, requests
that overlap in Books, Sales and Purchasing, and database savepoints are left
out of the modules that would have them. In Books, accounts at the top level,
groups entered by hand, renaming and journals are left out; in Sales, credit
limits and due dates; in Purchasing, codes, barcodes and overrides of the
cost-of-sales account, and in a receipt the choice of order lines: its line k is
for line k of one order. In Access, no more writers overlap than an edit of a role
and one other change. Rows deleted for good by retention jobs are not
modelled.
