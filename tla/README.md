# A formal model of the merchant registry service

TLA+ modules, TLC configurations and TLAPS proofs for `merchant-registry-svc`:
the **Acquirer Backend** (`packages/acquirer-backend`), in which the staff of a
DFSP records merchants and decides on them, the **Registry Oracle**
(`packages/registry-oracle`), which owns the aliases that payments resolve, and
the **portal** (`packages/acquirer-frontend`), the browser application of that
staff.  The repository is `src/` below; paths without a directory are file names
that occur once in it.  `PROJECT.json` maps every definition to the lines it
models, and lists the hazards the properties are for, each at its line.

Contents: [the system](#1-the-system) ·
[the modules](#2-the-modules-and-the-code) · [the runs](#3-the-runs) ·
[the proofs](#4-the-proofs) · [what the models show of the code](#5-what-the-models-show-of-the-code) ·
[what is left out](#6-what-is-not-modelled) · [what comes next](#7-what-comes-next).

## 1. The system

Both services are Express applications on Node.js, each with a MySQL database
of its own that it reaches through TypeORM.  Nothing is kept in memory between
requests.  A handler is an `async` function: between two of its `await`s nothing
else runs, at each `await` any other handler may.  The backend calls the oracle
over HTTP; the oracle calls nobody.  The portal is a React application; it calls
the backend, keeps the answers in a cache (react-query) per tab, and its token
and the id of the merchant in hand in the storage its tabs share.

### Registry Oracle

| component | state | operations |
|---|---|---|
| merchant registrations (`internalRoutes.ts`, `registerMerchant.ts`, `idempotency.ts`) | table `registry`: alias, merchant, checkout counter, LEI, DFSP, unique on alias and on (merchant, counter); table of idempotency records | register a batch in one transaction, under a key; look up an alias or a LEI |
| participants (`participantRoutes.ts`) | rows of `registry` without a merchant; the incremental head of generated aliases | `GET` and `POST /participants` |
| credentials of DFSPs (`internalRoutes.ts`) | table `api_access` | `PUT …/access-credential`, idempotently |

*Hard.* A key is looked up before and recorded after the operation commits, so
runs of one request execute side by side; a commit without a record is left by a
crash; checks read a snapshot and only two of three uniqueness rules have an
index behind them; the incremental head is read, retired and replaced in
statements of their own.
*Correct when* no alias and no counter has two rows; one key has one answer; an
answer once given names rows that exist; an alias in use changes only on
request; aliases that are made up are handed out once, in order; a number below
the head that a merchant gives up is not given again.

### Acquirer Backend

| component | state | operations |
|---|---|---|
| client of the oracle (`registryOracleClient.ts`) | none of its own | `requestRegistry` with timeouts and retries, `registerMerchantsWithRegistry` |
| maker/checker workflow (`merchantControllers/`) | `registration_status`, `created_by`, `checked_by`, `allow_block_status` of `merchants` | create and edit a draft, submit, approve, reject and revert in bulk, edit contact persons, owners, locations |
| locations and counters (`checkoutCounters.ts`) | `checkout_counters` with their numbers, `next_checkout_counter_number` | add, rename, remove the counters of a location |
| counters after approval (`approvedCheckoutCounters.ts`) | counters with the hash of an Idempotency-Key | create under a lock, register, withdraw, retry |
| bulk import (`bulkMerchantOnboarding.ts`) | import records under an Idempotency-Key; merchants under review | validate and import a workbook |
| LEI checks (`GLEIFService.ts`, `SubdivisionMappingService.ts`) | none | compare an address with the record of a LEI |
| users and sessions (`userControllers/`, `authenticate.ts`) | portal users with a status, sessions | invite, verify, log in and out, change, reset and recover a password, block |
| DFSPs (`dfspControllers/`) | DFSPs and their client secret | create, rotate the secret with the oracle |
| start-up (`initDatabase.ts`, `serviceInitializersSetup.ts`) | every table of codes, places, roles, first users | connect, seed row by row, retry |

*Interaction.* Approval moves merchants to *Waiting For Alias Generation*, calls
the oracle for all their counters, then generates, uploads and records the QR
codes one counter after the other, marking the merchant *Approved* after each; a
failure returns every merchant of the request to *Review*.  A rotation saves the
secret, sends it to the oracle, and restores the old one when the call fails.
*Hard.* Every handler checks what it loaded and later writes without a
condition; several save whole rows or relations as they loaded them; the calls
between may fail, come late or be repeated; a restart leaves whatever was
written.  Requests are answered from the start, before the tables are seeded.
*Correct when* nobody decides on a record he made; a rejection stays; nothing is
usable before the oracle knows it; an approved merchant is complete; numbers of
counters name one counter for ever; an import is whole or absent and its key has
one answer; a new password ends the old one's sessions; both databases agree on
a secret; a started backend has every row once.

### Portal

| component | state | operations |
|---|---|---|
| registration form (`pages/RegistryForm/`) | `merchantId` in local storage; forms, their fetched draft | four forms and a review, resuming a draft, reloading, submitting |
| address fields (`AddressFormFields.tsx`, `LocationInfoForm.tsx`) | three dependent fields and their lists | choose, prefill from a draft |
| review lists (`PendingMerchantRecords.tsx` and its likes) | cached pages, ticks by row number, filter | page, filter, tick, decide |
| session and routes (`routes/index.tsx`, `axiosInstance.ts`, `api/hooks/auth.ts`) | token and mark of a temporary password in local storage; cache of answers | log in and out, change the password, guard the pages |

*Hard.* An answer arrives after the page, the session or the draft it belongs to
is gone; storage is shared by tabs and caches are not; whether to create or to
update is decided on a copy.
*Correct when* what was typed reaches the merchant it was typed for, once; what
is submitted is complete; a verdict meets the merchants that were ticked; lists
know of the verdicts answered; no answer of an earlier session ends a later one
or shows its data to another user.

The shared library holds the enumerations and the alias builder
(`merchant-alias.ts`).

## 2. The modules and the code

    KeyedAnswers        what an Idempotency-Key promises                (abstract)
      ^ implemented by
    RegistryOracle      registrations at the oracle, run concurrently
      ^ extended by
    RegistryClient      the backend's calls with timeouts and retries
    KeyedAnswers  <---  BulkImport        uploads of workbooks

    MerchantLifecycle   the life of a merchant in the guide             (abstract)
      ^ implemented by
    MerchantApproval    the backend's handlers on existing merchants

    AliasCounter        numbers given once, in order                    (abstract)
      ^ implemented by
    DfspAccess          DFSPs, their secrets in two databases, POST /participants

    CheckoutCounters    counters of a merchant before and after approval
    UserSessions        accounts, passwords, sessions at the backend

    StartUp             from listen to a seeded database
      ^ extended by
    AddressForm         places offered, chosen, compared with the LEI, saved

    RegistryForm        the registration form       ReviewLists   lists and verdicts
    PortalSession       token, mark, routes, cache

Each has an `MC…` module with the instance TLC checks; the proofs are in the
`…Proofs` modules.  Operators named `Faulty…` are not part of the models: each is
a plausible error in the definition beside it, kept to show that a property
would notice it.  Three conventions hold throughout.  A step is what happens
between two awaits.  A request that is refused and leaves nothing behind is no
step.  A TypeORM `save` of a loaded entity overwrites the columns in which the
entity differs from the row found at that moment, in one step; a transaction with
no external await is one step.

### RegistryOracle

One *run* is one request at `POST /internal/v1/merchants/registrations`; the set
`Attempts` bounds how many arrive.  `registry` and `records` are the tables;
`pc`, `key`, `batch`, `snapshot`, `data` and `reply` are the local state of runs.

| action | code |
|---|---|
| `Arrive` | the request passes the validation of the route |
| `LookUp` | `findOneBy` of the key: replay, refuse or go on (`idempotency.ts:48-57`) |
| `Begin` | the transaction reads: its snapshot (`registerMerchant.ts:146`) |
| `Commit` | all merchants of the batch, checked and saved in order (`registerMerchant.ts:149-233`), with the unique indexes |
| `Insert`, `Reread` | the key is recorded (`idempotency.ts:61-69`) or the insertion throws and the key is looked up again (`:70-78`) |
| `Fail`, `Crash` | a database call throws: 500 and rollback; the process stops: all runs are lost |
| `AddParticipant` | a row of `POST /participants` with a chosen alias |

Aliases are model values, so two spellings that `LOWER()` identifies are one
value.  The look-ups and writes of a transaction are one step that reads the
snapshot taken at `Begin` and writes the committed rows: this is what InnoDB's
default isolation level makes of them, since its reads do not see later commits
and the unique indexes do.

### RegistryClient

Extends the oracle: the n-th request of call `c` is run `<<c, n>>`.  `Send`,
`Receive` and `RetryOrThrow` are the loop of `requestRegistry`; `TimeOut` gives
an attempt up and leaves its run going; `ConnectionLost` is the broken connection
after `Crash`.  5xx and missing answers are retried, 409 is not.  The back-off
between attempts is no state.

### MerchantApproval

`status`, `creator`, `checker`, `allowed` are columns of `merchants`; `issued` is
the set of counters with alias, guid and QR code; `registered` is the oracle,
seen from here: the counters it has rows for.  A handler has a `pc`, its request
with **what it loaded**, and the counters whose answer it has still to apply.

| action | code |
|---|---|
| `Load` | every handler's first part: load, check status and maker |
| `Submit` | `putMerchantReadyToReview` saves the loaded entity with status Review |
| `Save`, `SaveAlias`, `Resave` | `putMerchantDraft`: the record, its requested alias (the primary counter as loaded), the record again after an upload |
| `StaleSave` | the merchant row saved by the contact, owner and location endpoints; contact persons make the editor the maker |
| `Decide` | `putBulkReject`, `putBulkRevert`: two columns |
| `Mark`, `Audit`, `Register` | `putBulkWaitingAliasGeneration` up to the oracle's answer; a failing call may have registered the counters |
| `Apply`, `Approve` | `processAliasData` for the next counter, `updateMerchantStatus` |
| `Reset` | the `catch` that returns the merchants to Review |
| `QueryFails`, `Crash` | a database call throws outside that `catch`; the process stops |

`Spec` lets requests race on a merchant.  `AloneSpec` admits a request only when
no other works on its merchants: what the handlers guarantee under it they
guarantee in themselves, and [section 5](#5-what-the-models-show-of-the-code)
says what races take away.  The users are those of the merchants' DFSP who may
do all operations.  The counters of a merchant are fixed here.

### CheckoutCounters

The counters of one merchant, as rows with location, number, alias, key and
whether they are issued.  `LoadPost` and `LoadPut` are the two location requests
with what they loaded, `Validate` and `Verify` their checks of aliases,
`Sync` the transaction of `syncCheckoutCounters` with the save of the loaded
merchant around it.  `LoadAdd`, `Insert`, `LookLocally`, `LookInRegistry`,
`Withdraw` and `Apply` are `approvedCheckoutCounters.ts`, `LoadRetry` the retry of a
pending counter.  `Approve` is an approval of the merchant, `Contest` another owner
who takes an alias, `Fail` a failing call anywhere.

Between them `Find`, `Register` and `Record` are the oracle: the look-up of the
Idempotency-Key, the transaction, the insertion of the record, each of them one
after another request's.  An addition is sent under (the hash of) its own key, a
retry under one that is fixed for its counter; `records` has what the oracle keeps
for either.  The body of such a call is the counter and the alias it asks for: the
rest of it (stem, LEI, currency, DFSP) is data of the approved merchant and does
not change, and its LEI is its own already.  A record with the same body answers, a
record with another body is a conflict like a taken alias.

### UserSessions

`users` are rows of `portal_users`, `tokens` the stored sessions, `links` the
mailed ones.  Handlers load an account (`Login`, `LoadChange`, `LoadReset`,
`LoadTemporary`, `LoadStatus`, `LoadForgot`, `LoadVerify`, `LoadAdd`) and later
save the row as loaded (`LoginSave`, `SaveChange`, …); `Remove` deletes sessions
of an account one by one where the code does, `Mail` may fail, `Expire` ends a
token.  The history variables record which password a session was opened with,
and whether a handler was racing.

### DfspAccess and AliasCounter

`dfsps` is the backend's secret of each DFSP, `access` the oracle's; `sent` holds
the `PUT`s on their way, any of which `Deliver` may bring late or never.
`LoadCreate`/`Create` and `LoadRotate`/`Save`/`Send`/`Confirm`/`GiveUp`/`Restore`
are the two endpoints.  `Post`, `ReadHead`, `FindIncrement`, `RetireHead`,
`Insert`, `Add`, `LookUp`, `Respond`, `ItemFails` and `Abort` are
`POST /participants`, statement by statement.  `RegisterMerchant` and
`RenameMerchant` are registrations of merchants whose alias is a number, in a new
row or over the alias of the row they have; `freed` remembers the numbers given up
so.  `AliasCounter` says what the requests should do: give out numbers that nobody
has, each once, and pass over none but those that are taken or were given up by a
merchant.

### BulkImport

A workbook is what is left of it when columns and fields are valid: merchants,
locations and counters that refer to each other, with LEIs and aliases.
`CountersOf`, the `filter` of the code, takes the rows of a merchant in the order
of the sheet: the k-th is the one that has k rows up to it.  `Send`
is a request under a key, `LookUp` the look-up of the key, `CheckLeis`,
`CheckAlias` and `Checked` the queries and the local rules, `Create` the
transaction, `RollBack`, `Reread` and `Explain` what follows when it fails,
`Elsewhere` other merchants that take LEIs and aliases.

### RegistryForm, ReviewLists

`RegistryForm`: tabs that share `stored` (the merchant id), each with its form,
its copies of drafts and its requests.  The user opens, goes back, reloads,
leaves, saves and submits; `Create`, `Update`, `AddPart`, `ChangePart` and
`ReadyToReview` are what the backend does with a request, `Proceeds`, `Reviews`,
`Submitted` and `Fails` what the page does with the answer.  The backend's own
races are in the modules above: here a request is one step there.

`ReviewLists`: `entries` holds the fetched pages under list, filter and page,
`ticks` are row numbers.  `EnterFilter`, `Search`, `TurnPage`, `Open`, `Tick`,
`TickAll`, `Ask`, `Dismiss`, `GiveReason`, `Confirm` are the user; `Count`, `Read`,
`Deliver`, `FetchFails` a fetch, whose two queries at the backend are two steps;
`Perform`, `Answer`, `Fails` a verdict, with the invalidation of the lists.
`Refetching` is what react-query does when a list that is being fetched is to be
fetched again: it gives the fetch up, unless it is the first one of this list, which
it goes on waiting for (`FirstFetch`).

### StartUp and AddressForm

`StartUp` writes one row a step, in the order of `initializeDatabase`, from
`Start` and `Connect` to the last administrator; `Fail` is a failing query,
`Retry` the second call after three seconds, `Crash` a stop.  `Users` are those the
flags `SEED_DEFAULT_..._USERS` ask for, maybe none.  Rows are looked up
before they are inserted, except districts, which are cleared first.
`AddressForm` adds the three queries for places, the fields (`ChooseCountry`,
`ChooseSubdivision`, `ChooseDistrict`, the draft that fills them) and the request
that loads the merchant, compares the address with the record of its LEI through
the code tables and REST Countries, and saves it.

### PortalSession

`token` and `flag` are in local storage; `owner`, `open`, `must` the backend's
sessions and temporary passwords; per tab a page, the redirect target, the
cache and at most one call, one profile query and one data query.  `Authenticate`
has three outcomes: accepted; not accepted; and a query of the database that failed
for a session that is accepted, which `authenticate.ts` answers with the same 401.
Logging in
has two steps at the backend, the other handlers one: their races are in
`UserSessions`.  A request that fails was served before it failed, or never.

## 3. The runs

| run | instance | question | states |
|---|---|---|---|
| `oracle` | 3 requests, 2 keys, 5 bodies, 3 counters of 2 merchants, 2 DFSPs | Does an answer stay true, is `KeyedAnswers` implemented, do aliases stay, with failures, restarts and DFSPs taking aliases? | 960 000 |
| `client` | 2 calls of 3 attempts, 3 bodies, 1 loss, with fairness | Does success mean registered? Do retries agree? Does a call nobody contests succeed in spite of a loss? | 114 000 |
| `approval` | 2 requests at a time, 2 merchants with 3 counters, 2 users, failing queries and crashes, `AloneSpec` | Is the life cycle implemented, the maker never the checker, a rejection final, nothing usable unregistered? | 245 000 |
| `approval_live` | 1 request at a time, 2 merchants with 3 counters, failing oracle, QR codes and uploads, with fairness | Is a finished approval complete or undone; does every merchant leave the waiting status? | 52 000 |
| `counters` | 2 requests at a time, 3 in all, 1 location, 2 keys, limit 3, 4 rows | Do numbers stay, is the limit kept, are issued counters left alone, and only contested ones withdrawn? | 353 000 |
| `sessions` | 2 requests at a time, 5 in all, 4 seeded users of several roles, 1 new address | Is a temporary password marked, do sessions follow the password, by how much are limits overshot? | 1 970 000 |
| `dfsps` | 2 rotations, 2 `POST /participants` of up to 2 items, 1 DFSP, 2 secrets, 3 numbers of which 1 is given up | Do shown secrets work for good, do the databases agree, is `AliasCounter` implemented? | 309 000 |
| `bulk` | 2 uploads, 2 keys, a good workbook, a plain one and some fifty that differ in a row left out, repeated, altered or too many | Is an import whole, is `KeyedAnswers` implemented, are refusals true? | 416 000 |
| `form` | 1 tab, 2 merchants, 2 openings, 2 requests under way, 2 parts of a kind | Does what is typed reach its merchant, once; is what is submitted complete? | 3 040 000 |
| `lists` | 3 merchants, pages of 2, 1 filter, 2 calls that approve or revert, 1 change by others | Does a verdict meet what was ticked; do lists know of it? | 625 000 |
| `address` | 3 places in 2 countries that share a name, 2 LEIs, 1 crash, 1 failing query | Does a start leave every row once; is an address coherent, and the one of the LEI? | 623 000 |
| `portal` | 2 tabs, 2 users, 2 logins, 1 mishap | Is the mark of a temporary password true; do sessions survive stale answers; who sees whose data? | 1 342 000 |

The properties, by what would break them:

- `KeepsPromise`, `AnsweredRowsExist` (`oracle`): two runs of one key, or of
  rival bodies, overtake each other between look-up and insertion, or one stops
  after its commit.  `AliasesStable`: a second registration without a requested
  alias renames a counter in use.  `LeiKeptBySerialCommits`: the LEI checks miss
  a conflict within a batch, or with rows that were already there.
- `SuccessIsRegistered`, `RetriesAgree`, `NeverConflictsWithItself`,
  `LossIsMasked`: a late attempt registers again, refuses the retry, or its loss
  becomes the caller's error.
- `DecidedByAnother`, `RejectedIsFinal`, `KeepsLifecycle`: a handler accepts a
  status or user it should not, or writes something else than its verdict.
  `RegistryFirst`: a failing call, a stale value or a crash leaves a counter
  issued or a merchant approved that the oracle does not know.
  The run keeps requests on one merchant apart; the theorem `RegisteredFirst`
  holds for all races.
- `ApprovedIsComplete`, `WaitingEnds`: a failure at one of several counters
  leaves the others' approval standing, or the merchant waiting.
- `NumbersArePermanent`, `AddsKeepLimit`, `IssuedStay`,
  `OnlyContestedAreWithdrawn`: a removed number is used again, an addition goes
  past the limit beside a replay, a request with current rows takes an issued
  counter away, a replay takes its own registration, or the record of it, for a
  rival's.
- `TemporaryIsMarked`: a stale save restores a temporary password without its
  mark.  `SessionsFollowPassword`: a handler changes the password and leaves
  sessions or links.  `CreationBounds`: a check is missing, not merely overtaken.
- `ShownOpens`, `StoredSecretOpens`: a late or lost `PUT` replaces or withdraws a
  secret in use.  `HandsOutNext`: two requests, or one cut off between
  retiring a head and inserting the next, skip a number nobody had, or repeat one.
- `ImportedIsComplete`, `RefusalIsTrue`: a rule between sheets is missed, a
  transaction leaves part of a workbook, a repeated upload is refused for its
  own import.
- `SubmittedIsComplete`, `StaysWithItsMerchant`, `NothingIsDoubled`: an answer
  moves the wrong form, a stale id or copy decides what a request does.
- `DecidesWhatWasTicked`, `ListsFollowVerdicts`: rows move beneath the ticks, a
  cached list survives the verdict that changed it.
- `SeededIsComplete`: a start that was cut off is taken for a finished one, or
  doubles what it left.  `StoredIsCoherent`, `LocationsAgree`: a field is kept
  when the one it depends on changes, a check passes on the wrong field.
- `FlagIsTrue`, `OpenStay`, `ShowsOwn`: an answer of one session is applied to
  another, or the cache outlives its user.  `OpenStay` allows for the 401 of a
  failing query, if it answers a request of the very session.

**Exemptions.**  Where the code does not keep a property in every race, the
property says so with a history variable, which is set exactly when the race
happens: `stale` (a location request saved over rows it had not seen), `altered`
(keys whose counter was renamed or removed, so that another body is sent under
them), `freed` (numbers that merchants gave up), `raced`
(a handler was at work on the account), `disturbed` (rotations overlapped or were
cut off), `overlapped` (uploads under one key at once), `upset` (the form was sent
before its draft had come, an answer was lost, a form was left while its request
was under way, two tabs), `sure` and `late` (lists whose rows had been read, by a
fetch that went on, when the verdict was answered, until they are read again) of
`ReviewLists`, `mixed` and
`relabelled` of `AddressForm`, `crossed`, `raced`, `leftover` of `PortalSession`.
They stand for the behaviours of
[section 5](#5-what-the-models-show-of-the-code).  A hazard of `PROJECT.json` whose
outcome falls under an exemption names no property for it, and says so in its note.

**Bounds and why they suffice.**  *Races*: two handlers are the smallest race,
stale data is one load old whatever the number of writers between; three runs at
the oracle let two race and a third meet what they left.  *Keys*: two keys give
equal and different keys.  *Bodies*: two counters of a merchant, a renaming, a
rival for alias and LEI, a LEI twice in one batch, an answer past `BodyCapacity`.
*Losses*: one makes two attempts overlap and leaves the third to repair it; each
further loss uses up an attempt, which is the caller's error by design.
*Merchants and counters*: two merchants share the fate of a bulk request, two
counters give the failure between counters.  *Limits* are small and reached: 3
counters for 50, 1 user for 3, 5 rows for 250 and 5000.  *Lists*: three merchants
over pages of two have a second page; one change by others moves rows.  *Places*:
two countries share the name of a subdivision, as 55 names of the file are
shared; the code table lacks one country by its name, as it lacks 23.
`Attempts`, `MaxTries`, `MaxLosses`, `MaxRequests`, `MaxRows`, `MaxPasswords`, …
are guards of the models.

**Constraints.**  `dfsps` lets one side rest while the other works (`OneSide`:
they share only the secrets shown), and one number is given up, past which one
secret is enough (`OneRenaming`).
`form`, `lists` and `portal` stop after the
first mishap, past which no property says anything, and allow two requests under
way (`OneMishap`, `OneCallLater`, `OneOther`, `StillSure`, `TwoRequests`); in `lists`
one answer of a list is awaited at a time, two lists are fetched at once only
after a verdict, a list that could not be fetched is fetched again before another
is shown, and nothing is looked at once the last verdict has ended (`OneAnswer`,
`OneFetch`, `ErrorsAreShown`, `StillDeciding`); the
second tab of `portal` only logs in and out and changes the password
(`OtherIsIdle`), and a tab is not moved by hand during its call
(`StaysForCall`), and nobody logs in when the bound on sessions is reached
(`LoginsFit`).  `address` lets the form be used once the hub is onboarded and
places are there, and others change the merchant in behaviours without a restart
(`Ordered`): no step of the seeding reads what the form writes.
Larger instances were tried where time allowed: two tabs in `form` pass with one
request at a time; `portal` without its constraints was explored to six million
states without a violation and not exhausted.

**Symmetric sets** (runs, keys, users, handlers) are used only in runs without
liveness.  **Deadlock** is checked in `portal`, where something can always be
done; elsewhere the bounds or the finished work stop the system.

**Fairness.**  `ClientFairness`: the oracle's steps of a started run and the
backend's steps of a call are weakly fair, because both are continuations on an
event loop whose awaited database calls or timers return or throw.  A timeout, a
failure, a restart or the arrival of a request is never obliged to happen.
`RequestsEnd`: each step of a started handler is weakly fair, for the same reason
and because the call of the oracle has a timeout.  A started handler stays
enabled until it moves, so nothing stronger is needed.  In the portal nothing is
obliged to happen; its properties are safety.

## 4. The proofs

Checked by TLAPS for every value of the constants that satisfies the named
assumptions of the modules, which TLC evaluates on every run.  Type correctness
is proved, and run only where it says more than types (the form); each proof
module begins with its inductive invariant and the reason for the parts of it.

**RegistryProofs** (oracle and client).  `RowsInv` adds to `TypeOK` and
`AliasesUnique` that ids are unique and below `nextId`, and that a row some
transaction has read is still there under its id and counter
(`SnapshotCurrent`): a commit updates "the row of the counter", which has to
exist and to be one.  `IInv` relates local state to the tables: a run about to
insert its record has an answer to its own body whose rows are registered, so do
the records, a key has one record.  A record is written long after the commit
that justifies it.  The LEIs are an action property from `RowsInv`: a conflict
within a batch needs a smallest position at which it occurs, which `LeastElement`
provides.  For the composition, the attempts of a call have its key and body
(`SameRequest`), attempts not sent yet are idle (`TriesLeft`), and a result a
caller holds is a recorded one (`ResultRecorded`); it still implements
`KeyedAnswers`.  `UInv`: the rows of a call that nobody contests have the aliases
and LEIs of its body, in the table and in each transaction's view of it, and no
other row has; a conflict needs such a row.

**MerchantApprovalProofs.**  `RegistryInv` holds under all races and faults
(`Spec`): `Backed` adds that what a handler loaded as issued, allowed or
approved, or has still to apply, is registered; `registered` only grows.
`AloneInv` is for `AloneSpec`: requests at work have different merchants, and
what a handler loaded is still what the row says, from which each write maps to
the step of `MerchantLifecycle` that its label names.  `CompleteInv` adds what an
approval at work still has to do: each counter of its merchants is issued or on
its list.

**CheckoutCountersProofs.**  `NumbersInv`: while no location request wrote over
what it had not loaded, the next number is above all numbers ever given and the
primary counter, once there, stays.  `LimitInv` adds that number 1 is the first
ever given, so that a location request that creates a counter beside an added
one numbers it above.  `AliasInv` follows an alias from the request or the
number it comes from into both tables, the answers of the oracle and the handlers: a
conflict with an alias nobody else asks for could only be with a counter of another
number, or with a record of the key.  `KeyInv` rules the latter out: the counter of
a key that nothing altered is there, once, with the alias it was inserted with, and
every request that holds it and every record of the key agree with it.  The record
is written long after the counter, by one of several requests under the key.

**UserSessionsProofs.**  `IInv`: what a handler loaded of an account is a row that
was there, and is marked if its password is a temporary one (`HoldsRow`); else a
stale save could bring such a row back unmarked.  `BoundsInv`: the accounts that
count towards a limit and those about to be inserted are together at most the
limit and one per further handler; stale saves change no creator and no address.

**DfspAccessProofs.**  `ShownInv`: a secret at the oracle belongs to one DFSP.
`RotationInv`: a handler whose rotation is undisturbed is alone with its DFSP and
holds the secret to go back to.  `OracleInv`: every number below a head, and below
the number a request is looking at, is taken or was given up, however many heads and
requests there are; and a merchant's row is neither a head nor was it made up, so that
a renaming takes neither away.

**BulkImportProofs.**  `KeyInv`: an attempt no other of its key overlapped is alone
under its key, and once it has found no import there is none until it writes one.
`OneImport`, that a key has one import, makes `ImportedIsComplete` a matter of one
valid workbook: an imported merchant was created from a row of it (`MerchantFact`).
Its counters are its rows, each once (`CountersFact`, from `NthFact`: the place of a
row among them meets every number), so those at a place are at most the rows counted
there, and two with one alias are two uses of a name that has one.

**RegistryFormProofs.**  Four parts, each resting on those before it.  `TypeInv`
has where each call came from: the form that sent it is the one its tab shows as
long as it is mounted.  `PartsInv`: what a copy or a call names is there.
`CompleteInv`: unless a request was left behind or two tabs had the form open, the
forms before the one shown have brought their parts about, for the merchant in
storage.  `SettledInv`, while nothing else happened either: the copy that decides
between creating and updating is true at the moment it is used.  The bound on the
steps of a tab counts its pending calls, each of which may yet advance it.
The start: `StartInv` has one part per table, all in terms of `Done`, the steps of
a stage that this start has done.  A table that is filled up holds at least the
rows before that step and nothing but rows of its list; a role is given all the
permissions, since they were all found; a stored subdivision belongs to the first
country that lists its name (`FirstFact`); and, from the moment districts are
cleared, each is there as often as the entries read since list it, which no
earlier start can have touched.  Addresses: `AddressInv` carries what belongs
together from those tables into the lists offered, the form, the draft, requests
and locations (a subdivision the tables give to a country stays with it, a district
may be gone from them while its list is still offered, so that part speaks of the
file).  `AgreeInv`: as long as nobody changes the LEI, a request that has loaded the
merchant has its LEI, and one past the comparison an address that agrees with it.

**PortalProofs.**  The session: `RequestsOK`: a refusal is for good, since a closed
session is never opened again, and what a profile says of the password holds as
long as its session is accepted (a 401 for a failing query is told from a refusal).
`DataOK`: a tab holds what belongs to the stored
token, and nothing while none is stored, unless it is left over.  The bounds on
sessions are not used.  The lists: `NewestFact`, that the order a page is cut from
exists, since a merchant's place is the number of those that are not older;
`FreshOK`, that a list that is shown and not being fetched is not out of date;
`TicksOK`, that the ticked rows are the merchants meant as long as the checker is
sure; `FollowOK`, that what was answered is gone from its list, and is in its report, as
far as either can still be shown without a fetch: in what is cached and in what was
read and is not delivered yet, unless that was read before the answer.  An answered merchant counts only if the backend still has
it under that verdict: others may have submitted it again before the answer came.

| theorem | property | under |
|---|---|---|
| `AnswersRegistered`, `RegisteredAliasesStable`, `LeiAlwaysKeptBySerialCommits`, `KeepsItsPromise` | `AnsweredRowsExist`, `AliasesStable`, `LeiKeptBySerialCommits`, `KeepsPromise` | `Spec` of the oracle |
| `AliasesAlwaysUnique`, `AnswersAgree`, `StoredAnswersStay` | lemmas of interest: one row per alias, one answer per key, for ever | same |
| `SuccessAlwaysRegistered`, `RetriesAlwaysAgree`, `NeverConflictsAlways`, `ClientsImplementOracle` | `SuccessIsRegistered`, `RetriesAgree`, `NeverConflictsWithItself`; `KeepsPromise` of the composition | `ClientSpec` |
| `RegisteredFirst` | `RegistryFirst` | `Spec`: all races and faults |
| `LifecycleKept`, `AnotherDecides`, `RejectionHolds` | `KeepsLifecycle`, `DecidedByAnother`, `RejectedIsFinal` | `AloneSpec` |
| `ApprovedAlwaysComplete` | `ApprovedIsComplete` | `AloneSpec`, `Faults = {}` |
| `NumbersAlwaysPermanent`, `IssuedAlwaysStay`, `AddsAlwaysKeepLimit` | `NumbersArePermanent`, `IssuedStay`, `AddsKeepLimit` | `Spec` |
| `OnlyContestedAlwaysWithdrawn` | `OnlyContestedAreWithdrawn` | `Spec`, `GeneratedDiffer` |
| `TemporaryAlwaysMarked`, `SessionsAlwaysFollow`, `CreationAlwaysBounded` | `TemporaryIsMarked`, `SessionsFollowPassword`, `CreationBounds` | `Spec` |
| `ShownAlwaysOpens`, `StoredSecretAlwaysOpens`, `AccessHandsOutNext` | `ShownOpens`, `StoredSecretOpens`, `HandsOutNext` | `Spec` |
| `BulkKeepsPromise`, `BulkRefusalsTrue`, `ImportedAlwaysComplete` | `KeepsPromise`, `RefusalIsTrue`, `ImportedIsComplete` | `Spec` |
| `SubmittedAlwaysComplete`, `AlwaysStaysWithItsMerchant`, `NothingEverDoubled` | `SubmittedIsComplete`, `StaysWithItsMerchant`, `NothingIsDoubled` | `Spec` |
| `FlagAlwaysTrue`, `TabsAlwaysShowOwn`, `OpenSessionsStay` | `FlagIsTrue`, `ShowsOwn`, `OpenStay` | `Spec` |
| `AlwaysDecidesWhatWasTicked`, `ListsAlwaysFollowVerdicts` | `DecidesWhatWasTicked`, `ListsFollowVerdicts` | `ListsSpec` |
| `SeededAlwaysComplete`, `StoredAlwaysCoherent` | `SeededIsComplete`, `StoredIsCoherent` | `AddressSpec` |
| `LocationsAlwaysAgree` | `LocationsAgree` | `AddressSpec`, `TablesAgree` |
| `TypeCorrect`, `ClientTypeCorrect`, `ApprovalTypeCorrect`, `CountersTypeCorrect`, `SessionsTypeCorrect`, `AccessTypeCorrect`, `BulkTypeCorrect`, `TypesAlwaysHold`, `ListsTypeCorrect` | the type invariants | |

Three theorems have a hypothesis of their own.  `Faults = {}` is the case the
property is about, and that of its run: a query that fails between two counters,
or a stop there, leaves an approval in part.  `GeneratedDiffer`, that different
numbers give different aliases, is what the alias builder provides for all stems
but those it shortens (`merchant-alias.ts:34`): where two numbers of one merchant
share an alias, a counter is withdrawn for a clash with a counter of the same
merchant.  `TablesAgree` is about the tables of names: two names are taken for one
country, or a name for a region, only where they are names of it.  The run evaluates
it on its tables.  It is not the conclusion in other words, for it says nothing of
requests, but it can fail: a subdivision that iso-3166-2 does not list is compared
by how it reads (`SubdivisionMappingService.ts:139`).

**Only model-checked**: `LossIsMasked` and `WaitingEnds`: liveness under fairness
and `ENABLED` are beyond the prover.  All safety properties of the runs are proved.
No module declares a `RECURSIVE` operator.

## 5. What the models show of the code

No property was found violated that the code means to keep in a single request;
these are what the exemptions of section 3 stand for: behaviours of the code, each
a step sequence of a model, that its guides do not speak of or speak of otherwise.

*Oracle and approval.*
- The bulk guide says a LEI "may be registered with only one DFSP".  Two
  registrations that start together both find it free (`registerMerchant.ts:169-188`)
  and both commit; there is no index on it.
- An answer too long for the column of the records (`IdempotencyRecordEntity.ts:20`)
  is not recorded: its rows are registered and its key is never answered.
- Approval answers that a merchant "cannot be approved by the same user who
  submitted it" (`putMerchantApproveBulk.ts:132`).  It compares with `created_by`,
  which `putMerchantContactPerson.ts:192-195` sets to whoever edits the contact
  person, in any status: after such an edit by a colleague the submitter may
  approve.
- No write has a condition on the status: a request that loaded a merchant before
  it was rejected takes the rejection back (`putMerchantApproveBulk.ts:110`, `:200`;
  `putMerchantDraft.ts:209`, `:335`), and the primary counter that a draft's request
  saves as it was loaded loses what an approval in between issued
  (`merchantAlias.ts:89`).
- The guide says that a failing synchronisation returns the merchant to Review
  (`docs/onboarding-guide.md:240-242`).  After its first counter it is already
  *Allowed*, and the `catch` resets the status only
  (`putMerchantApproveBulk.ts:260-268`).
- A query that throws between the write of the waiting status and the inner `try`
  (`putMerchantApproveBulk.ts:203`), or a restart there, leaves a merchant waiting
  with no request that accepts it; the guide lists the symptom under
  troubleshooting.  So `WaitingEnds` is stated without such faults.

*Counters.*
- A counter that was added under a key and is still pending is renamed, or its alias
  blanked, by a location request with current rows (only issued counters are
  protected, `checkoutCounters.ts:208`).  The replay of the key then sends another
  body under it, which the oracle refuses (`idempotency.ts:53-54`); the client takes
  each 409 for a taken alias (`registryOracleClient.ts:134-139`), and the counter is
  deleted though nobody contests it (`postApprovedCheckoutCounter.ts:167-168`).  The
  same happens to an addition repeated under its key after its counter was removed,
  and for ever, since the record stays.  The retry of a counter that was renamed after
  an answer that it lost is refused for ever too, its key being fixed (`:221`).
- Two additions of one alias under different keys may both withdraw, while a
  replay of one has registered it (`approvedCheckoutCounters.ts:179`).
- A location request that loaded the merchant before an approval or an addition
  saves over it: it blanks a pending alias, removes an issued counter, detaches
  counters, takes the next number and the status back
  (`postMerchantLocation.ts:293`).
- A stem of 32 characters that ends in `-02` is the alias of its own second counter
  (`merchant-alias.ts:34`).

*Accounts, DFSPs, imports.*
- A login in flight saves a session after a password reset removed the others
  (`postUserLogin.ts:146-160`); sessions are removed one by one
  (`verifyUser.ts:92-101`); a row saved as it was loaded brings a replaced password
  back (`putUserStatus.ts:81`); e-mail addresses have no unique index
  (`addUserByAdmin.ts:124`).
- Overlapping rotations of one DFSP may restore a secret the oracle never got
  (`createClientAccessKey.ts:98-112`).  A request cut off between
  `participantRoutes.ts:414` and `:439` leaves no head; the next starts from one.
- A registered merchant that is registered again under another alias frees the one it
  had (`registerMerchant.ts:189-193`, `:219-228`); a number below the head that is
  freed so is not made up again, until the head is lost.
- Of two uploads under one key, the one that looked the key up before the other
  committed, and validates after, is refused for the other's merchants
  (`bulkMerchantOnboarding.ts:363`).

*Start-up and addresses.*
- `initialize()` on a connected DataSource throws: after a failure past the
  connection the retry never resumes the seeding, a restart does
  (`serviceInitializersSetup.ts:24-35`).
- Subdivisions are looked up by name alone (`initDatabase.ts:358`): where two
  countries share a name, districts are attached to the first, and the form gets
  none for the other.
- The form keeps the subdivision of an earlier answer when a later one has another
  country and no subdivision (`LocationInfoForm.tsx:131-149`).  A LEI that is
  changed after a location was saved is never compared with it again
  (`putMerchantDraft.ts`).

*Portal.*
- A form sent before its draft has come, or again after a lost answer, creates a
  second merchant or part; pressing Back while a request is under way lets its
  answer skip a form.  Two tabs share the stored id (`useMerchantId.ts:7`): what is
  typed in one may reach the merchant of the other.  The backend does not ask for completeness
  (`putMerchantReadyToReview.ts:110-123`).
- Ticks are row numbers: ticking, entering a filter and pressing Approve decides on
  other merchants, and so does ticking while an own verdict is under way
  (`PendingMerchantRecords.tsx:127-133`).  After an approval a key that no list has
  is invalidated (`:275`).
- A list opened, or a filter entered, for the first time while a verdict is under way
  may be read before the verdict and delivered after its answer, as fresh: the
  merchant is still shown as pending, or is missing from its report
  (`api/hooks/merchants.ts:326-327`, `PendingMerchantRecords.tsx:274`).  The number of
  pages and the rows of a list come from two queries (`getMerchants.ts:235`, `:238`)
  and need not fit.
- A query that fails while a request is authenticated is answered with 401
  (`authenticate.ts:70-80`), and the portal drops the token, which the backend still
  accepts (`axiosInstance.ts:34-42`).
- A late profile answer writes the mark of a temporary password of another session
  (`routes/index.tsx:50-58`); a late answer to a logout removes whatever token is
  stored (`api/hooks/auth.ts:118-121`).  A 401 leaves the query cache in place: the
  next user of the tab may see data of the previous one while it is fresh.

## 6. What is not modelled

- *Roles*: creating a role and replacing its permissions are single saves; no
  seeded role has the permissions to reach them.  Permissions decide whether a
  request is accepted; the models start from accepted requests, except
  `UserSessions`, where who may create whom matters.
- *Alias builder*: its shortening of stems to 32 characters (section 5); models
  take the alias of a counter as a function of its number.
- *LEI checks*: the fuzzy comparison of company names, which only refuses drafts.
- *Bulk import*: columns, cell formats and the template; a workbook is a set of
  rows with references.
- *Queries, exports, audit logs*: they change nothing; writing an audit record is
  modelled where the caller depends on it.
- *QR images, object storage, e-mail*: only that they may fail.
- *Portal*: the filter of the menu, the pages to set or ask for a new password, the
  lists "all" and "draft", and pages with one button and one request.
- *`PUT` of an owner*, which does not save the merchant row; validation of bodies.
- Tables of currencies, categories and classifications, deployment.

## 7. What comes next

1. `MerchantApproval` over `RegistryClient` in the place of the set `registered`,
   by a refinement of its step `Register`; with `CheckoutCounters` it would show
   approvals and later counters on one registry.
2. The alias builder as a function, over bounded stems, against "different counters
   of a merchant have different aliases of at most 32 characters" up to the known
   clash.
3. Proofs: the state predicates behind `WaitingEnds` and `LossIsMasked`, that a
   started request always has a step whose guards hold, written without `ENABLED`.
