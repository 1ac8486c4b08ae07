# A specification of Backstop

TLA+ modules that model Backstop (this repository), TLC configurations that
check them on small instances, and TLAPS proofs of what matters most for every
instance. Paths such as `backend/onchain.ts` are relative to the repository.

Backstop answers one question for protocols that want to take a tokenised
equity as collateral: *is this mint safe to use right now?* An attestor states
how much backing a mint has and for how long that may be relied on; an on-chain
program compares it with the token supply; an API adds other evidence (the
PreStocks catalogue, the mainnet mint account, a Pyth price) and makes one
verdict of it; a consumer gates on the verdict.

```
 attestor ──submit_snapshot──▶ ┌───────────────────┐ ◀──evaluate_snapshot── protocols
 admin ───initialize_asset───▶ │ on-chain program  │
       ───update_attestor────▶ └─────────┬─────────┘
                                 3 RPC reads (registry, snapshot, supply)
                               ┌─────────▼─────────┐
   scripts/reconcile.ts ◀──────│  readAssetHealth  │
                               └─────────┬─────────┘
  PreStocks API ─fetchCatalog─▶┌─────────▼─────────┐
  mainnet RPC ────────────────▶│    getEvidence    │──▶ verdict ──▶ mock consumer
  Pyth Hermes ────────────────▶│  evaluateEvidence │           └──▶ dashboard
                               └───────────────────┘
```

An HTTP server carries the last arrow, to a page in the reader's browser.

## 1. Inventory

| Component | Source | State | Operations | Module |
|---|---|---|---|---|
| On-chain program | `programs/backstop/src/lib.rs` | a registry account per mint, a snapshot account per (mint, id); reads the SPL mint's supply and the cluster clock | `initialize_asset`, `submit_snapshot`, `update_attestor`, `evaluate_snapshot` | `BackstopProgram` |
| Asset health reader | `backend/onchain.ts` | none beyond one request's locals | `readAssetHealth`, `withRpcRetry` | `AssetHealth`, `HealthVerdict`, `AssetHealthProofs` |
| PreStocks integration | `backend/integrations/prestocks.ts` | `catalogCache`, `inFlightFetch`, shared by all requests | `fetchCatalog`, `getPreStocksEvidence` | `PreStocksCatalog`, `PreStocksCatalogProofs`; its answers in `EvidenceVerdict` |
| Pyth integration | `backend/integrations/pyth.ts` | none | `getPythEvidence`, freshness and confidence checks | `EvidenceVerdict`, a step of `Evidence` |
| Evidence verdict | `backend/server.ts` | one request's evidence | `getEvidence`, the four display states, `evaluateEvidence` | `EvidenceVerdict`, `HealthVerdict`, `Evidence`, `EvidenceProofs` |
| Consumer gate | `mock-consumer/index.ts` | one pending request | `checkMint`, `decide` | `Evidence` |
| HTTP routes | `backend/server.ts` | whether the process runs; open requests | the routes, static files, error answers | `ApiServer` |
| Dashboard | `frontend/app.js` | what the page's elements hold, requests in flight | `verifyAsset`, the render functions, the listeners, `checkHealth` | `Dashboard`, `DashboardProofs` |
| Operator scripts | `scripts/refresh-snapshot.ts`, `rotate-attestor.ts`, `day2-real-mint.ts`, `lib/backstop-client.ts` | one process's locals; transactions in flight | `sendWithRetry`, `withRetry`, `confirm`, set up, refresh, rotate | `OperatorScripts`, `OperatorScriptsProofs` |
| Read-only scripts, legacy scripts | `scripts/*` | none | | not modelled |

**How they interact.** The program is the only durable state. Everything
off-chain reads it, over RPC, account by account, while transactions keep
landing; only the operator scripts write it. Inside the API, requests are
independent of each other except for the PreStocks catalogue cache and for the
process they share, which ends for all of them at once. In the page, calls of
`verifyAsset` share every element they write.

**What is hard, and what must hold.**

* *Program.* Its state is a pointer structure: a registry names its latest
  snapshot in three fields, addresses are derived from mints and ids, and
  `evaluate_snapshot` takes any three accounts. Supply and time move between
  submission and evaluation. It is correct if `Ok` means: the newest attestation
  of this very mint, not expired, covering the supply then and now; if nothing
  spent is ever accepted again; if a rotation disturbs no verdict; and if a new
  snapshot takes effect at once.
* *Asset health reader.* Three reads that are not atomic, nodes that lag, reads
  that fail and are retried, two clocks. It is correct if "safe" is never
  further from what the program would say than those allow.
* *PreStocks catalogue.* Concurrent callers, one shared promise, failure and
  timeout paths. It is correct if callers share one fetch, never hear an old
  failure or an over-age catalogue, and always hear something.
* *Evidence and consumer.* Four sources that fail independently, asked one after
  the other, and a caller that gives up. It is correct if failures never add up
  to `VERIFIED`, outages never to `DENY`, and an allowance rests on evidence of
  bounded age.
* *Operator scripts.* Lost answers, late transactions, retries of what was
  already done, a supply that moves between read and landing, runs that overlap.
  They are correct if a refresh leaves at most one snapshot behind, a reported
  success happened, a reported failure has a cause, and runs started one after
  the other take effect in that order.
* *HTTP routes and dashboard.* Overlapping requests whose answers arrive in any
  order, are lost, or die with the server; elements that keep what an earlier
  answer wrote. They are correct if what the page shows is one answer, under
  the mint that was asked for, and if the reader always ends up with an answer
  or an error and never with a spinner that stays.

`PROJECT.json` lists the hazards line by line, with the properties aimed at each.

## 2. Modules and their correspondence to the code

### BackstopProgram

A transaction is atomic, so an instruction is one action, whose guard is the
account constraints followed by the handler's `require!`s. An instruction that
fails changes no account and is a disabled action; `evaluate_snapshot` is the
exception, as its result *is* the product: the action is always enabled and
records the result in `outcome`. `EvaluateResult` lists the checks in the order
Anchor runs them.

| Code | Model |
|---|---|
| `AssetRegistry` account at `["registry", mint]` | `registries[mint]` |
| `Snapshot` account at `["snapshot", registry, id]` | `snapshots[<<mint, id>>]` |
| account absent / `Pubkey::default()` | `NoAccount` / `DefaultKey` |
| `Mint.supply`, `Clock` | `supply`, `now` |
| `initialize_asset`, `submit_snapshot`, `update_attestor`, `evaluate_snapshot` | `InitializeAsset`, `SubmitSnapshot`, `UpdateAttestor`, `EvaluateSnapshot` |
| `init` constraint on the snapshot | `SnapshotInit` |
| `validate_expiry`, `calculate_coverage_bps`, `check_snapshot_safety`, `assert_snapshot_binding` | operators of the same names |

Program-derived addresses are modelled by what they are derived from; that they
do not collide is assumed. `EvaluateSnapshot` may be given any snapshot account
of any mint. A registry offered under another mint is refused by its own seeds
and has no case of its own. `ChangeSupply` is the SPL Token program,
`AdvanceClock` the cluster. Integers are bounded by `MaxSupply` (`u64::MAX`)
and `MaxTime` (`i64::MAX`), where `saturating_add` saturates; the
one product is computed in `u128`, where it cannot overflow. Events and log
messages are left out.

### BackstopGate and BackstopRefinement

`BackstopGate` is the abstract specification: what a protocol that gates on the
program may rely on, with no accounts, keys, ids or rotations in it. There is
one current attestation per mint; asking about it says safe exactly while it is
live and covers the supply (`Ask`), and asking about anything else never does
(`Refuse`), even while the current one is safe. `BackstopRefinement` gives the
refinement mapping and states `ImplementsGate`: a mint's attestation is the
snapshot its registry points to, and an answer of the gate is the mint, whether
the account offered is that snapshot (`OffersCurrent`), and whether the result
was `Ok`. `Ok` is mapped to safe whichever account was offered, so that an
`evaluate_snapshot` that accepted an older snapshot or another mint's would take
a step the gate does not have.

### AssetHealth

`EXTENDS BackstopProgram`: a request's three reads (`ReadRegistry`,
`ReadSnapshot`, `ReadSupply`) are separate actions, any program step may land in
between (`ChainStep`), each read may fail (`RpcFails`) and be retried by
`withRpcRetry`, and `Reply` reads the host's clock and computes
`status` and `safe`. With `LaggingNodes` a read may be answered from `replica`,
an older state of the chain; `seen.lagged` records that one was, and the
properties that compare the answer with the chain speak of requests without it.
`ClockSkew` bounds the distance of the two clocks.

Requests share no state, so one is modelled at a time, repeatedly. An answer is
judged when it is given: the chain waits while `phase = "done"`, and
`Deliver` ends that phase. `seen` and some fields of `answer` are history
variables, read by properties only. The byte offsets of the account decoders are
abstracted to the records they decode.

### HealthVerdict

Operators only: `HealthStatus` and `HealthSafe`, the end of `readAssetHealth`,
from the snapshot, the supply and the host's clock as they were read.
`AssetHealth` and `Evidence` both extend it, so that the verdict studied over the
whole program and the one that goes into the evidence are the same definition.

### PreStocksCatalog

The code between two awaits is one action. Promise objects have identities
(`Fetches`), so that nothing but the code keeps two fetches from running at
once. A settled promise wakes its waiters one by one, in any order and with new
callers in between: more orders than a JavaScript engine takes. `AfterFinally`
is the `finally` that clears `inFlightFetch`. Ages count ticks; `behind` is
history, the time since PreStocks replaced the copy. The response is made at
one moment (`UpstreamReplies`) and arrives at a later one.

### EvidenceVerdict

Operators only: what each source may answer, its display state, and
`Verdict`, the decision of `evaluateEvidence`. The texts of reasons and
details are left out; every path to a verdict adds a reason, so
`reasons.length > 0` always holds. `EvidenceDisplay` is the record the API
returns, `Displays` the set of its values.

### Evidence

Every await of `getEvidence` is a point where the chain may move and seconds may
pass. The first of its sources is `readAssetHealth` with its three reads, so a
request goes through these actions:

| Code | Model |
|---|---|
| `checkMint` up to its `fetch` | `Ask` |
| `getAccountInfo(registryAddress)`, `getAccountInfo(snapshotAddress)`, `getTokenSupply(mint)` | `ReadRegistry`, `ReadSnapshot`, `ReadSupply` |
| `Date.now()` and the verdict on the asset | `ReadClock`, with `HealthVerdict` |
| the `catch` of `getEvidence` around them | `ReadFails`; `withRpcRetry` only delays |
| the other three sources | `ReadPrestocks`, `ReadMainnet`, `ReadPyth` |
| `evaluateEvidence` | `Reply` |
| the response, a bad one or none, the abort signal | `Deliver`, `RequestFails`, `TimesOut` |
| the loop of `main` | `NextMint` |

The chain is kept as far as the request can see it: `registry` is what the
mint's registry points to (`Unregistered`, `NoSnapshot`, or the figures of a
snapshot), `supply` its supply. `InitializeAsset`, `SubmitSnapshot` and
`ChangeSupply` move it between any two reads, with the status and the deadline a
submission really has; after the reads nobody looks, and it rests. Time is in
seconds since the consumer asked, so that a deadline is a number of seconds from
then, already past if negative. With `LaggingNodes` each read may be answered by
a node that is behind: a registry as it was at any time (`RegistryViews`), a
snapshot that is not there yet, another supply. The host's clock may be
`ClockSkew` ahead or behind.

`seen` is history: whether the chain ever vouched for the mint, or its attestation
fell short, since the consumer asked; whether a read came from a node that was
behind; whether a newer snapshot was current when the last read was made;
whether the snapshot had run out by no more than the clocks may differ, the second
of expiry included; and when the price was published. `withTimeout` and the
Hermes client are abstracted to an answer or a failure; a confidence and a price
that fall either side of the limits stand for all values.

A server that works on a request its consumer has left has nobody to answer to,
so `NextMint` drops it.

### ApiServer

The server as its clients see it. An exchange is `"open"` until the handler
answers (`Respond`) with one of the `Statuses` of its route, or is `"lost"`: the
connection breaks (`BreakOff`), or the process dies (`FileFails`), because the
handler returns the promise of `serveFrontendFile` without awaiting it and
nothing catches its rejection. What an evidence request may be answered with is
`Bodies[mint]`: every combination of what the four sources may say, each failing
on its own, with the verdict and the displays `EvidenceVerdict` computes.

### Dashboard

`EXTENDS ApiServer`: the page's elements are `panels`, `dashboard`, `loading`,
`errorBox`, `mintInput`, `rawEvidence`, and a call of `verifyAsset` is an
exchange with its `cleanMint` in `subject`.

| Code | Model |
|---|---|
| `verifyAsset` up to its `fetch` | `VerifyAsset`, `StartFetch` |
| the rest of `try`, the `catch`, the `finally` | `ShowAnswer`, `ShowFailure`, `AfterAnswer`: one step, `Arrives`, as no await separates them from the body's arrival |
| the listeners | `ClickVerify`, `PressEnter`, `QuickButton`, `ToggleRaw`; `Type` is the reader |
| `renderBackstop`, ... `renderVerdict`, `renderSummary` | operators of those names, from the old panel and the body to the new panel |
| `checkHealth` and its `then` | `CheckHealth` |
| the CORS header | `Readable` |

A panel is its status and the mint whose figures it holds, `Dash` if none: that
is enough to tell whether it was written from this answer or an earlier one.
`PressEnter` acts while the button is disabled; otherwise it is `ClickVerify`.
Which of its possible bodies an answer carries is decided when it arrives, as
nobody looks at it before. `typed` and `asked` are history variables.

### OperatorScripts

`EXTENDS BackstopProgram`: several runs of `refresh-snapshot.ts`,
`rotate-attestor.ts` and, for a mint that is not registered,
`day2-real-mint.ts`, each with its locals in `runs[p]`, and the transactions
they sent in `network`.

| Code | Model |
|---|---|
| the wallet check of a refresh / of the setup / the authority check of a rotation | `RefuseWallet` / `RefuseSetup` / `RefuseRotation` |
| `getMint`, snapshot id, expiry, instruction | `StartRefresh` |
| the setup up to `mintTo` | `StartSetup` |
| `getAccountInfo(registry)`, instruction | `StartRotation`; the first calls fail: `StartFails` |
| one attempt of `sendWithRetry` or of `mintTo` | `Send`; `PreflightRejects`; no blockhash or node: `SendFails`; forwarded, and the answer lost: `SendUnanswered` |
| the `catch` of `sendWithRetry` | `AfterFailure` |
| `withRetry` around `mintTo`, which confirms by itself | `MintAgain` |
| the supply check of the setup | `CheckSupply` |
| `confirm` | `Confirmed`, `Rejected`, `TimesOut`; a status cannot be had: `CallFails` |
| the read-back of a rotation | `ReadBack`; from a node that lags: `ReadBackLags` |
| the process ends | `RunEnded` |

The setup's `confirm` differs: it catches the error it throws itself and polls
on, so a transaction that failed is reported by the timeout; `Rejected` and
`CallFails` are not for it. The setup mints a token nobody else knows yet, so
other runs and other supply changes begin when it is over (`Operable`). Before
its first snapshot nothing looks at the clock, which is counted from there
(`Unclocked`). What precedes `mintTo` (`createMint`, the token account) may be
repeated without harm and is part of `StartSetup`.

A transaction in `network` lands (`LandsOk`, `LandsErr`: executed by
`BackstopProgram`'s own actions, all or nothing), or its blockhash expires and
it is gone. Each attempt makes a new transaction, so several of one run may be
under way at once. Preflight is `Succeeds` at the time of sending, execution
`Succeeds` at the time of landing. An evaluation changes no account; its
transaction only tells its sender how it went, and is dropped when nobody
waits for it. A tick is a minute or more, so a status is seen, and a deadline
fires, before the next. `before`, `accepted` and `trouble` are history variables,
read by properties only.

## 3. Runs

| Run | Configuration | What it shows |
|---|---|---|
| `program` | `BackstopRefinement_one_mint` | the account invariants, `GateSound`, the action properties (snapshots are permanent and stay spent, verdicts change only for a cause, a submission takes effect at once), and that the program implements the gate under rotation and replacement: an older snapshot of the mint is never called safe |
| `gate_two_mints` | `BackstopRefinement_two_mints` | the same refinement when the accounts of two mints are offered to each other: `Ok` for another mint's snapshot, or for a mint without one, would be no step of the gate; every snapshot is refused for good in the end (`VerdictsExpire`) |
| `health` | `AssetHealth_requests` | what "safe" is worth under interleaved transactions, retries, lagging nodes and skewed clocks; the quoted attestation is always one the chain holds; every request is answered |
| `health_expiry` | `AssetHealth_expiry` | *violation*: finding 1 |
| `catalog` | `PreStocksCatalog_callers` | one fetch at a time, recent answers, no replayed failures, every caller answered |
| `consumer` | `Evidence_consumer` | what an allowance and a denial rest on when transactions land between the reads, nodes lag, clocks differ and sources fail; the pipeline fails closed and the consumer always decides |
| `mismatch` | `Evidence_mismatch` | *violation*: finding 2 |
| `applicability` | `Evidence_applicability` | *violation*: finding 3 |
| `scripts` | `OperatorScripts_two_runs` | one snapshot per refresh, true success reports, no failure without a cause, sequential runs stay in order, every run ends |
| `wallet` | `OperatorScripts_wallet` | *violation*: finding 4 |
| `page` | `Dashboard_page` | the dashboard is made of one answer, of the asset the input names, and every question has an outcome, whatever order answers come in and whenever the server dies |
| `summary` | `Dashboard_summary` | *violation*: finding 5 |

Every action of every module fires in some passing run, and for every
property of a passing run `PROJECT.json` names a faulty variant of a definition,
kept beside it in its module, that makes TLC find the property violated.

**Bounds.** All are constants in the `.cfg` files.

* *Program.* Two snapshot ids, one of them all zero bytes (what a new registry
  holds), so that a snapshot can be replaced and the first can be offered
  again; two keys, so that an attestor can be rotated in and out; supply and
  backing up to 2 (none, partial, exact and over-full coverage, zero supply); a
  window of 2 and a clock to 3, so that snapshots expire and the saturating
  addition saturates. The two-mint run needs one id: what it adds is crossing
  accounts. The theorems remove these bounds.
* *Health.* A snapshot can be replaced while a request is served, one supply
  unit decides coverage, skew of one tick. Two attempts of the code's three: a
  read that succeeds at once, one that succeeds after a pause, and one that
  gives up (one attempt in `health_expiry`, where failures play no part).
* *Catalogue.* Three callers: one starts, one joins, one arrives in the moment
  between settling and resumption. With three promises there is always a free
  one, because a promise in use has a caller waiting for it. TTL 2 and timeout 1
  make the larger bound of `AnswersAreRecent` attainable: it fails with one less.
* *Evidence.* One mint of each kind: with a feed, catalogued, unknown. The
  consumer waits two seconds, a price may be one old, the clocks may differ by
  one, prices are 0 to 2 against a confidence of 0 or 1: every outcome of every
  check occurs. Supply and backing of 0 or 1 decide coverage. Deadlines reach from
  two seconds before the question to past the end of the wait on any clock. TLC
  finds `AllowHasBasis` violated without each of its three exceptions
  (`lagged`, `overtaken`, `expiring`; the last also with clocks that agree,
  which is finding 1), and `DenialIsGrounded` without each of its two: all occur.
  `mismatch` and `applicability`, whose questions are not of time, wait one
  second, with clocks that agree and nodes that are up to date.
* *Page.* Two requests under way at a time, any number one after the other: two
  are enough for answers to change places. A devnet mint with a feed, a
  catalogued one, and texts that are no mint (blank, garbage, `..`, which a URL
  swallows). A mainnet account agrees with the table or differs in one field,
  since the page shows no more than the verdict of it. The page uses two of the
  routes; the others of `GetStatuses` complete the table and no run visits them.
* *Scripts.* Two runs, each a refresh or a rotation, overlapping or not, or a
  setup followed by one of them; two
  attempts for each send, the least at which one transaction can be under way
  twice. A tick is the time `confirm` waits, so a transaction lands in the tick
  it was sent in or not at all, and a snapshot is good for one tick and may
  expire before its evaluation. `ScriptAssumption` demands that a blockhash
  expires before `confirm` gives up: 150 slots, about a minute, against ninety
  seconds. `RunsStayInOrder` depends on it for a run that timed out. The proof
  needs no such small numbers; the invariant it rests on was checked for
  lifetimes and deadlines of one and two ticks as well.

**Deadlock** is checked in every run. In all of them something can always be
asked, or time passes.

**Fairness**, and only where a liveness property needs it:

* `BackstopProgram!FairSpec`: weak fairness of `AdvanceClock`. The cluster
  produces slots. No instruction is assumed to be sent. `MaxTime` ends
  the clock and no deadline is later, so that `VerdictsExpire` would hold without
  the ceiling on the validity window: it is about the comparison in
  `check_snapshot_safety`, and `GateSound` and `Inv` are about the ceiling.
* `FairHealthSpec`: weak fairness of serving a request. A call
  settles one way or the other, and the event loop goes on; it may fail every
  time, in which case the attempts run out. Nothing is assumed of the chain.
* `PreStocksCatalog!FairSpec`: ready continuations and due timers run, callers
  with an answer use it, time passes. PreStocks itself may never answer.
  `Tick` waits for what is due: microtasks and expired timers go first.
* `Evidence!FairSpec`: only that seconds pass and that the consumer's timer
  fires. The server may hang for ever.
* `FairScriptSpec`: a script's calls settle, with any result, its loop
  goes on (`Proceeds`, for each run), and time passes. No transaction is assumed
  to land.
* `Dashboard!FairSpec`: the server's handlers end, as their retries are
  counted and their fetches time out, and the browser runs what has settled. The
  host need not restart the server: a process that is down refuses connections,
  which settles them.

## 4. Findings

1. **The second of expiry** (`health_expiry`). `backend/onchain.ts:277` counts a
   snapshot as expired when `now > expires_at`, the program
   (`lib.rs:239`) when `now >= expires_at`. In that second the API says
   `VERIFIED` and safe, the program `SnapshotStale`, though
   `backend/onchain.ts:207-212` promises one definition of "safe".
   `AgreesWhenQuiet` shows it is the only difference between the two when
   nothing moves.
2. **An identity mismatch can be ignored** (`mismatch`). `evaluateEvidence`
   compares mainnet decimals, symbol and name with the local table only when the
   catalogue was observed as well (`backend/server.ts:244`). While the catalogue
   is down a mint that differs gets `WARNING`, with its mainnet source shown
   as passed; `docs/PRESTOCKS_INTEGRATION.md:33` says a mismatch is not ignored.
3. **A failed read reported as "does not apply"** (`applicability`). When
   `readAssetHealth` fails there is no asset id, hence no symbol, and the Pyth
   check of an asset with a feed becomes `NOT_APPLICABLE`, which
   `backend/server.ts:54-65` reserves for checks that structurally do not
   apply. The verdict stays on the safe side (`OutagesNeverVerify`).
4. **The attestor's wallet is refused** (`wallet`). `refresh-snapshot.ts:65`
   compares the wallet with a copy of `BACKSTOP_ADMIN` and does not read the
   registry. After a rotation to another key, which the comment at lines 24-28
   recommends, that key is told it "is not the registered Backstop attestor",
   and the admin, who is admitted, cannot submit.
5. **The summary always says UNKNOWN** (`summary`). `renderSummary`
   (`frontend/app.js:200`) shows each row's `status`, which the server's rows do
   not have: theirs are `display` and `detail` (`backend/server.ts:69-72`).
   `docs/DEMO.md:59-63` tells the reader to look for `PASS` and
   `NOT_APPLICABLE` there.

Met while modelling, and no findings, as nothing checkable in the repository
says otherwise:

* A rotation can be executed twice, so one whose first answer was lost may land
  again after a later rotation and undo it. `RunsStayInOrder` therefore excepts
  rotations that were sent more than once.
* `day2-real-mint.ts` retries `mintTo` when a confirmation does not come. If the
  first transaction lands late, after the supply was checked, the supply is
  twice the attested backing, even after "Safe: YES".
  `evaluate_snapshot` then refuses the asset.
* Of two overlapping requests the page shows the one answered last, under its
  own mint (`InputNamesShownAsset`), not the one asked last. The error box of a
  request that failed may stay beside a later answer.
* A page served by a local backend, as in `docs/DEMO.md:14-21`, asks
  `backstop-ysx4.onrender.com` (`frontend/app.js:490` and 575), which allows
  only the origin `backstop-blue.vercel.app` (`backend/server.ts:633`): it never
  shows an answer. `docs/DEMO.md:21` has the quick-select row load from
  `GET /assets`; the page has two fixed buttons and never asks for the list.
* The mainnet panel's symbol is read from `parsed.expectedSymbol`
  (`frontend/app.js:387`), and the server puts it one level higher
  (`backend/server.ts:523`): the page always shows a dash.
* The 400 of `/assets/:mint/evidence` cannot be reached: `getEvidence` catches
  what its sources throw, and a text that is no mint is answered 200 and
  `UNKNOWN`.

## 5. Proofs

Seven modules hold the theorems, for any sets of keys, mints, ids, callers and
runs, any bounds and time limits, and behaviours of any length:

| Module | Theorem | States |
|---|---|---|
| `BackstopProgramProofs` | `TypeCorrect` | `[]TypeOK` |
| | `InvHolds` | `[]Inv` |
| | `CoverageAgreement` | coverage is 10000 exactly when the status is Verified |
| | `GateIsSound` | what `Ok` means |
| | `PermanentAccounts`, `SpentStaysSpent`, `VerdictsNeedCause`, `SubmissionsTakeEffect` | the four action properties |
| `BackstopRefinementProofs` | `ProgramImplementsGate` | `Spec => ImplementsGate` |
| `AssetHealthProofs` | `HealthInvHolds`, `HealthTypeCorrect` | `[]HealthInv`, `[]HealthTypeOK` |
| | `StatusAgreesWithSafe`, `SafeIsGrounded`, `QuietVerdictAgrees` | what an answer's status and "safe" are worth |
| | `KnownStaysKnown`, `GenuineAnswers` | what it reports exists on the chain |
| `PreStocksCatalogProofs` | `CatalogInvHolds`, `CatalogTypeCorrect` | `[]CatalogInv`, `[]CatalogTypeOK` |
| | `RecentAnswers`, `FailuresStayFresh` | the age of what callers are told |
| | `OneCallUpstream` | the action property `UpstreamIsSpared` |
| `EvidenceProofs` | `EvidenceInvHolds`, `EvidenceTypeCorrect` | `[]EvidenceInv`, `[]EvidenceTypeOK` |
| | `AllowanceHasBasis` | what an allowance of collateral rests on, and its three exceptions |
| | `PrestocksAreCapped` | a PreStocks asset is never VERIFIED |
| | `DenialsAreGrounded` | what a DENY is about, and its two exceptions |
| | `OutagesVerifyNothing` | losing sources never makes a verdict VERIFIED |
| `OperatorScriptsProofs` | `ScriptInvHolds`, `ScriptTypeCorrect` | `[]ScriptInv`, `[]ScriptTypeOK` |
| | `OneSnapshot`, `CompleteIsAccepted`, `OrderKept`, `FailuresHaveCause` | the four properties of the `scripts` run |
| | `ScriptsUseProgram` | `ScriptSpec => [][Next]_vars`: the chain moves as the program's specification says |
| `DashboardProofs` | `PageInvHolds`, `PageTypeCorrect` | `[]PageInv`, `[]PageTypeOK` |
| | `OneAnswerShown`, `FieldNamesAsset`, `OutcomeShown` | the three properties of the `page` run |

With them every safety property of a passing run is a theorem. Each inductive
invariant was model-checked before it was proved.

**Assumptions.** Each is in the module that declares the constants, and TLC
evaluates all of them in the runs.

* The program: `KeyAssumption` (the admin is a key; the default key is no
  snapshot's address), `IdAssumption`, `BoundAssumption`, `NoAccountAssumption`
  (an absent account is not an account); for the refinement, `NoneAssumption` of
  `BackstopRefinement` (nor is it an attestation or an answer).
* The reader: `HealthAssumption`. There is at least one attempt; the clocks'
  difference is any number.
* The catalogue: `CatalogAssumption`. The lifetime and the timeout are any
  numbers, zero included, as `envInt` admits it (`prestocks.ts:63-73`).
* The evidence: `MintAssumption` (no mint of the PreStocks table has a price
  feed, as the two tables in the source have it), `PythAssumption`,
  `TimeAssumption` and `ChainAssumption` (the limits are numbers, the timeout is
  not zero, nodes lag or do not), `NoneAssumption` of `Evidence` (no registry and
  no snapshot are two things, and neither is a snapshot).
* The scripts: `ScriptAssumption`. There is at least one attempt; a blockhash
  expires before `confirm` gives up; the validity of a snapshot is within the
  program's ceiling and the clock's range; the name the setup registers is short
  enough.
* The page: `PageAssumption`. The quick buttons hold mints, and the empty text
  is none.

**Argument: the program.** `Inv` is `TypeOK /\ RegistryInv /\ SnapshotInv`. `GateSound` is
not inductive: that `Ok` speaks of the *newest* attestation needs that every
snapshot is no newer than the one its registry points to; that it speaks of
*this mint's* needs that registries and snapshots are bound to the addresses
they are derived from; that the supply was covered *then* needs that a stored
status agrees with the stored numbers; that the window is bounded needs that
no account was ever written past the ceiling. These are the conjuncts of
`RegistryInv` and `SnapshotInv`. `InvStep` shows each of the six actions
preserves them, `SubmitSnapshot` being the one with work in it. The action
properties follow from `Inv` and the step. `SpentStaysSpent` rests on two
lemmas: the clock does not go back, and a pointer never returns to a
snapshot it has left (`PointerNeverReturns`), as submission creates the
account it points to.

The agreement of coverage and status is arithmetic: `ShortfallStaysBelowFull`
and `CoverIsFull` show that flooring the division neither rounds a shortfall up
nor loses full coverage, from Euclid's identity.

The refinement maps each action to a gate action: registration and
rotation to `Manage`, submission to `Attest`, evaluation to `Ask` or `Refuse`
as the account is the current one or not, supply and clock to their namesakes.
`EvaluateIsAskOrRefuse` has to show, for the current account, that the result is
`Ok` exactly if the gate's `Safe` holds: by `Inv` every binding check passes, so
that only expiry and coverage decide (`CoversMeansOk`, `OkMeansCovers`). For any
other account it has to show that the result is not `Ok`, which is what the
checks of `assert_snapshot_binding` are for (`OkMeansCovers` again: `Ok` is only
said of the snapshot the mint's own registry points to).

**Argument: the evidence.** The verdict is about a chain that moves while it is
read, at several moments of one request, so that the properties are not inductive.
`EvidenceInv` says what is known at each. `ReadsAreTrue`: while the chain is
read, `seen.vouched` and `seen.short` are up to date with it; and when the supply
has come, they are so for the *combination* that was read, unless a node lagged or
a newer snapshot was current by then. That is the heart of it: if neither
happened, the snapshot read first is still the current one when the supply is
read last, so that the two were the chain's state at that moment. From there to
the look at the clock time only takes force away (`ForceFades`), but the
host's clock may be off, and it counts the second of expiry as in force: hence
`expiring`. `HealthVerdictMeans` turns the status and the flag back into what was
read, and `AnswersAreGrounded` keeps the result for as long as the request
lives. `AnswersAreAboutMint` ties each answer to the mint (an observed price is of
a mint that has a feed, an observed identity is the one on mainnet), and
`VerdictIsUsed` adds that the consumer allows only this request's verdict. The properties follow
from what `Verdict` needs for VERIFIED and for DENY (`VerifiedNeeds`,
`DenyNeeds`). `OutagesVerifyNothing` does not hold of `evaluateEvidence` alone:
there, losing PreStocks or mainnet lifts the cap of two observed sources, and a
WARNING would become VERIFIED. It holds of the pipeline because a mint both
sources know is in the PreStocks table and has no price feed. The day such a
feed is listed, `MintAssumption` is false and so may the property be.

**Argument: the reader.** An answer is made of three reads of three moments, and
by the time it is made none of the three need be the present. `HealthInv` says
of each what stays true: the pointer that was read names an account of the mint,
and the account that was read is the account still (`RequestInv`), because
accounts are permanent; a node that is behind has nothing the chain has not
(`Behind`), because nothing it knows of a snapshot can change; and of a request
without lagging nodes `HistoryInv` says that an answer of "safe" was right at
some moment, or its pointer was replaced, or its snapshot has expired, the last
two for good (`PointerNeverReturns`, `ClockMonotonic`). The chain's steps are
those of the program, so that the lemmas of `BackstopProgramProofs` are cited
and nothing about the instructions is proved twice.

**Argument: the catalogue.** The code keeps one variable, `inFlightFetch`, for
"a fetch is under way"; that one call is upstream at a time needs to know who
will clear it. `WaitInv` says that it names a promise exactly while one caller,
its starter, waits for that promise, and that every promise under way or settled
has somebody waiting. `AgeInv` adds up: the age of a copy and the time its timer
has left are together within the timeout, and in the cache it ages with the
cache.

**Argument: the scripts.** `ScriptInv` is stated per run. `RunInv` relates its
locals to each other; `SentInv` says of its transactions in the network that
they are of an instruction it has reached, of an attempt no later than the
present one, and die before `confirm` gives up; `DoneInv` says that it goes on
only after what it sent was executed; `CauseInv`, that a run nothing has
happened to waits for one transaction, and that the chain is as the run found it
(`Expected`), so that this transaction will succeed. A step of one run leaves
the statements about all others alone (`LocalStep`), but what it lands is the
others' trouble. Between runs there is little to say: whose the snapshots are
(`AuthorsInv`), that `before` relates runs that are over to runs that have begun,
and `RunsStayInOrder` itself, which becomes inductive with the rest: a
snapshot that lands is either of a run that has not timed out, as its
transactions died with it, nor completed, as its snapshot would exist and
the account could not be made again.

**Argument: the page.** It keeps no order among its requests. `RequestsInv` ties
each one in flight to the text that is written back when it is answered, and
`ViewInv` says that the panels are the rendering of one answer whatever they
held before: `renderBackstop` and the others leave old figures standing where an
answer lacks them, and the lemmas about them show that no answer the server
gives lacks what the panel then shows.

**What the proofs changed.** Two statements were true of the checked instances
and not in general, a guard was missing, and so was an assumption:

* `AnswersAreRecent` bounded the age by the cache's lifetime and the timeout.
  With a lifetime of zero an entry may be one tick older, replaced
  while the response is under way. It now has a bound for that case.
* `RunsStayInOrder`, as stated before, compared two rotations. A third run,
  concurrent with both, may have the last word. It now says that the
  attestor is one that some rotation asked for which was not over before.
* `ScriptTypeOK` let the setup mint past `MaxSupply`, which no run's numbers
  reached: the SPL Token program refuses a mint that overflows the
  supply, and `Succeeds` does now.
* The clock was not required to reach the validity the setup asks for. It is
  now in `ScriptAssumption`.

**Only model-checked.** Liveness (`VerdictsExpire`, `RequestsAnswered`,
`CallersAnswered`, `ConsumerDecides`, `RunsEnd`, `CheckingEnds`): fairness and
`ENABLED` are out of the prover's reach. The runs that expect a violation state
what does not hold, and there is nothing to prove of them.

## 6. Not modelled

* The decoders' byte offsets, base58, addresses, the encoding of instructions:
  pure data layout.
* Number formats, colours, icons, wording and the style sheet of the page.
* HTTP headers other than the CORS origin.
* Read-only scripts (`reconcile.ts`, `pyth-lookup.ts`): they print what modelled
  code returns. `scripts/legacy`: early experiments, not part of the system
  (`scripts/legacy/README.md`).
* Jumps of the host's wall clock, on which the age of the cache depends.
* The distance of the operator's clock from the cluster's in the scripts.
  `day2-real-mint.ts` computes the end of a five-minute validity from the host's
  clock: on a machine that is minutes behind, the snapshot would be refused or
  stale on arrival, a cause of failure that `FailureHasCause` does not name.
* A transaction that lands after `confirm` gave up on it: `ScriptAssumption`
  excludes it (see Bounds), and a rotation executed twice is excepted from
  `RunsStayInOrder` (see section 4).

## 7. Plan

Order of work: the program first, as everything else reads it; its abstract
gate and the proof that it implements it; the readers, from the chain
outward: `AssetHealth`, `PreStocksCatalog`, `Evidence`; the writers:
`OperatorScripts`; what the reader sees: `ApiServer`, `Dashboard`. All of it is
modelled and checked, and every safety property of the passing runs is proved.

What would come next:

* That the reader implements an abstract one, whose answer is computed from one
  state of the chain, where nothing moves (`AgreesWhenQuiet` is a part of it).
* The refinement of the gate under the scripts: `ScriptsUseProgram` relates the
  steps; a registry that exists before the scripts start is not an initial state
  of the program, so that `GateSound` is inherited and `ImplementsGate` is not
  yet.
