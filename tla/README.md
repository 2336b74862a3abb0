# Sui402: a verification project

TLA+ models of Sui402 (HTTP 402 payments on Sui: challenges, payment proofs,
prepaid sessions, receipts, settlement, indexing, and the console that merchants
and operators use), TLC configurations that check them on small instances, and
TLAPS proofs of the properties that matter most. `PROJECT.json` maps every
definition to the source lines it stands for.

## 1. The system

| component | state | operations | correct when |
|---|---|---|---|
| `packages/server` payment middleware (`requireSuiPayment`) | none of its own; requests in flight | issue a challenge; look it up, check replay, verify, apply policy, consume, issue receipt, record, serve | one challenge and one payment open the resource once; a 409 is told only to losers; whoever is served is on record |
| `packages/storage`, memory stores of `packages/server` | challenges, consumed markers, payment records, receipt counters | issue, get, consume, record, getByProof, nextSequence | consume succeeds once per challenge, over crashes and marker expiry |
| `packages/sui` | none | verify a transaction against a challenge; build transactions; select coins and sessions | a proof is accepted only for a payment that fits the challenge |
| `packages/receipts` | sequence counter per stream | issue, sign, verify, finality, sequence validation | numbers of a stream are unique; a final receipt is past every window |
| `packages/policy`, `packages/protocol` | none | evaluate terms; challenge ids, expiry, encodings | what the policy forbids is neither served nor burnt |
| `packages/client`, `packages/mcp`, `packages/pay` | none kept | pay and retry on 402, guard by policy, find and spend a session; paid tools | no second payment for one request; spends fit the session |
| `packages/gateway` | merchants and their configurations, shared stores | upsert a merchant; pay for and proxy to its upstream | a payment is worth its challenge's terms and the policy it was judged by |
| `move/.../sessions.move` | owned session objects with an escrowed balance | open, fund, spend, revoke, close | coins are conserved and leave by the terms of the session |
| `move/.../settlement.move` | ledgers: table of receipts and totals | create, settle one, settle a batch | a receipt counts once; totals and events match the table |
| `packages/indexer` | index store, durable cursor | fetch a page, upsert its events, save the cursor; loop with retries | the cursor never passes an event that is not stored; every event is stored in the end |
| `apps/console-api`: merchants, applications, change requests | applications, change requests, merchants, listings | submit, verify, attach a wallet proof, rotate a token, review; create and update a merchant; request and review a change | what is live was proved and reviewed; decisions follow what they decide; the marketplace shows what the gateway asks |
| `apps/console-api`: stores, audit log, exports | a JSON file with its copy in memory, or Postgres tables; a hash chain; artifacts on Walrus | upsert, consume, record, append, export, restart | what was acknowledged survives; the chain verifies; the log never runs ahead of the data |
| `apps/console-api`: settlements | a copy of the settlement index, payment records | reconcile, report | the report says what the ledgers hold |
| `apps/provider-api`, `apps/console-api`: rate limits | windows in memory, in Redis or in Postgres | check | at most the limit per window; nobody is locked out of a later one |
| `packages/walrus` | artifacts | publish, read | an export on record was published |
| `apps/dashboard`: the publisher's card; publisher routes of `apps/console-api` | application, token and session on the card; access tokens on record | draft, resume, wallet proof, session, probe; rotate | card, session and probe are of one application; the card keeps its token; a rotated token opens nothing |
| `packages/registry`, `apps/session-cli`, `apps/create-sui402`, other pages of `apps/dashboard`, `scripts`, `deploy` | listings; none | listing, command lines, user interface, operations | (not modelled, see 8) |

How they interact. An agent (`client`, `pay`) asks a provider (`server`, behind
`provider-api` or `gateway`) for a resource, is answered 402 with a challenge,
pays on Sui, directly or by `spend` on its session object, and retries with a
proof. The server verifies the proof against the chain (`sui`), consumes the
challenge in a store that several replicas share, has a receipt signed and
records the payment. Receipts are settled on a ledger object. The indexer
copies spend and settlement events from the chain to a store that the console
reconciles payments with. Merchants come to the gateway through the console:
a publisher applies, mostly from the dashboard, whose card follows the application by
its access token, and proves that it owns its upstream, an operator reviews
the application, and approval writes the gateway's configuration and the listing
in the marketplace. What the console does is appended to its audit log, whose
head, like payments and receipts, can be exported to Walrus.

What is hard. Between two awaits of a request any other request, replica, admin
call or the clock may act; every await may reject after its effect; processes
die and memory stores with them; a file that is written late parts from the
memory it is a copy of; Redis keys expire; runs of the indexer fail half way and
share a cursor; the console's handlers write whole records back that they read
some awaits earlier, and a page applies answers to whatever it shows by then; Move transactions abort as a whole; u64 ends.
`PROJECT.json` lists these hazards at their lines, with the properties that
cover each.

## 2. Modules

| module | models | state ↔ code |
|---|---|---|
| `PaidAccess` | the promise of the middleware, abstractly | `paid`: transactions that pay; `granted`: who was served for what |
| `PaymentServer` | `requireSuiPayment` with its stores | `pc[r]`: the await request `r` is at, or its answer; `store`, `marker`: challenges and consumed ids; `ledger`: payment records; `sequence`: the receipt counter; `expiresAt`, `now`: expiry; `consumers`: history of successful consumes |
| `Gateway` | `packages/gateway`: many merchants over one middleware and its stores | `config`: the merchant store; `terms`: what each challenge was issued with; `live`, `consumed`, `ledger`: the shared stores; `seen[r]`: the configuration request `r` read; `paid[r]`: whether `res.locals.sui402` is set |
| `IndexerSync` | gRPC checkpoint source, index loop and sync loop | `chain`: events per checkpoint; `store`, `saved`: index and cursor tables; `pc`, `cursor`, `page`, `fetched`, `scanned`, `pages`, `more`: the locals of a run |
| `SessionEscrow` | `sessions.move` | `session[id]`: the object's fields; `holder`: its owner; `wallet`: coins; `spends`: emitted events; `funded`: history of coins put in |
| `AgentSpend` | `packages/client` with the session-first handler of `packages/pay`; extends `SessionEscrow` | `pc[k]`: the await call `k` is at, or its outcome; `asked[k]`: the challenge it holds; `found[k]`: the session it read; `transfers`: one-shot payments |
| `SettlementLedger` | `settlement.move` | `table`, `count`, `total`: fields of the ledger object; `events`: what was emitted |
| `SettlementReport` | the GraphQL settlement source, its run and the reconciliation report, over `SettlementLedger` | `payments`: payment records, oldest first; `index`: settlement records; `saved`: the durable cursor; `pc`, `cursor`, `page`, `more`, `pages`: the locals of a run |
| `Console` | the merchant life cycle of `apps/console-api` | `applications`, `requests`, `merchants`, `listings`: the four stores; `handler[h]`: what is left of a request with the copies it loaded; `proved`, `published`, `reviewed`, `torn`: history |
| `ConsoleStores` | file store and Postgres stores, audit chain, exports | `memory`: the file store's `#state`; `file`: what a restart reads; `anchored`: what Walrus holds; `handler[h]`: the rest of a request; `granted`, `recorded`, `reported`: what callers were told |
| `RateLimit` | the memory, Redis and Postgres limiters | `bucket`: the open window; `keys`: Redis keys with their expiry; `request[r]`: a Redis request between its commands; `counted`, `admitted`, `denied`, `late`: history |
| `Publisher` | the publisher's card of the dashboard over the publisher routes of the console | `card`, `held`, `session`, `probe`, `busy`: `submittedApplication`, `publisherAccessToken`, `publisherSession`, `publisherProbe` and the loading flags; `token`: access tokens on record; `call[c]`: a request of the page or a write of the console; `retired`, `overtaken`, `crossed`: history |
| `*_proofs` | theorems about `PaymentServer`, `Gateway`, `IndexerSync`, `Console`, `ConsoleStores`, `Publisher`; `AgentSpend_proofs` about `SessionEscrow` and `AgentSpend`; `Counting_proofs` about `SettlementLedger`, `SettlementReport` and `RateLimit` | |
| `MC*` | the instances TLC checks | |

**PaymentServer.** A step of a request is the code between two awaits, so that
`Lookup`, `CheckReplay`, `FinishVerification`, `Consume`, `Unlink`,
`IssueReceipt`, `Record` and `Serve` interleave with those of other requests.
`ChallengeKind` and `RecordKind` choose the stores: the memory store drops a
challenge with the marker in one step, Redis and Postgres with a second command
(`Unlink`), a Redis marker expires after `ConsumedTtl`, memory stores die with
the process (`Crash`). `Fail` is a rejected await; since it may come right
after any effect, it also stands for a reply that was lost. A payment is a
transaction with the challenges it was made for; whether its amount, coin and
receiver fit is one Boolean, since the terms of a middleware are fixed.

**Gateway.** What `PaymentServer` takes apart, `Gateway` puts together again: the
checks of the middleware that only read are one step (`Check`), the stores are
durable, a payment-record store is configured, and expiry is a challenge that
disappears (`Expire`). What `PaymentServer` fixes is open here: terms and policy
belong to a merchant, an admin replaces them at any moment, and a challenge, a
proof or a transaction may come to any merchant. A configuration is its terms
(payee, price, scope), its status and what its policy allows. All merchants are on
one network, with one coin type and one session package.
`MiddlewareFails` is the `next(error)` of the middleware, which the gateway's continuation
receives as its call to go on.

**IndexerSync.** A worker reads checkpoints from its cursor until the page is
full in events or in checkpoints (`TakePart`, `TakeAll`) or the head is reached
(`ReachHead`), upserts the events one await at a time, goes on with the next
page (`EndPage`) and saves the cursor (`Save`). `Fail` ends a run anywhere.
The session and the settlement source have the same code. Events that
normalisation skips are not counted as matching.

**SessionEscrow.** One action per entry function, with every assert as a guard;
aborted transactions change nothing and are no steps. The object has `store`,
so that its holder may transfer or freeze it (`Transfer`).

**AgentSpend.** A call of `Sui402Client.fetch` between its awaits: `Ask` (a 402 and
`readChallenge`), `Select` or `FallBack` (the listing of sessions, its filter and
order, the cap), `SpendFromSession` or `PayOneShot`, `Retry`; `Fail` is a rejected
await, also one after the transaction was executed. The sessions are those of
`SessionEscrow`: its `Spend` is the call's, and anybody does the rest in between
(`Manage`). The provider is its verifier (`Fits`), which hashes the challenge's
resource as the client does. Gas is not counted, amounts are positive, and sessions
are of the configured package and coin type.

**SettlementLedger.** A transaction is a fold of `SettleOne` over its receipts
that is committed whole or not at all. `Claims` stands for payer, merchant,
signer, sequence and scope of a receipt, which the ledger stores unread.

**SettlementReport.** Composes the ledgers, the recorded payments, the indexer and
the report. The GraphQL source pages through two kinds of events with half a page
each and one combined cursor (`FetchKind`, once per kind, the chain may grow in
between); an empty page takes the cursor of its kind back to the start, as the
code does. `Upsert` keeps one record per transaction and event number. The report
looks at the latest `ReportLimit` payments and at the newest `EventLimit` indexed events of
both kinds together (`Listings`; events of one checkpoint have one time, and any of them may be
cut off): `Status` is `reconciliationStatus`, `SettledAmount` its sum. A receipt may be settled before
its payment is recorded, with other fields than were signed, or on two ledgers.

**Console.** A step of a handler is what it does between two store calls; its task
holds the copy it loaded (`doc`) and the configuration it will write (`config`).
`Begin*` is a handler up to its first await that matters, with the checks it makes
on what it loaded; `WriteMerchant`, `WriteListing`, `Update` are the upserts that
the handlers share, each of the whole record, with no comparison. `Abort` is a rejected await or
a crash at any point. A configuration is its high-risk fields (payout wallet,
network, coin type: `HighRisk` says which of them an instance tells apart) and
one field for the rest (`price`). Wallet signatures and access tokens are
values in the application that nothing here compares: `attach` stands for both.

**ConsoleStores.** `Saved` and `Threw` are a write that returns and a write that
throws: the file store changes its memory first, so after `Threw` memory is
ahead of the file; with Postgres the statement either happened and its answer was
lost, or did not happen. `Restart` takes the memory back to the file. Rows that are
written by upsert are versions; the audit event of a row is appended when the
write has returned, and an export goes through `publish`, `record` and `audit`.
The id of an event stands for its hash (no collisions); ids are drawn at random,
which matters because events of equal times are ordered by id.

**RateLimit.** One key. Memory and Postgres decide in one step. A Redis request
sends INCR, PEXPIRE if it found the key absent, and decides; each command may be
lost, or carried out with its answer lost, or late by up to `MaxDelay`.

**Publisher.** `Click*` is what a button sends, `Handle*` what the console does with
it, `Finish*` what the page does with the answer, on the card that is there by then;
`Fail` is a refusal, a lost answer or a dead process, with the `finally` of every
level (`Waiting`). No button is disabled while another call is out, so that all of them overlap.
A probe without a cached session is a session exchange that goes on as a probe.
`HandleProof` and `BeginWrite` load a copy of an application that `Write` puts
back, token included; `BeginRotate` loads one with a new token. A token is a number
that is drawn once, and a session is the application, the token it is signed with
and its expiry. `now` is the console's clock, which issues and checks expiries; the page compares
them with its own (`PageClock`), which is behind by any of `Lags` whenever it is read. Of the answers the
page gets only the one to a draft shows the token: the others are `Redacted`. (`POST
/v1/merchant-applications` shows it too, but is not a route of the card.)
`crossed` says that two calls of the page overlapped since a draft or a resume last filled the
card alone, `overtaken` that an application was rotated between the load and the write of a copy.

## 3. Runs

| run | instance | shows |
|---|---|---|
| `payment` | 2 requests, 2 challenges, 2 digests; Redis challenges, durable records and counter; session payments only; challenges live 1 tick, markers 3, clock to 4 | type invariant; consumed once, past the marker's expiry; burnt only by accepted proofs; truthful 409s; served is recorded; unique receipt numbers; refinement of `PaidAccess` |
| `gateway` | 2 merchants (one takes any scope and kind, at two prices; one its own scope and sessions only, open or paused), 2 requests, 2 challenges, one digest | verified payments cover their challenges, policies confine, refinement of `PaidAccess` over all merchants |
| `gateway_failure` | the same with one request and one challenge | the violation of section 6 |
| `indexer_sync` | 2 runners, 2 checkpoints with up to 3 events, pages of 2, one failure | no event skipped; every event indexed |
| `escrow` | 3 addresses, one session at a time, 3 coins, u64 up to 4, limits and expiries 1 and 2 | books, events, conservation, terms |
| `settlement` | 2 ledgers, 2 receipt ids, 2 claims, amounts to 2, batches to 2, u64 up to 3; one event of each kind per page, 2 pages per run, one failure; 3 events, 2 payments, a report over the last one and 2 events; the first two positions have one time | totals, table and events agree; the combined cursor skips nothing; the report is truthful about what it looks at |
| `agent_spend` | 2 calls of one owner, one `--session-only`, 2 addresses, one session at a time, prices 1 and 2, limits per request 1 and 2, one scope, cap 1, 3 coins, clock to 2 | one payment per call, what was asked, turned away only late |
| `console` | 2 handlers at a time, one application, 2 change requests, one merchant, one high-risk field, 2 values | published was proved; live high-risk values were let through by an operator; decisions follow what they decide; marketplace and gateway part only where writers overlap or stop half way |
| `console_rejected` | the same with one handler | the violation of section 6 |
| `console_stores` | both drivers, 2 requests, one challenge, 2 payments of one proof, one row, 3 audit events, one export, a clock that shows 0 or 1 at will | consumed once; acknowledged is durable; log behind the data; chain and windows verify; exports are backed |
| `rate_limit` | all three limiters, 2 requests, limit 1 per window of 2 ticks, up to 2 counted per tick, delays to 2, clock to 4 | quota per window and per span; denied only when full |
| `publisher` | 2 calls in flight, of the page or of others; one application to draft and one from before there were tokens; 2 tokens; sessions of 2 s with a margin of 1 s, clock to 2, the page's clock 1 ahead, right, or 2 behind | the card is of one application and keeps its key; a rotated token stays dead; a probe is too late only if it was slow or the page's clock lagged; no button waits for nothing |

Bounds. Two requests are enough for every race over a challenge or a digest; two
challenges and two digests give every way of pairing them. In `payment` the
clock runs to 4, so that a challenge issued at 0 and consumed at 1 has lost its
marker while the other one is still in use; the memory and Postgres stores and
a middleware without records are left to the theorems, which hold for all of them.
In `gateway` one digest is enough for a transaction that two requests, at two
merchants, redeem for two challenges, and each merchant has two configurations to
change between. In `indexer_sync` a page smaller than the largest checkpoint, pages
per run smaller than the chain, and two runners cover resuming in the middle of
a checkpoint, full pages and a cursor set back. In `escrow` 3 coins with u64 to 4
let a session be refunded until its total no longer fits; three addresses make
payer, merchant and a third holder distinct. In `settlement` three events are a
batch of two with its closing event, or a receipt on either ledger beside
another; one event per kind and page makes a kind run dry before the other; with two of three events to
a report and two events of one time, either what is cut off is the oldest, or it is either of two. In
`agent_spend` two calls race for one session whose balance covers one of them, a
price is below and one above the cap, as a session's limit is below and at the higher price, and sessions and challenges expire at the
first or the second tick. There is one scope, so that what `PaysWhatWasAsked` says of
scopes is left to its theorem (with two the run takes longer than five minutes). In `console` handlers are used again and again: two
overlap anywhere and as many as one likes follow each other, so that a copy that one
of them loaded goes stale by any number of complete reviews; two change requests
overlap in the one field. In `console_stores` three events give a clock that goes
forward, stands and goes back, and windows shorter than the log. In `rate_limit` the
clock crosses two windows and a key's expiry. In `publisher` two calls give every
overlap of two buttons, or of a button with a rotation or a review; of two tokens
one is drawn for the draft and one replaces it, or either application is rotated; an application
without a token leaves the card with nothing to exchange; the session expires at the end of the
clock, one tick after its margin; with a lag of 2 the page
still sees the whole margin left of a session that has ended. Symmetry is declared for
sets of names that the specifications only compare; runs with liveness use none.

Deadlock is checked in `indexer_sync` (the loop never ends) and in `publisher` (buttons stay there). The other systems
stop when their bounded requests, coins, receipts, events or ticks are used up, and their
configurations say `CHECK_DEADLOCK FALSE`. (The stores of `console` and
`console_stores` have no such end, but no progress is promised there either: a request may die at any await.)

Fairness. Only `indexer_sync` states any: weak fairness of each worker's own
steps, since the sync loop without `--max-runs` always sleeps and begins again
and every await of a run settles. Failures are not fair: they are bounded by
`MaxFailures`. `PinnedCursor` (the `--cursor` option) is FALSE: with it
`EventuallyIndexed` fails, and it is the mutant of that property.

## 4. Proofs

TLAPS checks, for every value of the constants that meets the named assumptions:

* `PaymentServer_proofs`. `TypeCorrect`; `ConsumedOnce`; `BurntOnlyByVerified`;
  `ReplayTruthful` (records not in memory); `ServedRecorded` and
  `Implementation` (durable records); `SequencesUnique` (durable counter).
  The argument for `ConsumedOnce`: a challenge that was consumed either has a
  marker that still counts, or no request can reach `consume` with it any more.
  For Redis this needs that a request past `Lookup` arrived before the
  challenge expired and is in flight for at most `MaxFlight`, and that the
  marker outlives both (`MarkerAssumption`: the defaults are 300 s and 24 h; the
  code does not enforce it). For memory stores it needs that a crash takes the
  requests in flight along with the marker. The inductive invariant says this
  per request and per store. The refinement adds that a record in the
  ledger belongs to a request and is the only one with its transaction.
* `Gateway_proofs`. `TypeCorrect`; `CoversChallenge`; `PolicyHolds`; `Implementation`, for
  every set of merchants and configurations. Two inductive invariants: what a request was
  checked against stays true (terms of an issued challenge and
  transactions never change, and the request keeps the configuration it
  read); and whoever consumed a challenge, or wrote a record, and may still be verified is
  the only request with that challenge, or that transaction.
* `IndexerSync_proofs`. `TypeCorrect`; `NoneSkipped`. Inductive invariant: for each
  worker, every event before its cursor is in the store or still in its
  page, and every saved cursor has its events in the store; cursors never
  pass the end of a checkpoint, and the chain only grows.
* `Console_proofs`. `TypeCorrect`; `OnlyProvedArePublished`; `HighRiskAlwaysReviewed`;
  `DecisionsHold`; `ListingsAgree`. Since a handler writes back what it loaded,
  each invariant holds of the copies in flight as well as of the stores: a
  verification that says `verified` belongs to an application that was proved, wherever
  the copy is; the high-risk part of a configuration that is about to be written was
  let through, because it came from the operator, from an approved patch or from
  the live configuration, which had been; a copy that says `approved` exists only
  after both writes. `ListingsAgree` needs that outside `torn` a merchant has one
  writer between its two writes.
* `ConsoleStores_proofs`. `TypeCorrect`; `ConsumedOnceEver`; `AnswersDurable`;
  `LogFollowsData`; `ChainAlwaysVerifies`; `ExportsBacked`, for both drivers. The file
  is always below the memory, and what a request still has to audit is
  on file already, so that whatever a later write takes along is in order. The chain
  needs no induction over its length: its times are all different, since an event is
  dated after its predecessor, so appending adds a greatest element and
  leaves the predecessors of all others as they were; a window is closed
  upwards and keeps the predecessors of all but its first.
* `Publisher_proofs`. `TypeCorrect`; `SessionsLastLongEnough`; `RotatedStaysDead`;
  `CardIsOfOneApplication`; `CardKeepsItsKey`; `NoButtonWaitsForNothing`. For rotations the
  invariant says that a loaded copy still equals the record unless its application is `overtaken`, and that a
  token about to be recorded is nowhere yet. For the card: outside
  `crossed` the page has one call at a time, so that a proof, an exchange or a probe meets the
  application it was clicked for; and the card has one token, which is good for its
  application. For probes: a session
in flight with a probe had more than the margin left by the page's clock when it was clicked, thus more than
the margin less the lag by the console's, and one exchanged for the probe has its whole lifetime.
* `AgentSpend_proofs`, first of the contract alone: `TypeCorrect`; `BooksBalance`;
  `TotalsDisjoint`; `Terms`; `Conservation` of coins. The totals need that events of a session
  lie below what it has spent. Coins are conserved because every entry function moves
  coins between two places of one sum: a session that appears or disappears adds or takes
  out one term, a payment adds to a wallet what a session loses.
  Then of the calls: `AgentTypeCorrect`; `PaysOnce`; `PaysAsAsked`; `LateOnly`; and that the
  contract's properties survive the composition, whose one-shot payments also move coins
  (`AgentConserves`, `AgentWithinTerms`). The invariant ties the
  place of a call to its payments: none before it pays, one from then on, each as its
  challenge asked. A call about to spend holds a copy of a session that
  may have been emptied, revoked, closed or transferred since it was read; the invariant
  keeps what cannot change (the session has the merchant, the limit and
  the scope of the copy, or is gone for good), and the contract's own checks do the rest.
  A step of one call leaves the payments of the others alone, and so does whatever
  anybody does to the sessions.
* `Counting_proofs`, in three parts over shared lemmas on sums over finite sets.
  `Accounting` (`TotalsMatchTable` and `EventsTellTheTable`, for every specification of ledgers) follows `settle_batch`
  through its loop: after `n` receipts either an assert failed, or none of them was settled before, no two
  have one id, and table, count, total and events are those of the `n`
  (`Sound`, `StateAfter`). A transaction that commits then adds its receipts to the table, their events behind
  all others, and the event that closes them last, whose sum moves with it.
  `NothingSkipped` and `Truthful` are about the pipeline. The first has the invariant of
  `IndexerSync_proofs`, per kind of event and with a cursor for each: in front of a cursor an
  event of its kind is in the index or on the page (`Covered`), even where an empty page
  sets the cursor back. The second needs that an index record tells its event, that events
  tell the table, and that what all ledgers hold is no more than the sum of their
  totals. That a complete index leaves nothing unreported is a count: if fewer than `EventLimit` events are as
new as one, a listing without it would have to be made of those, and be too short (`RecentIsListed`).
  `PipelineIsLedger` is the refinement, and `PipelineAccounting` what follows from it.
  `QuotaPerWindow`, `QuotaPerSpan` and `OnlyFullDenies` are about the limiters. In memory and in
  Postgres the count of an open window is that of the requests since it began, and the
  invariant keeps the same bound for as much time before it, since a span meets at
  most two windows. In Redis what passed a window, plus what was counted in it and may still pass, fits
  the count of its key (`WindowSound`). A key is gone only after its window; an INCR that finds it gone
  starts a second count, and as a request is in flight for at most `MaxDelay <= Window`, the new key outlives
  all requests of the window: there is no third. The code sets no such bound on a call;
  with the default window of a minute it asks that a command of Redis does not take as long.

Where data have to be walked through (a batch, a sum, a run of consecutive events) the proofs
argue by a least counterexample: every set of naturals has a least element
(`Least`, from the well-foundedness of `<`), so a smallest bad length or a smallest
bad part of a finite set leads to a contradiction. The library's induction rules, which take a predicate as a
parameter, are not needed for that. The sum of a function over a finite set is shown to be
the number of its units (`SumIsCount`), from which come all other facts on sums: a term taken
out, a term changed, part of a set, two sets together.

The type invariants are proved rather than run where a theorem has them (`payment` runs its
own as well): for a small instance they would say the same.

Every safety property that a passing run checks is a theorem. Only model-checked: liveness
(`EventuallyIndexed`), which needs fairness and ENABLED, and the two violation runs.

## 5. Assumptions about the outside

Sui executes a transaction once and atomically, objects are used by their owner
only, an id is never reused. Redis `SET NX`, `INCR` and Postgres `ON CONFLICT DO
NOTHING` are atomic. A challenge id is issued once (it hashes a random nonce). A
GraphQL service pages through the events of a kind in their order and answers an empty
page without an end cursor; an event carries the time of its checkpoint, and these times never
decrease. A rename of a file is atomic, and a write that threw did
not rename. SHA-256 does not collide; UUIDs are not drawn twice.
For sessions of the publisher, the replicas of the console share one clock that does not step back, which
issues them and checks them; the browser's clock may show any of `Lags` against it, another one each time.

## 6. Findings

`gateway_failure`: the middleware reports a failure with `next(error)`
(`packages/server/src/index.ts:483-485`), but the gateway's `next` is
`() => { void respondWithMerchantResource(...) }` (`packages/gateway/src/index.ts:192`),
which ignores the error: a request whose middleware failed is answered with the
resource (or proxied to the upstream) unpaid, against `docs/gateway.md:84-86`. A test of the
gateway would have to make a store, the verifier or the decoding of a proof fail to see it.

`console_rejected`: rejecting an application closes it without publishing a merchant
(`docs/console-api.md:602`, `onboarding.ts:558`). On approval the handler calls
`publishMerchant` (`app.ts:2043`) before `reviewMerchantApplication` looks at the status and throws
"has already been rejected" (`onboarding.ts:666-668`): approving a rejected application
answers with that error, with its merchant and listing live. One operator is enough.

## 7. Known limits of the code

What the models make visible beside the findings. The behaviours are in the models,
which check what holds in spite of them.

Middleware, gateway and agent.
* `docs/threat-model.md:22-24` has a resource unlocked only by a proof for the exact
  challenge. A one-shot transaction is not tied to one
  (`packages/sui/src/index.ts:237`): a payment made for one challenge of a merchant opens another. Each
  payment still opens one challenge only, which is what `PaidAccess` promises.
* All merchants share the challenge store (`packages/gateway/src/index.ts:186`), and a
  proof is judged by the challenge it names, whose recipient, amount and resource
  nobody compares with the merchant's: without a policy of resource scopes or
  merchants, a challenge paid to one merchant opens another's resource
  (`OpensItsMerchant` in `Gateway` states the opposite and does not hold; `PolicyConfines` is what a policy is worth).
* `findUsableAgentPaymentSession` (`packages/sui/src/index.ts:840`) takes what the owner
  holds, but `spend` wants the sender to be the payer: a session somebody else opened and
  transferred is selected, its spend aborts, and no other session is tried
  (`FoundIsSpendable` in `AgentSpend` does not hold).
* A payment whose upstream fails afterwards is consumed and recorded, and the payer has
  neither resource nor payment back (`packages/gateway/src/index.ts:258`).
* Memory records are empty after a restart (`packages/server/src/index.ts:284`): a digest
  opens a new challenge of the merchant; without records one transaction opens
  one challenge after another (`:417`). The memory receipt counter starts at 1 again
  (`packages/receipts/src/index.ts:222`). The theorems name the stores they need.

Console.
* A seller's update writes the configuration it loaded (`app.ts:1051`): a high-risk change
  applied meanwhile is undone, against `docs/console-api.md:830`. The value it brings
  back was reviewed once, which is what `HighRiskWasReviewed` says (`SellerKeepsHighRisk` in `Console` does not hold).
* The write-back of a verification (`app.ts:1804`), of a wallet proof or of a rotated token
  reopens an application that was decided meanwhile. All but the last carry the access token
  they loaded, and bring a rotated one back to life with the sessions signed with it;
  `docs/console-api.md:391-393` says without exception that rotation invalidates them.
  `RotationHolds` says that nothing else does.
* The dashboard applies an answer to the card that is there by then (`main.tsx:777`, `:809`,
  `:842`): when calls overlap, the application of one resume can stand beside the session or the
  probe of another, until a draft or a resume fills the card alone. `CardAgrees` says that overlapping calls are needed.
* Overlapping change requests are found by a read before the write: two that arrive
  together are both stored (`docs/console-api.md:894`). Two reviewers may approve and
  reject one request; the last write stands, and an approval that lost was applied all the same.
* A process that ends between `publishMerchant` and the update leaves an application
  pending whose merchant is live; a second approval is answered 409.
* After a failed write the file store answers from its memory: recording the payment
  again is answered `false` though nothing is on file, and the head of an
  audit log that was never written can be published to Walrus. Neither is acknowledged, and a restart forgets both.
* When the limit cuts the payments of a report but not the events, events of
  payments beyond it are listed as orphaned (`settlements.ts:150-215`).

* The report reads the newest 1000 settlement events, receipts and batches together
  (`app.ts:2102`, `:2111`; the overview 500, `:3224`). A settled receipt with 1000 newer events is reported
  unsettled although the index is complete, and one of two settlements may go unseen, while
  `docs/runbooks/testnet-rehearsal.md:391` gives only a missing event or another id as the cause.
  `ReportIsTruthful` promises completeness for the other receipts.
* The page judges its cached session by the browser's clock (`main.tsx:801`). With one that lags by more than
  the margin of 30 s, a session that has ended is used and its probe is refused at once, again on every click
  until that clock catches up; with one that is ahead, sessions are exchanged more often.

Indexer and limiters.
* An event that normalisation rejects fails every run at the same place
  (`packages/indexer/src/index.ts:1470`); the index stands still behind it.
* A Redis window that an INCR reaches after its key expired counts anew once
  (`WindowQuota` allows for it). Memory limiters are per process, and nothing calls their `cleanup()`.
* The inspection of a pay session that stops at `--limit` on the last page says there are no more objects.

## 8. Not modelled, and what is left

Signatures, encodings, schemas, CSV and SQL listings are pure data. The pages of the
dashboard but for the publisher's card show the answer of one query each (a marketplace detail or a
scan that is answered late may be shown under a later selection, `main.tsx:352-415`). The
project template, command lines and deployment scripts are I/O with no state
of their own. `packages/mcp` runs a subset of the middleware's steps over the same
stores. `packages/registry` is an upsert and a query of one map. Of the console
the routes that only read are left out, and of the report filters, the summary per
merchant and orphaned rows; the GraphQL session source and the JSONL source page with
one cursor as the gRPC source does. Receipt finality and sequence validation are
functions of a receipt and the time.

Left, in this order:

1. `Receipts`: finality windows and sequence validation as operators, against
   reference definitions.
2. The audit of `Console`'s handlers composed with `ConsoleStores`, so that a decision
   and its event are one specification.
