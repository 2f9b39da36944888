# Specifications of ZecTime

ZecTime stamps documents on the Zcash chain: a Poseidon commitment to a file's
hash and a nonce is published in the memo of a shielded transaction, and a
receipt lets its owner show later what was committed, and at which height.
These TLA+ modules model the parts of the program that keep state or cross a
process boundary, check them with TLC on small instances, and prove the most
important of their properties with TLAPS for every instance.

Paths below are relative to the repository.

## 1. The system

| Component | Code | State | Operations | What is hard | What makes it correct |
|---|---|---|---|---|---|
| Public stamp budget, file store | `apps/web/lib/server/stamp-budget.ts` | `activeStampOperations`, the `budgetLock` promise chain, a JSON file with one day's counters | `runPublicStampOperation`, `reservePublicStampBudget` | a read-check-write over awaits; the day read before the lock; failing reads and writes; the process dying anywhere | both daily limits hold, no update is lost, the day never goes back, no slot leaks |
| Public stamp budget, Upstash store | same file | Redis counters with a time to live | one pipeline of INCR, EXPIRE, INCR, EXPIRE per request | pipelines of several servers interleave, half of one fails, an answer is lost, one runs late | the counters last the day, and what is granted stays within the limits |
| Rate limiter | `lib/server/rate-limit.ts` | one bucket per scope and address | `enforceRateLimit` | requests around the end of a window | bursts are bounded, and refusals do not prolong themselves |
| Publish pipeline | `api/timestamps/stamp/route.ts`, `lib/server/zectime-client.ts`, `crates/cli`, `crates/anchor/src/rpc/zallet.rs` | a request in the server, a CLI child, an operation in the wallet, a transaction | reserve, spawn, `z_sendmany`, poll, fetch, answer | three processes, each of which times out, dies or restarts while the others go on | no more is spent than the budget allows, and success means confirmed |
| Receipts | `lib/timestamp-client-crypto.ts`, the stamp and verify panels, `zectime-client.ts`, `crates/cli`, `timestamp_memo.rs`, `rpc/timestamp.rs` | receipts, proofs, memos | stamp, anchor, fetch, reveal, predicate-prove, verify | five encoders in two byte orders by three programs; blocks that are reorganized away | a match binds, no height can be backdated, an anchored receipt verifies |
| Wallet read path | `crates/anchor/src/rpc/zallet.rs` (`fetch_anchor`, wallet DB fallback), `rpc/timestamp.rs`, `ops/zallet-rpc-proxy.py` | a call, its reply, the chain that moves meanwhile | view the transaction, recognise the alpha's error, fall back, choose a memo | two layers of fallback, error classes, byte order of the txid, blocks between two looks | an answer is true, and a mined anchor is read by every installation that can read it |
| CLI bridge | `zectime-client.ts`, `api/timestamps/*/route.ts`, `request-body.ts`, `error-kinds.ts` | a body being read, a temporary directory, a child process, a timer | throttle, read, budget, configure, write, spawn, kill, close, clean up, classify | the timer around exit and close, the `finally` on every path, a child that hangs | nothing outlives its request, and the status says what was done |
| Pages | `app/components/timestamp/*-panel.tsx`, `lib/timestamp-client-crypto.ts` | React state, submissions in flight, the draft that only the page has | file choice, submit, download, leave | handlers around awaits, late file texts, three parsers of one envelope | what is shown, offered and sent belongs to what was submitted |
| Circuits | `crates/circuit` | none: two constraint systems | assign, check | the prover fills cells as it likes, so whatever the gates leave free is free | a commitment and an index leave one value; every honest proof can be made |
| Prover, verifier | `crates/prover`, `crates/verifier` | none | prove, verify | nothing beyond the circuits | not modelled (section 5) |

The browser hashes a file and commits to it (a *draft*), and posts only the
commitment. The stamp route takes a slot, reserves budget, spawns `zectime
timestamp anchor`, which asks the zallet wallet to send a shielded memo to
itself and polls the operation; it then spawns `zectime timestamp fetch` once
and returns txid and height, which the browser writes into the receipt it
offers. The CLI does the same steps one command at a time. Verification fetches
the memo by txid, compares text and height with the receipt, and in the browser
recomputes the commitment of the file.

## 2. Modules

| Module | Models |
|---|---|
| `BudgetSpec` | what any budget store promises: charge once, within both limits, grant only after the charge |
| `StampBudget` | the file store; implements `BudgetSpec` |
| `StampPipeline` | extends `StampBudget` with the CLI child, the wallet and the chain |
| `UpstashBudget` | the Redis store |
| `RateLimit` | the fixed-window limiter |
| `CliBridge` | one request to the API, from its first byte to its answer |
| `AnchorRead` | reading an anchor through wallet, proxy and databases |
| `Receipts` | receipts, proofs and anchors, and every check of one against another |
| `ReceiptFormats` | the JSON of receipts: its writers, parsers and hashes |
| `StampPanel`, `VerifyPanel`, `PredicatePanel` | a visit of each page |
| `Panels` | the pages together, over `ReceiptFormats` |
| `Circuits` | the open and the predicate circuit, as relations on assignments |
| `...Proofs` | the theorems about a module; `StampBudgetProofs` has those about `StampPipeline` too |
| `MC...` | values of the constants and symmetry for TLC |

Three modules look at the stamp route from different distances.
`StampPipeline` has many requests at once and takes what one request does
inside as few steps; `CliBridge` opens up one request; `AnchorRead` opens up
the one call with which it reads the anchor back. `StampPanel` is the client of
that route and `VerifyPanel` that of the fetch route; both take the server as
it may answer. `Receipts` follows receipts across all tools and abstracts their
JSON, which `ReceiptFormats` has.

`StampBudget`. One action is one synchronous run of JavaScript between two
awaits. `pc[r]` says at which await request `r` stands: `waiting` for the
promise before it, `checking` what it read, `writing` the temporary file,
`renamed`, then `publishing` or `leaving` towards the `finally` that frees the
slot. `queue` is the chain of promises: a request appends itself before its
first await and only the head may go on. `Throw` is the shared exit of every
error under the lock. `file` holds one day because the code stores
`{ [dayKey]: ... }` and nothing else. `charged` and `grantDay` are history.

`StampPipeline`. `child[r]` is the anchor process, `op[r]` the wallet's
operation, `tx[r]` its transaction. A call that was posted may be taken at any
time after, also when the client has given up (the operations proxy forwards
for longer than the client waits), or never; its answer may be lost; a poll may
fail; the child may be killed (`cliTimeoutMs`); the server may restart and leave
the child running; the wallet may restart and forget its operations. Timeouts
are choices without a clock. The fetch is one step: it can only succeed when
the transaction has a height, and may fail for reasons of its own.

`UpstashBudget`. The store runs the four commands of a pipeline in order, other
pipelines in between; any command may fail alone (the answer is then an error,
the other commands stand), and a request may give up while its pipeline still
runs. A tick is half a second, so that rounding to whole seconds shows; a day
has three ticks, the clock is the same for all instances.

`RateLimit`. A bucket with count 0 is a missing one; time is an integer and a
window three ticks.

`CliBridge`. `pc` is the place of the handler, `leg` which of the route's CLI
runs is on (a stamp has two, anchor and fetch), `dir`, `child`, `code` and
`timer` what that run owns. A body is a number of bytes that arrive in chunks;
that it is no JSON object, or lacks what the route asks for, is a choice.
`config` says what the environment is like and is looked at by each run, after
the budget. Exit and close of a child are two events, because the timer may
fire between them. `CleanUp` is the `finally` block: it runs on every path, and
an error of its own takes the place of a result. The errors that can reach the
classifier are named by their messages, and `ClassifyError` has the patterns of
`error-kinds.ts` that one of them can match. Requests share nothing here.

`AnchorRead`. A call passes `zallet`, perhaps `proxy`, `client`, and perhaps
`fallback`; between any two the wallet may learn of a transaction, and blocks
are mined or reorganized away. `setup` is the installation: which zallet it is
(one that works, one that fails on binary memos, one that fails on every
transaction), whether the proxy is in between, whether the client may look
into the database. A txid is an integer and its bytes reversed its negation;
`MCAnchorRead` has two transactions that are each other's reversal, so that a
missing swap finds the wrong one. `window` (the heights the transaction had
during the call) and `faulty` (a message or a database failed) are history.

`Receipts`. Poseidon is taken to be injective and nonces to be fresh, so that a
field element *is* its opening `<<document, nonce>>`; what can differ is the
order of its 32 bytes in a text or memo, one Boolean. Each encoder and decoder
of the code is an operator of its own (`Repr`, `HexLe`, `ParseCommitment`,
`Memo`, `FetchText`, `RawHex`) and each check composes them as the code does.
`answer` holds what the last check said, so that properties can speak about
answers. A height given by hand (`--block-height`, the height of a predicate
witness) is any member of `Claims`.

`ReceiptFormats`. A JSON object is a record of those members that have the type
the code looks for, since every reader takes a member of another type for an
absent one. A hex text is a sequence of words of eight bytes, `-w` the word `w`
reversed, so that lengths, the `0x` prefix and the order of halves and bytes
show and digits do not. It has both commitment schemes and the three parsers
of an envelope.

`StampPanel`, `VerifyPanel`, `PredicatePanel`. `panel` is the state a component
renders. A handler is split at its awaits, and what it captured before them
(the draft, the parsed input, the file) is kept in its entry of `calls`;
disabled controls are the guard `Editable`. The effect that starts the progress
clock belongs to the click that sets the status. On the stamp page the server's
requests and anchors are modelled as far as the page's promises depend on them,
and leaving the page is an action: the handler of a page that was left may
still post, and nobody takes the answer. The pages share no state, so `Panels`
is a visit of any one of them.

`Circuits`. There is no machine here, and no variable: a circuit is the relation
that gates and copy constraints ask of the cells, `OpenSatisfied` and
`Satisfied`. An assignment has a value for every cell a prover may fill, those
of the intermediate hashes and of the gate's running sum (`acc`) included, so
that what is shown holds of every prover and not only of `synthesize`. Poseidon
is any operator, and a property says where two of its calls would have to
collide (`Collision`: at the same place of two paths, so that no collision is
hidden in a quantifier over everything). `Honest` is the assignment that
`synthesize` makes of the path that the tests' tree builder computes. The open
circuit's domain tag is one of the cells that the prover fills.

Definitions named `X_Something` and marked *Faulty* are variants of `X` with a
plausible mistake (a dropped guard, a swapped order, a release too early). No
specification uses them: put in the place of `X`, each makes one property fail,
which shows that the property looks at what the code does.

## 3. Runs

| Run | Instance | States | Shows |
|---|---|---|---|
| `stamp_budget_safety` | 5 requests, 3 clients, limits 2 / 1, 2 slots, one midnight | 85,750 (up to symmetry) | slots, exact counters, both limits, the day, refusals, and that the store implements `BudgetSpec` |
| `rate_limit` | 2 keys, 2 requests per window of 3 ticks, 7 ticks, buckets up to 3 | 224,313 | at most `2 * MaxRequests - 1` in less than a window; a refusal always has its cause in the last window |
| `pipeline_fair` | 2 requests, 2 slots, limit 1, 2 server and 1 wallet restarts, one midnight | 66,410 | one `z_sendmany` per charge and no more than the limit; every anchor process runs on a slot but for those that restarts left behind; every request that takes a slot is answered |
| `upstash_safety` | 2 requests, 2 clients, limits 1 / 1, days of 3 ticks, 4 ticks | 434,155 | counters last their day; what is granted was counted; the store implements `BudgetSpec` |
| `receipts` | 2 receipts, 2 documents, 3 blocks, 1 reorganized away | 963,603 (up to symmetry) | a match binds; no backdating; anchored and offered receipts verify |
| `panels` | 2 files, 2 stamps with 21 seconds of progress, 8 pasted texts, 2 receipt files, 2 posts | 427,074 | downloads verify; a lost opening has a cause; title, receipt and verdict belong together; page and route read the same; one submission at a time; openings stay local |
| `bridge` | each route and environment, bodies up to 3 bytes in chunks of 1 and 2 | 1,105 | nothing is left behind; success follows exit code 0; refusals come before any effect; every admitted request is answered |
| `anchor_read` | 2 transactions with reversed ids, 3 heights, 1 block reorganized away, all installations | 3,377,792 | an answer is true; a mined anchor is read |
| `publish_overlap` | 3 requests, 1 slot, no server restart | | violated: `OnePublishAtATime` |
| `fetch_too_early` | 2 requests | | violated: `CallersWaitForConfirmation` |
| `own_file` | as `receipts`, no block reorganized away | | violated: `OwnFileVerifies` |
| `predicate_binding` | as `own_file` | | violated: `PredicateBindingReported` |

The bounds are enough for what can go wrong. Five requests with limit 2 and two
slots let two requests of the old day return after midnight, two more fill the
new day and a fifth be refused; three clients with limit 1 let either limit bite
alone. A restart needs no bound in `StampBudget` (each ends at least one
request); in the pipeline two server restarts and one of the wallet allow a
child to be orphaned twice and a poll to find its operation gone. Four ticks of
a day of three cover a day, its midnight and a key whose minimal time to live
reaches past it. Two receipts suffice for a match across receipts, three blocks
and one reorganization for an anchor that moves to another height. A body limit
of three and chunks of two let a chunk end at the limit and pass it. Twenty-one
seconds reach both thresholds of the progress display; a second stamp replaces
the first. The texts of `MCPanels` are every form in which the programs write a
receipt and the ways in which the parsers could disagree about one (members of
two receipts in one envelope, a member that is no object, a prefix, a mixed up
hash). The outputs of `MCAnchorRead` put memos of other kinds before and after
the anchor's, in and out of the tables that are read. The circuits have no
states and no run of their own: the runs over `MCReceipts` evaluate two
assumptions of `MCCircuits`, in the field of five elements with two levels, the
least in which the sums of path bits do not wrap around. `HonestCheck` takes
every document over two values; `SmallFieldCheck` enumerates every pair of swap
rows that the gate accepts, for every index, fitting the path or not, and two
values, and asks for `OneValuePerField`. Over five elements a hash collides
often, so this shows little more than that the gates refuse what they should;
the theorems of `CircuitsProofs` have the field, the depth and the hash as
parameters. Symmetry is used for safety only; requests, clients, receipts and
documents are interchangeable and no property names one of them.

`receipts` and `panels` turn the deadlock check off because users may simply
stop, and `bridge` because one request ends. The other modules have an explicit
step for the end of their bounded clock, or, like `AnchorRead`, can always ask
again, so an unwanted standstill, such as a lock that nobody holds and nobody
gets, is reported.

**Fairness** is assumed in two places. In `pipeline_fair` each request that has
arrived and its CLI child keep taking the steps that are ready: the event loop
runs ready callbacks, the operating system runs the child, and the steps that
end a wait are justified by the code's own timeouts, the RPC client's, the
deadline of `poll_operation`, and `cliTimeoutMs` with its `SIGKILL`. In
`CliBridge` the handler goes on, an armed timer fires, and a process that is
gone closes its pipes; a child need not end by itself and a client need not send
its body, so `BridgeAnswers` rests on the timer alone. Nothing is assumed of
wallet and chain, and no fairness makes a client send a request, midnight come
or anything restart. Waits on the file system are assumed to end.

### What the violated runs found

* **Overlapping publishes** (`publish_overlap`). The concurrency limit bounds
  requests. When the `z_sendmany` answer is lost, a poll fails or the child is
  killed, the slot is freed while the wallet works on, and the next request
  publishes beside it; `docs/OPERATIONS.md` promises one publish at a time.
  What the limit does bound is the processes that publish (`PublishersHoldSlots`).
* **Fetch before confirmation** (`fetch_too_early`). The stamp route reads the
  anchor back at once, while it can only be in the mempool. The request then
  fails although budget and fee are spent, and the txid is not returned.
  `rpc/timestamp.rs` says callers wait for confirmation.
* **Byte order** (`own_file`, `predicate_binding`). The CLI writes a commitment
  most significant byte first, the browser least significant byte first. Each
  tool's receipts survive the chain, since both directions swap, but the browser
  calls the own file of a CLI receipt a mismatch, and the predicate route, which
  needs the CLI's order first and then compares in the other, never reports a
  match.

Reading the code for the models showed five more disagreements, which no run
states as a property:

* With Upstash, requests that are refused for their client, or whose pipeline
  failed, count against the day, because INCR comes before the judgement;
  `docs/OPERATIONS.md:44-46` speaks of anchors per day.
* `docs/RECEIPT_SCHEMA.md:57` says the height is filled in after the fetch; no
  CLI command writes it.
* `docs/ARCHITECTURE.md:19` says the public bridge receives no private openings;
  the predicate page posts the pasted receipt whole. `PrivateStaysLocal` names
  this page as its exception.
* A comment in `zallet.rs` says that `fetch_anchor` takes the first memo that
  parses; it takes the first memo of 512 bytes, so that a change output with a
  memo in front of the anchor makes it unreadable. `MinedAnchorIsRead` asks for
  the anchor's memo to be the first.
* `crates/circuit/src/timestamp.rs:3-5` says that the circuit proves a Poseidon
  preimage that begins with the domain tag. The tag is assigned as an advice
  cell and no constraint fixes its value, while the predicate circuit takes it
  from a constant. `CircuitsAgree` shows that the two meet in the tag when both
  are about one commitment; the open circuit alone says less than the comment.

## 4. Proofs

Each theorem holds for every value of the constants under the named assumptions
of the modules: finite sets of requests, positive limits and bounds, digests of
four words, a field without zero divisors that has room for the leaf indices,
and no more.

| Module | Theorem | States |
|---|---|---|
| `StampBudgetProofs` | `TypeCorrect` | `Spec => []TypeOK`; in particular the slot counter never goes below zero |
| | `SlotsCorrect` | `Spec => []SlotsMatchRequests` |
| | `MutualExclusion` | `Spec => []OneInCriticalSection` |
| | `DayNeverGoesBack` | `Spec => DayNeverReverts` |
| | `BudgetCorrect` | `Spec => []BudgetHolds` |
| | `FileCorrect` | `Spec => []FileCountsCharges` |
| | `RefusalsJustified` | `Spec => RefusedOnlyWhenSpent` |
| | `CalendarDay` | `Spec => []PublishesPerCalendarDay` |
| | `Refinement` | `Spec => ImplementsBudget` |
| | `PipelineIsBudgeted` | `PipeSpec => Spec` of `StampBudget` |
| | `PipeTypeCorrect` | `PipeSpec => []PipeTypeOK` |
| | `SpendingIsBudgeted` | `PipeSpec => []SpendWithinBudget` |
| | `ProcessesAreBounded` | `PipeSpec => []PublishersHoldSlots` |
| `UpstashBudgetProofs` | `TypeCorrect` | `Spec => []TypeOK` |
| | `CountersAreKept` | `Spec => []CountersLastTheDay` |
| | `GrantsCounted` | `Spec => []GrantsAreCounted` |
| | `GrantsAreLimited` | `Spec => []GrantsWithinLimits` |
| | `Refinement` | `Spec => ImplementsBudget` |
| `RateLimitProofs` | `TypeCorrect` | `Spec => []TypeOK` |
| | `BurstsAreBounded` | `Spec => []BurstsBounded` |
| | `RefusalsJustified` | `Spec => RefusedOnlyWhenBusy` |
| `CliBridgeProofs` | `TypeCorrect` | `Spec => []TypeOK` |
| | `NothingIsLeft` | `Spec => []NothingLeft` |
| | `OkAfterEveryRun` | `Spec => []OkMeansFinished` |
| | `RefusalsAreSafe` | `Spec => []RefusedHasNoEffect` |
| `AnchorReadProofs` | `TypeCorrect` | `Spec => []TypeOK` |
| | `AnswersAreTrue` | `Spec => []ReadsTheChain` |
| | `AnchorsAreRead` | `Spec => []MinedAnchorIsRead` |
| `ReceiptsProofs` | `TypeCorrect` | `Spec => []TypeOK` |
| | `OffersStand` | `Spec => []OfferedReceiptStands` |
| | `MatchesBind` | `Spec => []MatchBinds` |
| | `HeightsAreNotBackdated` | `Spec => []NoBackdating` |
| | `AnchoredVerify` | `Spec => []AnchoredReceiptVerifies` |
| `PanelsProofs` | `PageTypes` | `Spec => []TypeOK` |
| | `OneSubmission` | `Spec => []BusyMeansInFlight` |
| | `LossIsCaused` | `Spec => []LossHasCause` |
| | `PrivateIsKept` | `Spec => []PrivateStaysLocal` |
| | `ProgressAdvances` | `Spec => PhasesAdvance` |
| | `ReadersAgree` | `Spec => []SameExtraction` |
| | `ResultsCohere` | `Spec => []ShownTogether` |
| | `VerdictsAreSound` | `Spec => []VerdictSound` |
| | `OfferedFilesVerify` | `Spec => []DownloadsVerify` |
| `CircuitsProofs` | `SwapGateExact` | the swap gate asks for a Boolean bit and the pair in its order |
| | `PathIsIndex` | an index that satisfies the circuit is a leaf's, the path bits its digits |
| | `FieldsAreBound` | `OneValuePerField` |
| | `ClaimsAreBound` | a claim hash leaves one index and one value |
| | `CircuitsAgree` | open and predicate proofs of one commitment are about one document |
| | `HonestSatisfies` | for every document and field the honest assignment satisfies the circuit |
| | `ProofOpensDocument` | a proof about a document's commitment shows that document's field |

None of the state properties is inductive alone.

**StampBudget.** The argument is layered, each layer an invariant proved with
the help of those before it:

1. **Types and lock** (`Types`, `LockInv`). The queue holds exactly the requests
   that reserve, without duplicates, and whoever is past the lock is its head.
   Mutual exclusion follows at once. The type of `active` (a natural number)
   needs the next layer: it is in `Types` as an integer.
2. **Slots** (`SlotInv`). `active` is the number of requests inside, and a
   request inside is counted, so that subtracting one stays in `Nat`.
3. **Days** (`DayInv`). A request's day is not in the future, and the queue is
   ordered by day, because a request reads the day and appends itself in one
   synchronous run. So the head's day is the least of those waiting, the file's
   day is at most that, and a rename never moves the day back.
4. **Counts** (`ChargeInv`, `SnapInv`, `Limits`, `Counts`). Between its read and
   its rename the head's snapshot equals what the file will be asked to replace
   (plus one once it has counted), because no one else renames meanwhile. With
   layer 3 the charges of a day are complete when a newer day is first written,
   so that dropping the old day's counters loses nothing; the cardinality of the
   charged set and the stored count then move together (`RenameKeepsCounts`).
   Limits, exact counters and the justification of refusals follow.
5. **Midnight** (`LateInv`). The requests that arrived on an earlier day and may
   still return today, or did, were all inside at midnight, so that the slots
   bound them; until the next midnight nobody joins them. With `Limits` this
   bounds what starts on one calendar day.

The refinement takes a request's account to be its day and client once it is
charged. `Rename` is the abstract charge, whose guards follow from the snapshot
(layer 4); `Grant` is the abstract grant, and happens once; every other step,
midnight, errors and restarts included, leaves accounts and grants alone.

**StampPipeline.** Every step of the pipeline is a step of the budget or leaves
it alone (`StepIsBudgeted`), so that all of the above holds of the composed
system. `PipeInv` adds that a child exists only for a charged request and that
the wallet takes what it was asked at most once; with `Counts`, which bounds the
charges of a day, spending is bounded too. A process that runs belongs to a
request that is being served, which holds a slot (`ChildInv`), or is an orphan:
one whose request a restart of the server ended. A restart orphans some of the
requests inside, by `SlotInv` at most a limit's worth (`OrphanInv`); hence
`PublishersHoldSlots`.

**UpstashBudget.** A pipeline's time to live, rounded up, outlasts its day
(`TimeToLive`), so that a key expires after its day or never (`ExpiryInv`) and
its count is the number of requests counted on it (`CountInv`). The *takers* of
a key on a day are the requests that were counted on it in time and within its
limit; they are no more than the limit (`LimitInv`), because whoever takes is
the n-th to be counted for an n within it. What a pipeline is told is what it
was counted as (`ReplyInv`), so that whoever is granted took of both keys, and
the grants are bounded by the takers.

The refinement reads a request's account off its counts: its day and client once
it took of both keys. The abstract charge is therefore the second INCR, if both
counts are within their limits, and happens although its answer may be lost;
`LimitInv` after the step gives its guards. A pipeline that is refused took
nothing of the abstract budget, though its INCRs stand. A pipeline that runs
after midnight is granted by the counters of a day that is over and that nobody
reads any more; the mapping leaves such grants out, as `GrantsWithinLimits`
does.

**RateLimit.** `KeyInv` ties a bucket to the accepted requests since its first
one, at index `j`: as many as the bucket counts, unless it is full. All that is
`MaxRequests` or more before `j` is at least a window older than `j`, whence the
bound on bursts, and a bucket that refuses has just let `MaxRequests` through.

**CliBridge.** For each place of the handler the invariant says what exists
beside it: no directory or process before the first run (`Early`) or between two
(`Resources`), a directory and no process while files are written or removed,
both while the handler waits; and each run before the current one ended with 0
(`OnLeg`). A second run can only meet the environment the first one had
(`Configured`), so that a configuration error never follows a publish.

**AnchorRead.** What is on its way is an error, a view without a height, or a
view whose height the transaction had during the call and whose memos are its
own (`ReplyInv`); for the database this needs that reversing is injective. For
`AnchorsAreRead`, `ReadInv` adds which errors a reply may carry when the
transaction is mined and nothing failed: only the fetch bug, and never past the
last layer that can look into the database. The least element of a set of
indices is that of the library's well-founded induction (`MinIsLeast`).

**Receipts.** `RInv` says of each receipt that its text opens to its own
document and nonce, that its anchor's memo is that text swapped and its proof
that opening (`TextOk`, `AnchorOk`, `ProofOk`), and that a mined anchor is above
the tip at which the commitment was made, less the blocks reorganized away
(`HeightOk`). `AnswerInv` says what was true of both sides when an answer was
given. Swapping twice is the identity (`TextComesBack`), and equal texts have
equal openings, hence equal nonces and receipts: a match binds.

**Panels.** The types of the pages (`PageTypes`) need only the parsers: what a
parser accepts is a text that was on the page, a member of its JSON or a
normalised hex text, so that calls, results and downloads are made of such
members. Each page has its part of `Inv`. On the stamp page there is at most
one submission, the last one, and no result beside it (`StampInv`); what the
server has or published is waited for, held or ended (`LossInv`). On the verify
page every call was made from one parsed input and carries public members only
(`VerifyCall`), and a result comes from one call (`ResultOf`), so that what the
route reads out of the body is the receipt the page shows (`RouteReads`).
`ReadersAgree` compares the two parsers for every JSON value. For
`OfferedFilesVerify`, `FilesInv` adds that every file offered or downloaded is
one of the three the draft and its confirmed anchor determine, and that no later
step changes either (`FilesKept`); the parsers leave those files as they are
(`HalvesParse`), because the draft's texts have the lengths they ask for
(`DraftTexts`).

**Circuits.** Three facts about the field carry everything: a product is zero
only if a factor is, two cells whose difference is zero are equal, and the
weights up to `2 ^ TREE_DEPTH` fit. The first makes a path bit Boolean and the
swap exact (`SwapGateExact`); with the last the running sum stays below its
weight and never wraps, so that it *is* the index and the bits are its digits
(`Sums`, `PathIsIndex`). Two proofs of one commitment and one index then swap
alike at every level. Their roots are equal, since the commitments' calls are;
going down from the root, equal hashes have equal calls, or collide
(`SameHashes`), until the leaves' calls are equal and with them the values.
These are inductions over the levels, done by the least level that fails
(`LeastElement`, `Upwards`, `Downwards`). `HonestSatisfies` goes up the document's tree
instead and is what keeps the others from being hollow: for every document there
are satisfying assignments to speak about. `ProofOpensDocument` compares any
proof with the honest one.

**Only model-checked** are the two liveness properties, `EveryRequestAnswered`
and `BridgeAnswers`: liveness under fairness is out of this prover's reach, like
anything that needs `ENABLED`. That the tree a document's recursion builds is
the `IsTree` of the theorems is checked by TLC too (`HonestCheck`): induction
over data is not at hand in a proof. Of the violated properties nothing is to be
proved.

## 5. Assumptions and what is not modelled

* The server's clock does not step back, and all instances agree on the day.
* One process uses the file store, as `docs/OPERATIONS.md` requires; a rename is
  atomic, and a file that was renamed survives a restart of the process.
* A word of a hash is any integer but zero, which stands for the prefix `0x`; what
  the properties tell apart is where a word goes, not its digits.
* Poseidon and SHA-256 do not collide, nonces are fresh, proofs are sound. What
  the soundness of a proof means for a field of a document is `Circuits`, where
  Poseidon may collide and the theorems say where.
* The wallet takes a posted call at most once, and its database and its RPC
  agree on what they know.
* The CLI starts no process that could keep its pipes open.
* Circuits: the rows, columns and rotations of the layout, the inside of the
  Poseidon chip and halo2's argument that a proof implies a satisfying
  assignment are taken as given; `field_value` and `field_index` have no range
  checks beyond the composition gate, in the code as in the model. That the
  Pallas base field has no zero divisors is an assumption, the primality of its
  modulus.
* Prover and verifier crates: calls into halo2 without state of their own. The
  mock RPC is a test double of the wallet that the models have.
* The parsing of single configuration variables and of CLI arguments is
  stateless; what a complete, invalid or incomplete environment does is in
  `CliBridge`. The choice of a client's address from headers is data, as are
  white space and letter case in texts. The proxy's limits on the size of a
  request are left out.
* Locale, copy and styles have no state.

Three properties say what the code keeps and, in doing so, where it stops:
`LossHasCause` takes an error after the publish for a cause (the draft and its
nonce are gone, and no document promises otherwise), `PrivateStaysLocal` leaves
out the predicate page's own request, and `MinedAnchorIsRead` asks for no memo in
front of the anchor's. `PROJECT.json` lists what is beyond them as hazards
without a property.

`PROJECT.json` lists every component with its status and every hazard with its
properties.

## 6. Plan

1. The relation between `StampPipeline` and `CliBridge` as a refinement: one
   request of the pipeline implemented by one of the bridge.
2. What `CliBridge` promises its callers as an abstract specification that it
   implements.
