# FiberGuard Session in TLA+

TLA+ models, TLC model checking and TLAPS proofs of the FiberGuard Session
gateway, its clients and the node it fronts. Paths below are those of the
repository; `gateway/`, `policy/`, `shared/`, `sdk/` and `fiber-mock/` are
directories of `packages/`.

An application asks the gateway for a *session*, a scoped grant the node owner
may have to approve, and then sends *intents* (pay an invoice, create one, read
a payment of its own). The gateway decides each intent against the policy file
and the session, forwards what is allowed to a Fiber node over JSON-RPC, and
records spend, ownership, one-shot use and an audit event.

## 1. Inventory

| Component | State it keeps | Operations | Module |
| --- | --- | --- | --- |
| session store, `gateway/src/core/sessions/store.ts` | `session-requests.json`, `sessions.json`, a promise queue | create / approve / deny a request, create / revoke / mark used a session, unqueued reads | `SessionStore`, `SessionLifecycle` |
| policy file, `policy/src/load.ts`, `schema.ts` | the policy of the process | `parsePolicy` | `PolicyFile` |
| session request evaluation, `policy/src/session-eval.ts` | none (pure) | `evaluateSessionRequest` | `SessionGrant` |
| intent evaluation, `policy/src/intent-eval.ts` | none (pure) | `evaluateIntent` | `IntentDecision` |
| decision pipeline, `gateway/src/core/decision/pipeline.ts` | the locals of each call of `runIntent` | `runIntent`, `forward`, `blockedResult` | `IntentPipeline` |
| intent and read routes, `gateway/src/server/routes/intent.ts`, `read.ts` | none | malformed bodies, session lookup of a read, `runIntent` | `IntentPipeline` |
| spend ledger, `gateway/src/core/spend/ledger.ts` | `spend-ledger.json`, a queue | `spentToday`, `addSpend` | `IntentPipeline`, `FiberNode` |
| ownership index, `gateway/src/core/ownership/index.ts` | `payment-ownership.json`, a queue | `record`, `isOwnedBy` | `IntentPipeline`, `FiberNode` |
| Fiber client, `gateway/src/upstream/` | a request counter | one RPC per implemented action | `FiberNode`, `IntentPipeline` |
| mock node, `fiber-mock/src/` | invoices, payments, channels | `new_invoice`, `send_payment`, `get_payment` | `FiberNode` |
| amounts, `shared/src/amount.ts` | none (pure) | compare, add, format, base units | `Amounts` |
| audit log, `gateway/src/core/audit/`, `JsonLinesLog` | `audit.jsonl` | `record`, `query` | `AuditLog`; which events: `IntentPipeline`, `SessionRoutes` |
| document storage, `gateway/src/storage/json-store.ts` | JSON files, replaced by rename | `read`, `write`, `append`, `readAll` | `SessionStore`, `AuditLog` |
| session routes, `gateway/src/server/routes/session.ts` | none | one handler per endpoint | `SessionRoutes` |
| typed client, `sdk/src/` | status and id of each handle | request, wait for approval, intents, audit | `ApprovalFlow`, `AuditLog` |
| approval UI, `apps/approval-ui/` | state of the page | approve screen, operator console | `ApprovalFlow` |
| agent demo, `apps/agent-demo/` | state of the page | request, wait, pay | `ApprovalFlow` |
| process, `gateway/src/cli.ts`, `server/app.ts` | the data directory | start, restart | crash-and-restart actions |
| merchant and dashboard demos | state of the page | one call per button | not modelled |

**Interactions.** The routes run in one Node process. Handlers interleave at
every `await`; between two awaits a handler runs alone. They share the stores.
Every store serialises its *mutations* on its own promise chain and lets reads
pass unqueued. The pipeline holds no lock across a call: it reads the session,
the ownership or the day's total, decides, waits for the node, and then writes
to three stores and the audit log one after the other. The clients (page,
approve screen, console) talk to the gateway over HTTP and poll. A restart keeps
the files and loses everything else; the policy may be edited in between.

**What is hard here.** Several intents in flight that decide on the same
snapshot; a session revoked, expired or consumed while an intent waits; a
failure or a crash between the node's execution and the writes that account for
it; an approval that is two writes of two files; an answer of the node, or of
the gateway, that is lost; an approval that races the client's deadline; two
screens that decide one request; an audit line cut short; an intent that
straddles midnight; a policy edited under live sessions; amounts of different
scales. `PROJECT.json` lists these hazards at the lines where they bite, with
the properties that cover them.

**What makes each component correct.** The store: no lost update, acknowledged
changes last, an approved request names a session of its own, the whole looks
atomic. The policy engine: the documented order of checks, a grant never beyond
the policy and never less than it says, a blocked intent stays blocked. The
pipeline: only own payments are read, owners never change, the ledger never
claims what was not executed, limits and one-shot sessions hold, the audit log
tells the truth, every call ends. The routes: one event per decision, no answer
that is not true of the store. The client: an approval is not missed, every
wait ends. The log: bounded loss, causal order. Node and amounts: an invoice
stays its creator's, no digit is lost.

## 2. Modules

| Modules | Model | Checked by | Proofs |
| --- | --- | --- | --- |
| `SessionLifecycle` | the atomic view of the session documents | `ImplementsLifecycle` | |
| `SessionStore` | the store's queue, reads and writes of documents | `MCSessionStore` | `SessionStoreProofs` |
| `PolicyFile`, `SessionGrant`, `IntentDecision` | the pure functions of the policy engine | through `PolicyEngine` | `PolicyProofs` |
| `PolicyEngine` (extends the three) | from a policy file to the decisions on a granted session | `MCPolicy` | `PolicyProofs` |
| `IntentPipeline` (extends `IntentDecision`) | `runIntent` and the stores | `MCIntentPipeline` | `IntentPipelineProofs`, `SpendingProofs` |
| `SessionRoutes` (instance of `SessionLifecycle`) | the session endpoints over HTTP | through `ApprovalFlow` | |
| `ApprovalFlow` (extends `SessionRoutes`) | client, approve screen, console | `MCApprovalFlow` | `ApprovalFlowProofs` |
| `AuditLog` | the file, its writer, its reader | `MCAuditLog` | `AuditLogProofs` |
| `Amounts` | decimal strings, digit by digit | through `FiberNode` | `FiberNodeProofs` |
| `FiberNode` (extends `Amounts`) | invoices and payments from one session to another | `MCFiberNode` | `FiberNodeProofs` |
| `DataLemmas` | no code: induction, recursion, minima and sums for the proofs | | proves itself |

### SessionLifecycle and SessionStore

`SessionLifecycle` is the promise: requests and sessions as two functions, each
operation one atomic step. An approval resolves the request and opens its
session at once.

`SessionStore` is the code. A handler `Submit`s an operation on the promise
chain (`queue`); the operation at the head runs. Each awaited read or write of a
document is a step: an operation reads a document into its own copy
(`requestsCopy`, `sessionsCopy`), changes the copy and writes it back whole.
`BeginApproval` reads the requests, `InsertSession` and `WriteSessions` are the
nested session insert, `WriteRequests` ends the operation. `StorageFails`
rejects the running operation and lets the chain go on; a write that fails
leaves the document as it was because the temporary file is never renamed.
`CrashAndRestart` clears the chain and keeps the documents. What a session
grants is left out here, since no operation of the store looks at it.

A read and the computation on what was read form one step. Nothing else in the
process can depend on the moment in between: the operation works on local data
until its next await.

The refinement maps a session that names a request to *absent* until the
request names it back. The two writes of an approval are session first, request
second, so the atomic approval takes place at the second write, and a session
left behind by a fault between the two does not exist in the atomic view.

### PolicyFile, SessionGrant, IntentDecision, PolicyEngine

`PolicyFile` has the checks of `parsePolicy` that relate fields to each other
(two rules for one action, an action allowed and denied, an asset nobody
declared) and what the evaluations, which look rules up with `find`, see of a
file. `SessionGrant` has the loop of `evaluateSessionRequest`, one step per
requested entry. `IntentDecision` has `evaluateIntent`, check by check and in
the code's order, and `effectiveStatus`. An amount is a natural number here;
totals too long for the parser are those above `MaxAmount`, for which the
comparison throws (`Thrown`).

`PolicyEngine` composes them: a file is loaded, a request is evaluated, the grant
becomes a session, and an intent is tried on it while time passes, spending
goes on, the session is revoked or used and the policy edited.

### IntentPipeline

One instance of `runIntent` per call, with a program counter: `lookup` (a read
route looks its session up), `arrived` (the clock has been read), `loaded`
(session read), then the decision with the ownership or total read last,
`forwarding`, `executed` (the node has done it, the answer is on its way),
`addSpend`, `recordOwner`, `markUsed`, `auditAllowed` or `auditBlocked`, and one
of `answered`, `failed` (the promise was rejected), `crashed`. `settled` and
`performed` are what the node has done; they are not state of the gateway and
exist so that properties can speak of it; `late` in a call's locals is history
too. Each store operation is one step; that this is sound for the session store
is the theorem `StoreImplementsLifecycle`, and the ledger and the ownership
index use the same chain over one document each.

The owner opens and revokes sessions at any time, the clock ticks at any time.
A session counts as opened when its approval is written. Bodies that do not
parse get no further than `RejectMalformed`, which audits them.

Revocation is checked where the code checks it: an intent that has read its
session before the revocation was written still executes. That is the code's
behaviour and no document of the repository denies it, so
`RevokedSessionsStayOut` speaks of calls that begin after the revocation.

### SessionRoutes and ApprovalFlow

`SessionRoutes` is a set of HTTP calls under way (`calls`): each is `sent`, has
its audit event due (`auditing`) or is `answered`. A handler does one operation
of the store, in its atomic view, then records the event, then answers; handlers
interleave between these. Faults: a store operation that rejects (500), an
append that fails (swallowed), a connection that breaks before or after the
gateway got the request, a crash. `audit` counts each event up to two.

`ApprovalFlow` adds the clients. The page requests sessions and pays; each
pending handle polls (`GetPoll`, `PollAgain`) until the request is resolved, its
deadline has passed at a poll, or `fetch` rejects. The approve screen loads a
request and decides it. The console acts on rows of lists that may be stale: a
row names anything that exists or existed. Clients take one answer at a time.
Buttons that stay busy because a call is not in a `try` block are the states
`stuck`; the code has no way out of them but a reload.

### AuditLog

The file is a sequence of lines, a line a sequence of pieces; an append that is
cut short leaves nothing, a part of its entry, or the entry without its
newline, and the next append continues the line. The reader takes the lines
that hold exactly one whole entry. A query selects, reverses and cuts. `Select`
picks the elements at a set of places by a recursive function; the provers have
no definition of the library's `SelectSeq`.

### Amounts and FiberNode

`Amounts` has a decimal string as its digits and its number of decimals, so that
`"0.50"` and `"0.5"` differ as in the code. `FiberNode` has a merchant whose
session creates invoices and a payer whose session pays them (or others), the
node's maps of invoices and payments, the ledger's decimal totals and the
ownership index. Addresses and hashes are random in the code; here the next
free one is taken. The rest of the policy is left to `IntentPipeline`. The mock
node takes any amount for an invoice it knows, as `sendPayment` does.

## 3. Runs

Every property has a mutant, a plausible slip in the code that TLC finds under
the run's own configuration. State counts are TLC's distinct states, times with
two workers.

| Run | Instance | States, time | Shows |
| --- | --- | --- | --- |
| `store` | 2 handlers, 2 requests, 2 sessions, 1 fault; symmetric ids | 311,000, 2 min | lost updates, durability, linked sessions, forward-only steps, the refinement, and the inductive invariant of the proofs |
| `store_liveness` | 2 handlers, 1 request, 1 session, 2 faults, fair | small | every store call settles, also behind a failed one |
| `policy` | 5 policy files (three of them refused), all requests of one or two of 48 entries; every intent on the sessions of three of them; clock 0..2, spent 0..3 | 44,000, 7 s | the grant against the policy, the documented table, agreement with the displayed status, rule order, blocked stays blocked |
| `pipeline_faults` | 2 calls in flight, 6 intents, 1 fault, two days, policy edited on restart; two sessions, two hashes | 4.0 million, 2.5 min | ownership, accounting, audit, revocation, current policy, the inductive invariant |
| `pipeline_sequential` | 3 calls, one at a time, no fault, totals up to 4 readable, fair | 613,000, 2.2 min | daily limit, one-shot, one audit event: what the checks give when nothing overlaps; every call ends |
| `approval` | 1 handle, 1 pending request, 2 sessions, 2 calls at a time, 1 fault, 2 clock values, fair | 155,000, 45 s | store, audit log, screens and handles agree; approvals are seen; waits end; the inductive invariant |
| `audit_log` | 4 events of 2 apps and none, 2 cuts | 115,000 | bounded loss, causal order, limits |
| `node` | 3 calls, 2 at a time, 1 fault; 5 amounts of scales 0 to 3 | 305,000, 15 s | node, ledger, index and callers agree; the inductive invariant |
| `store_orphan`, `overspend`, `one_shot_race`, `unaudited` | as above | | disagreements of code and documents (section 6) |

**Bounds.** Two handlers (or calls) are enough for a stale copy or snapshot:
one reads, the other writes. Two ids let an update touch a record next to the
one another operation changes. One fault suffices to cut an operation at any
point; the second one in `store_liveness` fails two operations in a row, the
second cut in `audit_log` leaves two pieces in one line. Three sequential calls
let a third one meet the total of two; with `MaxAmount = 4` a session without a
daily limit brings a total to where it cannot be read any more. Three calls of `node` are an invoice, its
payment and a read (or two payments of one invoice). Two clock values give two
days, an expiry and a session that outlives midnight, and a client that sleeps
to its deadline. In `approval`, one handle is enough for its races, as handles
share nothing but the store; its request is decided by two screens, and the
second session is opened without approval. Two entries in a request are one
repetition. The bounds are the constants `MaxFaults`, `MaxCuts`, `MaxTime`,
`MaxInFlight`, `MaxSpent`, the sets of ids and calls, `OpenedRequests`,
`IdsSuffice` (an operation that draws a fresh id starts only while one is left;
the code draws random ids that do not run out), and the audit counter, which
stops at two. `MaxInFlight` limits what people start in `approval`, not what
their clients send by themselves. Symmetry is used in runs without liveness
only.

Deadlock is checked for the store, whose handlers may always call again. It is
not for the other modules: their behaviours end when the bounded calls, events
and the clock are used up, or when nobody clicks any more.

**Fairness.** `store_liveness` assumes weak fairness of the running operation:
Node runs the promise chain, and a file operation completes or fails.
`pipeline_sequential` assumes weak fairness of each call's gateway steps, and of
the node's steps for each call. The second is an assumption on the node:
`JsonRpcClient.call` has no timeout, and with a node that accepts a connection
and never answers the call stays open. `approval` assumes weak fairness of the
clock, of the clients' own steps (taking an answer, a timer that has run out)
and of the handlers; nobody has to click, and no fault has to happen.
`ApprovalBeforeLastPollIsSeen` is about the time after the last fault: a broken
connection does end a wait.

## 4. Proofs

Nothing is assumed but the named assumptions on the constants, which TLC
evaluates in the runs. Every proof has the same frame: an inductive invariant,
one lemma per action, and the properties as its consequences. `StoreInv`,
`PipelineInv`, `FlowInv` and `NodeInv` are also invariants of runs.
`SequentialInv`, `GrantInv`, `AttemptInv`, `SpendInv` and `LogInv` exist for the
proofs only; TLC finds them invariant when they are added to
`MCPipelineSequential.cfg`, `MCPolicy.cfg`, `MCFiberNode.cfg` and
`MCAuditLog.cfg`.

**`SessionStoreProofs`**, for every set of handlers and ids and every number of
faults (`StoreAssumption`: finite id sets, two "none" values that are no ids):

- `StoreInvariant`: `Spec => []StoreInv`;
- `NoUpdateIsLost` and `ApprovedRequestsHaveSessions`, two of its parts;
- `OnlyForwardSteps`: no step un-revokes, un-consumes or removes a session or
  resolves a request twice;
- `AcknowledgementsLast`: what a handler was told is done stays done;
- `StoreImplementsLifecycle`: the store implements the atomic lifecycle.

`NoLostUpdate` alone is not inductive: another operation could write between
the read and the write. `OneOperationRuns` (only the head of the chain has
begun) excludes it, and one lemma (`OthersWait`) says that while the head runs
every other handler is idle or queued. `OperationsAreSound` says that the record
an operation found is still in the state it was found in. The refinement uses
the same invariant: each action is matched with the atomic action it completes,
or with a stutter. `AcknowledgementsLast` adds that a handler that holds an
acknowledgement is idle (`AcksHold`), so the ids it was given cannot change
under it; what was promised is kept because steps only move forward.

**`IntentPipelineProofs`**, for every number of calls, intents, sessions,
hashes, policies and faults (`PipelineAssumption`: what the routes pass on):

- `AllowedIntentPasses`: what `evaluateIntent` allows is allowed and not denied
  by the policy, on a session neither revoked nor consumed, and no foreign read;
- `PipelineInvariant`: `Spec => []PipelineInv`;
- `NoForeignPaymentIsRead`, `EveryOwnerHasEarnedIt`, `AuditIsTrue`,
  `RevocationHolds`: safety properties of the run;
- `PolicyIsObeyed`: an action property; the node executes only what the policy
  of the running process allows;
- `FirstWriterWins`: an owner in the index never changes.

Each property fails to be inductive for a reason of its own. A call acts on a
snapshot, so `DecisionsAreCurrent` says that what a call about to be forwarded
was allowed by still holds (the policy changes only with the process, owners
never change), and `LateCallsStayOut` follows a call from before its lookup to
its decision. `EventsAreDue` says of each program point after execution what
its event will claim: charged, owned, consumed. `SessionsAreKept` makes the
session that is to be marked used exist. Two lemmas carry most steps:
`NothingIsTakenBack` (totals grow, owners and used marks stay) and
`ExecutedCallsKeep` (an executed call keeps its locals). Every conjunct meets
every action, which makes the module long.

**`SpendingProofs`**, about money, one-shot sessions and the number of events.
For any number of calls in flight:

- `LedgerNeverOverclaims`: the ledger, with what executed calls have still to
  charge, never claims more than the node has settled, and exactly as much
  without faults as long as the total parses. The sum over the calls that have
  still to charge changes by one call a step (`LedgerMoves`);
- `EveryDecisionHasOneEvent`: without faults, one event per answered call, and a
  call fails only over a total too long to parse.

For one call at a time (`MaxInFlight = 1`), which is what the documents describe
and all the code can promise (section 6):

- `SequentialInvariant`: `Spec => []SequentialInv`. What a call was decided on is
  still so when it is forwarded: the total (`LimitsAreCurrent`), the use of its
  session (`UseIsCurrent`);
- `SequentialCallsKeepTheLimit`: `DailyLimitHolds` without faults;
- `OneShotSessionsExecuteOnce`: `OneShotExecutesOnce` until a fault or a total
  that is too long comes between an execution and its record (`Undisturbed`).

**`PolicyProofs`**, for all policies, requests of any length and intents
(`GrantAssumption`: limits and durations as the schemas let them through;
`SessionAssumption`: "no session" is no session; `EngineAssumption`: policies are
those `parsePolicy` loads, `PolicyFiles` and `Intents` are well-formed):

- `GrantInvariant` and from it `RequestsAreGrantedAsAWhole`, `StrictestTermsWin`:
  the loop of `evaluateSessionRequest`, by induction on its steps;
- `EngineEvaluatesRequests`: `PolicyEngine` implements `SessionGrant`, so that
  the theorems of the loop hold of it;
- `GrantsStayWithinPolicy`, `GrantsAreUsable`: composed with `evaluateIntent`, a
  grant allows no more than the app's rules and no less than it says. Both rest
  on `AllowedExactly`, which says when an intent on a fresh session is allowed,
  and on the loop granting one permission for an action and an asset;
- `AttemptInvariant`, `RetryingDoesNotHelp`: a blocked intent stays blocked;
  `VerdictAllows` writes an allowed verdict as a conjunction, no part of which a
  step can make true;
- `DecisionsFollowTheTable`: `evaluateIntent` is the documented table
  (`RowMeanings`, `FirstFailingRow`), where an evaluation throws only if a row
  would have stopped it;
- `StatusTellsTheDecision`: the displayed status and the decision agree;
- `RuleOrderDecidesNothing`, `RulesMayBeReordered`: files that differ in the order
  of an app's rules load alike, since no action has two rules (`FindsTheRule`).

**`ApprovalFlowProofs`**, for every number of handles, requests, sessions,
faults and calls at a time (`RoutesAssumption`, `CallersAssumption`: the
clients are distinct):

- `FlowInvariant`: `Spec => []FlowInv`;
- `AuditFollowsStore`: an event in the log is true and there once;
- `QuietStoreIsAudited`: without faults, what was decided is in the log when
  nothing is under way;
- `ScreensAreTrue`: what handles and the approve screen say was done.

`AuditMatchesStore` needs the calls whose event is still due (`DueTo`):
`EventsFollowDecisions` gives each decision one event, due or recorded but not
both. `AnswersAreTrue` says of the answers under way what the screens will say,
and `OneCallEach`, `CallsAreExpected` and `HandlesAreSound` tie an answer to the
client that waits for it. Every handler is one of three kinds of steps
(a decision, an answer, an event recorded), each with its lemma.

**`AuditLogProofs`**, for any number of events, apps and cuts
(`AppsAssumption`: "no filter" is no app; `EventsAssumption`, `LimitAssumption`):

- `LogInvariant`: `Spec => []LogInv`;
- `CutsCostOneEventEach`: at most one recorded event is lost per cut;
- `AuditFollowsCausality`: what had returned before is listed before, whatever
  the clock said;
- `AppsGetTheirNewestEvents`: filter, order and limit of a query;
- `SeenEventsStay`: what was listed stays listed (an action property).

The count of lost events is not inductive: a piece left in the last line has
cost nothing yet and will cost the next event, so `LossIsPaidFor` counts such a
line as spent. `SelectionIs` says of the reader, for a file of any length, that
it lists the selected lines each once and in their order; everything said of a
query follows from that.

**`FiberNodeProofs`**, for every number of calls, invoices, hashes and faults
and all amounts, caps and limits (`NodeAssumption`: names are distinct;
`RequestsAssumption`, `LimitsAssumption`: amounts as `parse` yields them, an
asset's decimals as the schema admits them):

- `AdditionIsExact`: `addAmounts` loses no digit, though it drops zeros at the
  end; `ComparisonIsExact`: `compareAmounts` compares values;
- `NodeInvariant`: `Spec => []NodeInv`;
- `InvoicesStayOwned`: an invoice that left the gateway is its creator's;
- `SuccessesAreSettled`: an answer of success is backed by a settled payment;
- `SpendInvariant`, `LedgerCountsBaseUnits`: the decimal total of the ledger is
  the sum of the base units the node was sent;
- `NodeNeverGetsMoreThanTheCap`: a payment's base units are within its cap.

`InvoicesStayOwned` and `SuccessesAreSettled` need to know where owners come
from: `OwnersAreRightful` says the merchant owns only hashes of invoices and the
payer only hashes of payments that belong to none, `ExecutionIsSound` what an
executed call left at the node, `PaymentsAreMade` that a settled payment was
sent by some call. The theorems on amounts rest on `TenToOfSum`,
`FormattingKeepsTheValue` and `RescalingTwice`.

**Induction over data.** The library's induction theorems take an operator as a
parameter, which the provers cannot instantiate. `DataLemmas` has them once
more with the property given as the set of what has it, from the
well-foundedness of "less than" and of strict inclusion: `InductionOverNat`,
`SubsetInduction`, and `RecursionOverNat` for functions defined by primitive
recursion. Powers of ten, sums over sets of calls, minima of sets of expiries
and the reader's selection from a sequence are proved about with these.

**What the proofs changed.** An attempt that failed showed what a property had
left out. `LedgerLagsByCallsInFlight` and `ExactlyOneAuditEvent` did not allow
for totals too long to parse (section 6), nor `LedgerIsExact`, which now speaks of
totals that parse. `CapHoldsInBaseUnits` was stated with the cap in base units,
which has no meaning for a cap finer than its asset. `StatusAgreesWithDecision`
needs the app and its origin to be in the policy still: an edited policy turns
the intent away before the session's state is looked at. `Grant` lacked the
check of the caller as a guard; in the code the check comes first, which only
matters for a request without entries, and those the schema refuses.

**Only model-checked.** Liveness (`EveryCallSettles`, `EveryCallEnds`,
`ApprovalBeforeLastPollIsSeen`, `EveryWaitEnds`), which needs fairness and
`ENABLED`. Every other property of a passing run is a theorem. Those of
`pipeline_sequential` have the hypotheses named above: `DailyLimitHolds` and
`OneShotExecutesOnce` are false of calls that overlap.

## 5. What could come next

The ledger's and the ownership index's own queue refined to the one step they
are in `IntentPipeline`, and `IntentPipeline`'s session steps bound to
`SessionLifecycle` by an instance instead of by the argument above. Leads-to
properties reduced to their safety parts. Pure functions stay free of
`RECURSIVE` so that they can be used in proofs.

## 6. Where code and documents differ

- **`overspend`** The daily limit is read before the RPC and charged after it;
  intents in flight together pass a limit that only one of them fits. One after
  the other, without faults, the limit holds (`pipeline_sequential`). It is also
  exceeded by single calls after a crash, a failed write or a lost answer
  between execution and charge, since nothing is reserved beforehand (the same
  property fails with `MaxInFlight = 1` and `MaxFaults = 1`).
- **`one_shot_race`** A one-shot session is consumed after the forward; intents
  in flight together both use it.
- **`unaudited`** A store write that fails after the forward rejects the call:
  the node has executed the intent and no audit event exists.
- **`store_orphan`** A fault between the two writes of an approval leaves an
  active session; the request is still pending and may be denied.

Noticed while modelling, without a run of their own:

- `docs/policy-model.md` has a row `APPROVAL_REQUIRED` among the checks of an
  intent. `evaluateIntent` has no such check, and the gateway never passes it a
  pending session (`toSnapshot`), so the row `SESSION_PENDING_APPROVAL` is
  reached only by a direct caller.
- A 39-digit amount whose sum with the day's total has 40 digits makes
  `evaluateIntent` throw (`intent-eval.ts:146`) outside the `try`: an internal
  error without an audit event. `FollowsDocumentedOrder` and
  `ExactlyOneAuditEvent` allow for it. Under a permission without a daily limit
  the total is not compared with anything and may grow beyond 39 digits; then
  `addSpend` throws for the rest of the day, after the node has executed the
  intent, which is neither charged nor audited, and leaves a one-shot session
  unconsumed. This is why the ledger's and the one-shot theorems speak of totals
  that parse.
- A cap may have more decimals than its asset. `CapHoldsInBaseUnits` therefore
  compares cross-multiplied; an amount that fine is refused by `toBaseUnits`
  after it was allowed.
- `getCurrentSession` (`sdk/src/index.ts`) returns an approved handle for any
  session the gateway knows, whatever `status` the body has; its comment speaks
  of an active handle. The gateway blocks the intents of such a handle.
- `json-store.ts` speaks of a trailing partial line that is skipped. After a
  restart the next event is appended to that line and is skipped with it;
  `LossIsBoundedByCuts` says that this is all that is lost.
- With an empty `assets` section `parsePolicy` checks no asset: a rule may grant
  one that is not declared, and its intents are allowed and then fail upstream.
- The mock node takes any amount for an invoice it knows.

## 7. Not modelled

HTTP framing, CORS, the command line and its messages; the text of replies and
of audit details; the encoding of RPC parameters; YAML and the shape of single
fields (zod); the notation of durations; `mapping.ts`, which renames fields;
`getCurrentSession`, `node_info`, `list_channels` and the list endpoints, which
read and keep nothing; malformed bodies of approve, deny and revoke, which
answer 400 and change nothing; the merchant and dashboard pages, which send one call
per button and show the reply; the testnet scripts. These are I/O or
presentation and keep no state that the properties speak of. Two gateways on one
data directory are outside the design of the code. Except in `AuditLog`, the
clock never goes back.
