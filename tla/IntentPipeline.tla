--------------------------- MODULE IntentPipeline ---------------------------
(***************************************************************************)
(* The gateway's decision pipeline: runIntent                              *)
(* (packages/gateway/src/core/decision/pipeline.ts) with the session       *)
(* documents, the spend ledger, the ownership index, the audit log and the *)
(* Fiber node it works on.                                                 *)
(*                                                                         *)
(* The gateway is one Node process.  Several calls of runIntent are in     *)
(* flight at a time and interleave at every await, so each await is a step *)
(* here and everything between two of them is one step.  What a call has   *)
(* read (the session snapshot, today's total, the ownership) may be stale  *)
(* when it is used.  The stores serialise their own updates, so one update *)
(* is one step (module SessionStore shows it for the sessions); crashes    *)
(* and storage failures fall between two of them.                          *)
(***************************************************************************)
EXTENDS Naturals, Sequences, FiniteSets, FiniteSetsExt, IntentDecision

CONSTANTS
    Calls,        \* calls of runIntent in one behaviour
    Intents,      \* the intents the applications send
    SessionIds,
    Terms,        \* what each session is opened with, and for how long
    Policies,     \* the policies the gateway may be started with
    Hashes,       \* payment hashes the node hands out
    NoHash,       \* a call without one, or an invoice answer that omits it
    NoSession,    \* an unowned hash
    MaxEncodable, \* largest amount that fits u128 base units
    DayLength,    \* clock ticks in one UTC day
    MaxTime,      \* bound: the clock
    MaxInFlight,  \* bound: calls in flight at one time
    MaxFaults     \* bound: crashes, storage failures and lost answers

VARIABLES
    now,       \* the clock
    policy,    \* the policy of this run of the process (PipelineContext)
    sessions,  \* sessions.json
    ledger,    \* spend-ledger.json
    owner,     \* payment-ownership.json: the session that owns a hash
    audit,     \* audit.jsonl: the events of each call
    pc,        \* where each call stands
    call,      \* the local variables of each call; "late" is history: the
               \* revocation of its session was written before the call began
    settled,   \* what the node has executed, in the ledger's buckets
    performed, \* calls whose RPC the node has executed
    faults     \* faults so far

stores == <<sessions, ledger, owner>>
node   == <<settled, performed>>
vars   == <<now, policy, stores, audit, pc, call, node, faults>>

-----------------------------------------------------------------------------
SpendingActions == {"payment.pay_invoice", "invoice.create"}

\* Actions forward() maps to an RPC of the node.
ImplementedActions ==
    SpendingActions \cup {"payment.read_own", "node.read", "channels.read_summary"}

Day(time) == time \div DayLength

\* The ledger's key: app, action, asset and UTC day of the call's own `now`.
BucketOf(intent, time) == <<intent.app, intent.action, intent.asset, Day(time)>>

Buckets == {BucketOf(i, t) : i \in {j \in Intents : j.action \in SpendingActions},
                             t \in 0..MaxTime}

\* What changes in a stored session; "absent" is no session.  What it was
\* opened with does not change and stays in Terms.
Session == [status : {"absent", "active", "revoked"}, used : BOOLEAN, expiresAt : Nat]

AbsentSession == [status |-> "absent", used |-> FALSE, expiresAt |-> 0]

NewSession(s) == [status |-> "active", used |-> FALSE, expiresAt |-> now + Terms[s].lifetime]

\* Mutant: the snapshot does not carry the consumption of the session.
toSnapshot_Unused(s, session) ==
    [app          |-> Terms[s].app,
     origin       |-> Terms[s].origin,
     status       |-> IF session.status = "revoked" THEN "revoked" ELSE "active",
     approvalType |-> Terms[s].approvalType,
     used         |-> FALSE,
     expiresAt    |-> session.expiresAt,
     permissions  |-> Terms[s].permissions]

\* Mutant: the snapshot does not carry the revocation of the session.
toSnapshot_Active(s, session) ==
    [app          |-> Terms[s].app,
     origin       |-> Terms[s].origin,
     status       |-> "active",
     approvalType |-> Terms[s].approvalType,
     used         |-> session.used,
     expiresAt    |-> session.expiresAt,
     permissions  |-> Terms[s].permissions]

\* The session as the policy sees it.
toSnapshot(s, session) ==
    [app          |-> Terms[s].app,
     origin       |-> Terms[s].origin,
     status       |-> IF session.status = "revoked" THEN "revoked" ELSE "active",
     approvalType |-> Terms[s].approvalType,
     used         |-> session.used,
     expiresAt    |-> session.expiresAt,
     permissions  |-> Terms[s].permissions]

Steps == {"idle", "lookup", "arrived", "loaded", "forwarding", "executed", "addSpend",
          "recordOwner", "markUsed", "auditAllowed", "auditBlocked",
          "answered", "failed", "crashed"}

\* Steps at which the process still has work to do for the call.
InFlight == {c \in Calls : pc[c] \notin {"idle", "answered", "failed", "crashed"}}

AuditEvent == [event  : {"intent_allowed", "intent_blocked", "session_expired"},
               reason : BlockReasons \cup {"WITHIN_POLICY", "UPSTREAM_FIBER_ERROR"}]

Hash == Hashes \cup {NoHash}

Call == [intent  : Intents \cup {Undefined},
         at      : 0..MaxTime,
         session : Session \cup {Undefined},
         reason  : BlockReasons \cup {"none", "WITHIN_POLICY", "UPSTREAM_FIBER_ERROR",
                                     "InvalidAmountError"},
         hash    : Hash,
         late    : BOOLEAN]

\* The routes hand over an asset and an amount with the spending actions, no
\* amount with any other, and a payment hash with payment.read_own.
ASSUME PipelineAssumption ==
    /\ \A i \in Intents :
         /\ i.session \in SessionIds
         /\ i.hash \in Hash
         /\ i.action = "payment.read_own" => i.hash \in Hashes
         /\ i.action \in SpendingActions => i.asset # Undefined /\ i.amount \in Nat
         /\ i.action \notin SpendingActions => i.amount = Undefined
    /\ \A s \in SessionIds :
         /\ Terms[s].lifetime \in Nat
         /\ \A p \in Terms[s].permissions : p.dailyLimit \in Nat \cup {Undefined}
    /\ NoHash \notin Hashes /\ NoSession \notin SessionIds
    /\ MaxTime \in Nat /\ MaxFaults \in Nat

TypeOK ==
    /\ now \in 0..MaxTime
    /\ policy \in Policies
    /\ sessions \in [SessionIds -> Session]
    /\ ledger \in [Buckets -> Nat]
    /\ owner \in [Hashes -> SessionIds \cup {NoSession}]
    /\ audit \in [Calls -> Seq(AuditEvent)]
    /\ pc \in [Calls -> Steps]
    /\ call \in [Calls -> Call]
    /\ settled \in [Buckets -> Nat]
    /\ performed \subseteq Calls /\ IsFiniteSet(performed)
    /\ faults \in 0..MaxFaults

-----------------------------------------------------------------------------
NoCall == [intent |-> Undefined, at |-> 0, session |-> Undefined,
           reason |-> "none", hash |-> NoHash, late |-> FALSE]

Init ==
    /\ now = 0
    /\ policy \in Policies
    /\ sessions = [s \in SessionIds |-> AbsentSession]
    /\ ledger = [b \in Buckets |-> 0]
    /\ owner = [h \in Hashes |-> NoSession]
    /\ audit = [c \in Calls |-> <<>>]
    /\ pc = [c \in Calls |-> "idle"]
    /\ call = [c \in Calls |-> NoCall]
    /\ settled = [b \in Buckets |-> 0]
    /\ performed = {}
    /\ faults = 0

-----------------------------------------------------------------------------
(* The owner, the clock and the store operations other routes start *)

\* createSession or an approval; expires_at counts from the approval.
OpenSession(s) ==
    /\ sessions[s].status = "absent"
    /\ sessions' = [sessions EXCEPT ![s] = NewSession(s)]
    /\ UNCHANGED <<now, policy, ledger, owner, audit, pc, call, node, faults>>

RevokeSession(s) ==
    /\ sessions[s].status = "active"
    /\ sessions' = [sessions EXCEPT ![s].status = "revoked"]
    /\ UNCHANGED <<now, policy, ledger, owner, audit, pc, call, node, faults>>

Tick ==
    /\ now < MaxTime
    /\ now' = now + 1
    /\ UNCHANGED <<policy, stores, audit, pc, call, node, faults>>

-----------------------------------------------------------------------------
(* One call, up to its decision *)

Goto(c, step) == pc' = [pc EXCEPT ![c] = step]

\* Calls are alike, and it does not matter which idle one comes next.
NextCall ==
    LET idle == {c \in Calls : pc[c] = "idle"} IN
      IF Cardinality(InFlight) < MaxInFlight /\ idle # {} THEN {CHOOSE c \in idle : TRUE} ELSE {}

\* A route hands a well-formed intent to runIntent, which takes the time; the
\* read routes look the session up first.
Arrive(c, intent) ==
    /\ Goto(c, IF intent.action \in SpendingActions THEN "arrived" ELSE "lookup")
    /\ call' = [call EXCEPT ![c].intent = intent, ![c].at = now,
                            ![c].late = sessions[intent.session].status = "revoked"]
    /\ UNCHANGED <<now, policy, stores, audit, node, faults>>

BlockWith(c, reason) ==
    /\ Goto(c, "auditBlocked")
    /\ call' = [call EXCEPT ![c].reason = reason]

\* Mutant: a body that does not parse is answered at once.
RejectMalformed_Unaudited(c) ==
    /\ Goto(c, "answered")
    /\ UNCHANGED <<now, policy, stores, audit, call, node, faults>>

\* The body or the query does not parse, or asks /intent/action for an action
\* with an endpoint of its own: no intent gets to runIntent.
RejectMalformed(c) ==
    /\ BlockWith(c, "INVALID_REQUEST")
    /\ UNCHANGED <<now, policy, stores, audit, node, faults>>

\* readIntent: app and origin are the stored session's.
FindSession(c) ==
    /\ pc[c] = "lookup"
    /\ IF sessions[call[c].intent.session].status = "absent"
         THEN BlockWith(c, "SESSION_NOT_FOUND")
         ELSE /\ Goto(c, "arrived")
              /\ call' = [call EXCEPT ![c].at = now]
    /\ UNCHANGED <<now, policy, stores, audit, node, faults>>

Intent(c) == call[c].intent

\* Mutant: a call waits until its session exists.
LoadSession_Waits(c) ==
    /\ pc[c] = "arrived"
    /\ LET session == sessions[Intent(c).session] IN
         /\ session.status # "absent"
         /\ call' = [call EXCEPT ![c].session = session]
    /\ Goto(c, "loaded")
    /\ UNCHANGED <<now, policy, stores, audit, node, faults>>

LoadSession(c) ==
    /\ pc[c] = "arrived"
    /\ LET session == sessions[Intent(c).session] IN
         call' = [call EXCEPT ![c].session =
                    IF session.status = "absent" THEN Undefined ELSE session]
    /\ Goto(c, "loaded")
    /\ UNCHANGED <<now, policy, stores, audit, node, faults>>

\* Mutant: a hash nobody owns passes the ownership check.
OwnedBySession_Lenient(c) ==
    IF Intent(c).action = "payment.read_own" /\ Intent(c).hash # NoHash
      THEN owner[Intent(c).hash] \in {Intent(c).session, NoSession}
      ELSE Undefined

\* isOwnedBy, for a read that names a hash.
OwnedBySession(c) ==
    IF Intent(c).action = "payment.read_own" /\ Intent(c).hash # NoHash
      THEN owner[Intent(c).hash] = Intent(c).session
      ELSE Undefined

\* spentToday, for an intent with an asset and an amount.
SpentToday(c) ==
    IF Intent(c).asset # Undefined /\ Intent(c).amount # Undefined
      THEN ledger[BucketOf(Intent(c), call[c].at)]
      ELSE Undefined

Snapshot(c) ==
    IF call[c].session = Undefined
      THEN Undefined
      ELSE toSnapshot(Intent(c).session, call[c].session)

Decision(c) ==
    evaluateIntent(policy, Intent(c), Snapshot(c), call[c].at, SpentToday(c), OwnedBySession(c))

\* The last read and, in the same step, the evaluation.
Decide(c) ==
    /\ pc[c] = "loaded"
    /\ LET d == Decision(c) IN
         /\ Goto(c, CASE d.decision = "blocked" -> "auditBlocked"
                      [] d.decision = "allowed" -> "forwarding"
                      [] d.decision = "thrown"  -> "failed")
         /\ call' = [call EXCEPT ![c].reason = d.reason]
    /\ UNCHANGED <<now, policy, stores, audit, node, faults>>

-----------------------------------------------------------------------------
(* Forwarding to the Fiber node *)

\* toBaseUnits refuses the amount before anything is sent.
AmountDoesNotEncode(c) ==
    /\ pc[c] = "forwarding"
    /\ Intent(c).action \in SpendingActions
    /\ Intent(c).amount > MaxEncodable
    /\ BlockWith(c, "INVALID_REQUEST")
    /\ UNCHANGED <<now, policy, stores, audit, node, faults>>

Reaches(c) ==
    /\ pc[c] = "forwarding"
    /\ Intent(c).action \in ImplementedActions
    /\ Intent(c).action \in SpendingActions => Intent(c).amount <= MaxEncodable

\* Hashes the node has handed out so far.
Known == {call[c].hash : c \in performed}

\* The hash in the node's answer: a payment settles an invoice of its own or
\* of somebody else, a new invoice gets a new hash, which the answer may omit.
AnswerHashes(action) ==
    CASE action = "payment.pay_invoice" -> Hashes
      [] action = "invoice.create"      -> (Hashes \ Known) \cup {NoHash}
      [] OTHER                          -> {NoHash}

\* The node executes the call's RPC (its answer is still on the way).
NodeExecutes(c) ==
    /\ Reaches(c)
    /\ \E h \in AnswerHashes(Intent(c).action) :
         call' = [call EXCEPT ![c].hash = h]
    /\ performed' = performed \cup {c}
    /\ IF Intent(c).action \in SpendingActions
         THEN settled' = [settled EXCEPT ![BucketOf(Intent(c), call[c].at)] =
                            @ + Intent(c).amount]
         ELSE UNCHANGED settled
    /\ Goto(c, "executed")
    /\ UNCHANGED <<now, policy, stores, audit, faults>>

\* Mutant: a refused intent is charged like an executed one.
UpstreamRefuses_Charged(c) ==
    /\ pc[c] = "forwarding"
    /\ Intent(c).action \in SpendingActions
    /\ Goto(c, "addSpend")
    /\ UNCHANGED <<now, policy, stores, audit, call, node, faults>>

\* The node refuses or is down, the asset is not declared, or the action has
\* no RPC: nothing was executed.
UpstreamRefuses(c) ==
    /\ pc[c] = "forwarding"
    /\ BlockWith(c, "UPSTREAM_FIBER_ERROR")
    /\ UNCHANGED <<now, policy, stores, audit, node, faults>>

\* The node executed the RPC and its answer never arrives, or is unusable.
AnswerLost(c) ==
    /\ pc[c] = "executed"
    /\ faults < MaxFaults
    /\ faults' = faults + 1
    /\ BlockWith(c, "UPSTREAM_FIBER_ERROR")
    /\ UNCHANGED <<now, policy, stores, audit, node>>

\* Mutant: a one-shot session is never consumed.
AfterOwner_Unconsumed(c) == "auditAllowed"

\* A one-shot session is consumed after the ledger and the index.
AfterOwner(c) ==
    IF Terms[Intent(c).session].approvalType = "once" THEN "markUsed" ELSE "auditAllowed"

\* The answer arrives; what happens next depends on the action and session.
AnswerArrives(c) ==
    /\ pc[c] = "executed"
    /\ Goto(c, CASE Intent(c).action \in SpendingActions -> "addSpend"
                 [] OTHER                                 -> AfterOwner(c))
    /\ UNCHANGED <<now, policy, stores, audit, call, node, faults>>

-----------------------------------------------------------------------------
(* Side effects of a forwarded intent, in the code's order *)

\* Mutant: the total is replaced instead of advanced.
AddSpend_Overwrites(c) ==
    /\ pc[c] = "addSpend"
    /\ LET bucket == BucketOf(Intent(c), call[c].at) IN
         ledger' = [ledger EXCEPT ![bucket] = Intent(c).amount]
    /\ Goto(c, IF call[c].hash = NoHash THEN AfterOwner(c) ELSE "recordOwner")
    /\ UNCHANGED <<now, policy, sessions, owner, audit, call, node, faults>>

\* Mutant: the amount is charged to the day of the write.
AddSpend_AccountingDay(c) ==
    /\ pc[c] = "addSpend"
    /\ LET bucket == BucketOf(Intent(c), now) IN
         ledger' = [ledger EXCEPT ![bucket] = addAmounts(@, Intent(c).amount)]
    /\ Goto(c, IF call[c].hash = NoHash THEN AfterOwner(c) ELSE "recordOwner")
    /\ UNCHANGED <<now, policy, sessions, owner, audit, call, node, faults>>

\* addSpend; it throws when the stored total no longer parses.
AddSpend(c) ==
    /\ pc[c] = "addSpend"
    /\ LET bucket == BucketOf(Intent(c), call[c].at) IN
         IF Parses(ledger[bucket])
           THEN /\ ledger' = [ledger EXCEPT ![bucket] = addAmounts(@, Intent(c).amount)]
                /\ Goto(c, IF call[c].hash = NoHash THEN AfterOwner(c) ELSE "recordOwner")
           ELSE /\ UNCHANGED ledger
                /\ Goto(c, "failed")
    /\ UNCHANGED <<now, policy, sessions, owner, audit, call, node, faults>>

\* Mutant: a call claims every hash the node has handed out so far.
RecordOwner_AllKnown(c) ==
    /\ pc[c] = "recordOwner"
    /\ owner' = [h \in Hashes |->
                   IF owner[h] = NoSession /\ h \in Known THEN Intent(c).session ELSE owner[h]]
    /\ Goto(c, AfterOwner(c))
    /\ UNCHANGED <<now, policy, sessions, ledger, audit, call, node, faults>>

\* First writer wins.
RecordOwner(c) ==
    /\ pc[c] = "recordOwner"
    /\ owner' = [owner EXCEPT ![call[c].hash] =
                   IF @ = NoSession THEN Intent(c).session ELSE @]
    /\ Goto(c, AfterOwner(c))
    /\ UNCHANGED <<now, policy, sessions, ledger, audit, call, node, faults>>

MarkSessionUsed(c) ==
    /\ pc[c] = "markUsed"
    /\ sessions' = [sessions EXCEPT ![Intent(c).session].used = TRUE]
    /\ Goto(c, "auditAllowed")
    /\ UNCHANGED <<now, policy, ledger, owner, audit, call, node, faults>>

-----------------------------------------------------------------------------
(* The audit event and the reply *)

Event(c) ==
    [event  |-> CASE pc[c] = "auditAllowed"             -> "intent_allowed"
                  [] call[c].reason = "SESSION_EXPIRED" -> "session_expired"
                  [] OTHER                              -> "intent_blocked",
     reason |-> call[c].reason]

\* audit.record, then the reply.  Its locals go out of scope.
RecordAudit(c) ==
    /\ pc[c] \in {"auditAllowed", "auditBlocked"}
    /\ audit' = [audit EXCEPT ![c] = Append(@, Event(c))]
    /\ Goto(c, "answered")
    /\ call' = [call EXCEPT ![c].session = Undefined]
    /\ UNCHANGED <<now, policy, stores, node, faults>>

-----------------------------------------------------------------------------
(* Faults *)

\* A read or a write of a store throws: runIntent rejects and the client gets
\* an internal error.
StorageFails(c) ==
    /\ pc[c] \in {"lookup", "arrived", "loaded", "addSpend", "recordOwner", "markUsed"}
    /\ faults < MaxFaults
    /\ faults' = faults + 1
    /\ Goto(c, "failed")
    /\ UNCHANGED <<now, policy, stores, audit, call, node>>

\* A failing append is swallowed and the reply goes out all the same.
AuditFails(c) ==
    /\ pc[c] \in {"auditAllowed", "auditBlocked"}
    /\ faults < MaxFaults
    /\ faults' = faults + 1
    /\ Goto(c, "answered")
    /\ call' = [call EXCEPT ![c].session = Undefined]
    /\ UNCHANGED <<now, policy, stores, audit, node>>

\* The process dies and is started again, possibly with an edited policy.
CrashAndRestart ==
    /\ faults < MaxFaults
    /\ faults' = faults + 1
    /\ policy' \in Policies
    /\ pc' = [c \in Calls |-> IF c \in InFlight THEN "crashed" ELSE pc[c]]
    /\ UNCHANGED <<now, stores, audit, call, node>>

-----------------------------------------------------------------------------
\* Steps the process takes for a call by itself.
Gateway(c) ==
    \/ FindSession(c) \/ LoadSession(c)
    \/ Decide(c)
    \/ AmountDoesNotEncode(c)
    \/ AddSpend(c)
    \/ RecordOwner(c)
    \/ MarkSessionUsed(c)
    \/ RecordAudit(c)

\* Steps of the node and of the connection to it.
Upstream(c) == NodeExecutes(c) \/ UpstreamRefuses(c) \/ AnswerArrives(c)

Fault(c) == AnswerLost(c) \/ StorageFails(c) \/ AuditFails(c)

Next ==
    \/ \E s \in SessionIds : OpenSession(s) \/ RevokeSession(s)
    \/ Tick
    \/ \E c \in NextCall : RejectMalformed(c) \/ \E intent \in Intents : Arrive(c, intent)
    \/ \E c \in Calls : Gateway(c)
    \/ \E c \in Calls : Upstream(c)
    \/ \E c \in Calls : Fault(c)
    \/ CrashAndRestart

Spec == Init /\ [][Next]_vars

\* The process runs what it has started; the node, or the connection to it,
\* answers in the end (JsonRpcClient.call itself has no timeout).
FairSpec == Spec /\ \A c \in Calls : WF_vars(Gateway(c)) /\ WF_vars(Upstream(c))
-----------------------------------------------------------------------------
(* Ownership *)

\* A session reads the state of a payment only when the index names that
\* session as the payment's owner, also with the read racing the payment.
ReadsOnlyOwnPayments ==
    \A c \in performed :
      Intent(c).action = "payment.read_own" => owner[Intent(c).hash] = Intent(c).session

\* A session owns a hash only if a payment or an invoice of its own had it.
OwnershipIsEarned ==
    \A h \in Hashes :
      owner[h] # NoSession =>
        \E c \in performed : /\ Intent(c).action \in SpendingActions
                             /\ Intent(c).session = owner[h]
                             /\ call[c].hash = h

\* First writer wins, for good.
OwnersNeverChange == [][\A h \in Hashes : owner[h] # NoSession => owner'[h] = owner[h]]_vars

-----------------------------------------------------------------------------
(* Money *)

\* Calls the node has executed and the ledger does not hold yet.
Unaccounted(bucket) ==
    {c \in performed : /\ pc[c] \in {"executed", "addSpend"}
                       /\ Intent(c).action \in SpendingActions
                       /\ BucketOf(Intent(c), call[c].at) = bucket}

AmountOf == [c \in Calls |-> Intent(c).amount]

Claimed(bucket) == ledger[bucket] + SumFunctionOnSet(AmountOf, Unaccounted(bucket))

\* The ledger lags behind the node by the calls still between execution and
\* accounting, in the bucket of the day they began: no block, failure, crash or
\* midnight in between consumes budget that was not spent, and without faults
\* nothing that was spent goes missing until a total is too long to be read.
LedgerLagsByCallsInFlight ==
    \A b \in Buckets :
      /\ Claimed(b) <= settled[b]
      /\ faults = 0 /\ Parses(ledger[b]) => Claimed(b) = settled[b]

GrantedLimit(c) ==
    LET p == CHOOSE q \in MatchingPermissions(Terms[Intent(c).session], Intent(c)) : TRUE
    IN  p.dailyLimit

\* README: per-app daily limits (UTC day), enforced before forwarding.  What
\* the node executes for a session stays within the session's daily limit.
DailyLimitHolds ==
    [][\A c \in performed' \ performed :
         Intent(c).action \in SpendingActions /\ GrantedLimit(c) # Undefined =>
           settled'[BucketOf(Intent(c), call[c].at)] <= GrantedLimit(c)]_vars

-----------------------------------------------------------------------------
(* Sessions and policy *)

\* docs/policy-model.md: a one-shot session is consumed by the first allowed
\* intent.  The node executes at most one intent of such a session.
OneShotExecutesOnce ==
    \A s \in SessionIds :
      Terms[s].approvalType = "once" =>
        Cardinality({c \in performed : Intent(c).session = s}) <= 1

\* A call that begins after a revocation was written never reaches the node
\* (one that has read its session before may: see README).
RevokedSessionsStayOut == \A c \in performed : ~call[c].late

\* The node executes only actions that the policy the process runs with
\* still allows and does not deny, whatever the session was once granted.
CurrentPolicyIsObeyed ==
    [][\A c \in performed' \ performed :
         /\ Intent(c).app \in DOMAIN policy
         /\ Intent(c).action \in policy[Intent(c).app].allow
         /\ Intent(c).action \notin policy[Intent(c).app].deny]_vars

-----------------------------------------------------------------------------
(* The audit log *)

\* An audited call did what its event says: an allowed intent was executed,
\* recorded against its session and, for a one-shot session, consumed it; an
\* intent blocked by a check never reached the node.
AuditTellsTheTruth ==
    \A c \in Calls : \A k \in DOMAIN audit[c] :
      LET i == Intent(c) IN
        IF audit[c][k].event = "intent_allowed"
          THEN /\ c \in performed
               /\ call[c].hash # NoHash => owner[call[c].hash] # NoSession
               /\ Terms[i.session].approvalType = "once" => sessions[i.session].used
               /\ i.action \in SpendingActions => ledger[BucketOf(i, call[c].at)] >= i.amount
          ELSE audit[c][k].reason \in BlockReasons => c \notin performed

\* README, pipeline.ts: one audit event per decision.  An intent that the node
\* executed and that then failed in the gateway has one too.
ExecutedIntentIsAudited ==
    \A c \in performed : pc[c] = "failed" => Len(audit[c]) = 1

\* The day's total with the call's amount has too many digits to be parsed.
TotalTooLong(c) ==
    /\ Intent(c).action \in SpendingActions
    /\ ~Parses(ledger[BucketOf(Intent(c), call[c].at)] + Intent(c).amount)

\* pipeline.ts: exactly one audit event is written per call.  Without faults
\* only a call whose total is too long to be parsed ends without one.
ExactlyOneAuditEvent ==
    faults = 0 =>
      \A c \in Calls : /\ pc[c] = "answered" => Len(audit[c]) = 1
                       /\ pc[c] = "failed"   => TotalTooLong(c)

-----------------------------------------------------------------------------
(* The inductive invariant *)

\* Where a call stands says what is known of it.
CallsAreSound ==
    \A c \in Calls :
      /\ pc[c] \in {"lookup", "arrived", "loaded", "forwarding", "executed", "addSpend",
                    "recordOwner", "markUsed", "auditAllowed", "failed"} => Intent(c) \in Intents
      /\ pc[c] \in {"executed", "addSpend", "recordOwner", "markUsed", "auditAllowed"} =>
           c \in performed
      /\ c \in performed => /\ Intent(c) \in Intents
                            /\ pc[c] \notin {"idle", "lookup", "arrived", "loaded", "forwarding"}
      /\ pc[c] \in {"addSpend", "recordOwner"} => Intent(c).action \in SpendingActions
      /\ pc[c] = "recordOwner" => call[c].hash # NoHash

\* A session that a call was decided on, or consumed, stays in the store.
SessionsAreKept ==
    /\ \A s \in SessionIds : sessions[s].used => sessions[s].status # "absent"
    /\ \A c \in Calls :
         \/ pc[c] \in {"forwarding", "executed", "addSpend", "recordOwner", "markUsed"}
         \/ pc[c] = "loaded" /\ call[c].session # Undefined
         => sessions[Intent(c).session].status # "absent"

\* A call that began after a revocation finds its session revoked when it
\* reads it, and gets no further than its decision.
LateCallsStayOut ==
    \A c \in Calls :
      call[c].late =>
        /\ pc[c] \in {"lookup", "arrived", "loaded", "auditBlocked", "answered", "failed", "crashed"}
        /\ pc[c] \in {"lookup", "arrived"} => sessions[Intent(c).session].status = "revoked"
        /\ pc[c] = "loaded" => call[c].session.status = "revoked"
        /\ c \notin performed

\* What a call that is about to be forwarded was allowed by still holds.
DecisionsAreCurrent ==
    \A c \in Calls :
      pc[c] = "forwarding" =>
        /\ Intent(c).app \in DOMAIN policy
        /\ Intent(c).action \in policy[Intent(c).app].allow
        /\ Intent(c).action \notin policy[Intent(c).app].deny
        /\ Intent(c).action = "payment.read_own" => owner[Intent(c).hash] = Intent(c).session

Charged(c) ==
    Intent(c).action \in SpendingActions =>
      ledger[BucketOf(Intent(c), call[c].at)] >= Intent(c).amount

HashIsOwned(c) == call[c].hash # NoHash => owner[call[c].hash] # NoSession

IsConsumed(c) ==
    Terms[Intent(c).session].approvalType = "once" => sessions[Intent(c).session].used

\* What an audit event will claim is true before the event is written, and a
\* call that has its event is over.
EventsAreDue ==
    \A c \in Calls :
      /\ pc[c] \in {"recordOwner", "markUsed", "auditAllowed"} => Charged(c)
      /\ pc[c] \in {"markUsed", "auditAllowed"} => HashIsOwned(c)
      /\ pc[c] = "auditAllowed" => IsConsumed(c)
      /\ pc[c] = "executed" /\ Intent(c).action \notin SpendingActions => call[c].hash = NoHash
      /\ pc[c] = "auditBlocked" => /\ call[c].reason \in BlockReasons \cup {"UPSTREAM_FIBER_ERROR"}
                                   /\ call[c].reason \in BlockReasons => c \notin performed
      /\ pc[c] \in {"forwarding", "executed", "addSpend", "recordOwner", "markUsed",
                    "auditAllowed"} => call[c].reason = "WITHIN_POLICY"
      /\ audit[c] # <<>> => pc[c] = "answered"

PipelineInv ==
    /\ TypeOK
    /\ CallsAreSound
    /\ SessionsAreKept
    /\ LateCallsStayOut
    /\ DecisionsAreCurrent
    /\ ReadsOnlyOwnPayments
    /\ OwnershipIsEarned
    /\ EventsAreDue
    /\ AuditTellsTheTruth

-----------------------------------------------------------------------------
(* What else is invariant when calls do not overlap (MaxInFlight = 1) *)

OneAtATime == \A c, d \in InFlight : c = d

\* The total a call was decided on is still the total, and leaves room for it.
LimitsAreCurrent ==
    \A c \in Calls :
      /\ pc[c] = "forwarding"
      /\ Intent(c).action \in SpendingActions
      /\ GrantedLimit(c) # Undefined
      => LET total == ledger[BucketOf(Intent(c), call[c].at)] + Intent(c).amount
         IN  Parses(total) /\ total <= GrantedLimit(c)

OneShot(s) == Terms[s].approvalType = "once"

\* So is the use of the session a call has read.
UseIsCurrent ==
    \A c \in Calls :
      /\ pc[c] = "loaded" /\ call[c].session # Undefined =>
           call[c].session.used = sessions[Intent(c).session].used
      /\ pc[c] = "forwarding" /\ OneShot(Intent(c).session) => ~sessions[Intent(c).session].used

\* No fault so far, and no total that is too long to be read.
Undisturbed == faults = 0 /\ \A b \in Buckets : Parses(settled[b])

\* An executed call of a one-shot session has consumed it or is about to, and is
\* the only one of that session.
UseIsRecorded ==
    Undisturbed =>
      \A c \in performed :
        OneShot(Intent(c).session) =>
          /\ \/ pc[c] \in {"executed", "addSpend", "recordOwner", "markUsed", "auditAllowed"}
             \/ sessions[Intent(c).session].used
          /\ \A d \in performed : Intent(d).session = Intent(c).session => d = c

SequentialInv ==
    /\ PipelineInv
    /\ LedgerLagsByCallsInFlight
    /\ OneAtATime
    /\ LimitsAreCurrent
    /\ UseIsCurrent
    /\ UseIsRecorded

-----------------------------------------------------------------------------
(* Liveness *)

\* Every call that arrives is answered, fails or dies with the process.
EveryCallEnds ==
    \A c \in Calls : pc[c] \in {"lookup", "arrived"} ~> pc[c] \in {"answered", "failed", "crashed"}
=============================================================================
