---------------------------- MODULE PolicyEngine ----------------------------
(***************************************************************************)
(* The policy engine: a policy file is loaded (module PolicyFile) and a    *)
(* request is evaluated entry by entry (SessionGrant); for some of the     *)
(* granted ones a session is opened with that grant and an intent is tried *)
(* on it (evaluateIntent, IntentDecision).  The steps that follow are what *)
(* may happen between two attempts of an application to have the same      *)
(* intent allowed.                                                         *)
(***************************************************************************)
EXTENDS SessionGrant, PolicyFile

CONSTANTS
    PolicyFiles,    \* the files the gateway may be started with
    Intents,        \* what is tried on a granted session
    OpenedRequests, \* bound: the requests whose sessions are used
    OtherApps,      \* apps whose session a caller may name by mistake
    Assets,         \* bounds: the assets and amounts a grant is judged on
    AmountRange,
    MaxTime,        \* bounds: the clock and the ledger
    MaxSpent

ASSUME EngineAssumption ==
    /\ AppPolicies = {parsePolicy(file) : file \in PolicyFiles} \ {Refused}
    /\ \A file \in PolicyFiles : \A id \in DOMAIN file.apps :
         LET rules == file.apps[id].allow IN
           Len(rules) \in Nat /\ DOMAIN rules = 1..Len(rules)
    /\ \A i \in Intents : i.amount \in Nat \cup {Undefined}
    /\ AmountRange \subseteq Nat
    /\ Undefined \notin Intents /\ Undefined \notin BOOLEAN

VARIABLES session, intent, now, spent, owned,
          current    \* the policy the process runs with now

attempt == <<session, intent, now, spent, owned, current>>

-----------------------------------------------------------------------------
PolicyInit ==
    /\ Init
    /\ session = Undefined /\ intent = Undefined /\ now = 0
    /\ spent = Undefined /\ owned = Undefined
    /\ current = PolicyView

Evaluate == Next /\ UNCHANGED attempt

SnapshotFor(app, type, status) ==
    [FreshSession EXCEPT !.app = app, !.approvalType = type, !.status = status]

\* The snapshot of the session the grant opened, of none, of another app's or,
\* as a direct caller of the package may pass it, of one that waits for its owner.
Snapshots ==
    {Undefined} \cup {SnapshotFor(app, "session", "active") : app \in OtherApps} \cup
    {SnapshotFor(request.app, type, status) :
       type \in {"session", "once"}, status \in {"active", "pending_approval"}}

Try ==
    /\ outcome = "granted"
    /\ request \in OpenedRequests
    /\ intent = Undefined
    /\ intent' \in Intents
    /\ session' \in Snapshots
    /\ spent' = IF intent'.amount = Undefined THEN Undefined ELSE 0
    /\ owned' \in IF intent'.action = "payment.read_own" THEN BOOLEAN ELSE {Undefined}
    /\ UNCHANGED <<vars, now, current>>

Tried == intent # Undefined

TimePasses ==
    /\ Tried
    /\ now < MaxTime
    /\ now' = now + 1
    /\ UNCHANGED <<vars, session, intent, spent, owned, current>>

SpendIsCharged ==
    /\ Tried
    /\ spent # Undefined
    /\ spent < MaxSpent
    /\ spent' = spent + 1
    /\ UNCHANGED <<vars, session, intent, now, owned, current>>

SessionIsRevoked ==
    /\ session # Undefined
    /\ session.status = "active"
    /\ session' = [session EXCEPT !.status = "revoked"]
    /\ UNCHANGED <<vars, intent, now, spent, owned, current>>

SessionIsUsed ==
    /\ session # Undefined
    /\ session.approvalType = "once"
    /\ ~session.used
    /\ session' = [session EXCEPT !.used = TRUE]
    /\ UNCHANGED <<vars, intent, now, spent, owned, current>>

\* The owner edits the policy and restarts the gateway.
ActionIsDenied ==
    /\ Tried
    /\ intent.app \in DOMAIN current
    /\ intent.action \notin current[intent.app].deny
    /\ current' = [current EXCEPT ![intent.app] =
                      [origins |-> @.origins, allow |-> @.allow \ {intent.action},
                       deny |-> @.deny \cup {intent.action}]]
    /\ UNCHANGED <<vars, session, intent, now, spent, owned>>

PolicyNext ==
    \/ Evaluate
    \/ Try
    \/ TimePasses
    \/ SpendIsCharged
    \/ SessionIsRevoked
    \/ SessionIsUsed
    \/ ActionIsDenied

PolicySpec == PolicyInit /\ [][PolicyNext]_<<vars, attempt>>

Verdict == evaluateIntent(current, intent, session, now, spent, owned)

-----------------------------------------------------------------------------
(* What is granted *)

\* A granted session never lets evaluateIntent allow more than the policy
\* does, over these assets and amounts.
GrantIsWithinPolicy ==
    ~Tried => GrantStaysWithinPolicy(Assets, AmountRange)

\* evaluateIntent allows every granted permission up to its own limits.
GrantIsUsable == ~Tried => GrantMeansWhatItSays(AmountRange)

\* The order in which the operator writes the rules of an app changes no grant
\* and no decision.
Reordered(file) ==
    [assets |-> file.assets,
     apps   |-> [id \in DOMAIN file.apps |->
                   LET app == file.apps[id] IN
                     [origins |-> app.origins, allow |-> Reverse(app.allow), deny |-> app.deny]]]

RuleOrderIsImmaterial ==
    \A file \in PolicyFiles : parsePolicy(file) = policy => parsePolicy(Reordered(file)) = policy

-----------------------------------------------------------------------------
(* What is decided *)

\* docs/policy-model.md: the checks of an intent in their order, each with the
\* reason it gives.  Row 12 of the table, APPROVAL_REQUIRED, is a reason of
\* session requests only; a missing amount (INVALID_REQUEST) comes before the
\* amount's own checks.
Row(reason, fails) == [reason |-> reason, fails |-> fails]

Table ==
    LET known   == intent.app \in DOMAIN current
        there   == session # Undefined /\ known
        allowed == IF there THEN {p \in session.permissions : p.action = intent.action} ELSE {}
        usable  == {p \in allowed : p.asset = intent.asset}
        LimitOf(p) == IF intent.action = "invoice.create" THEN p.maxPerInvoice ELSE p.maxPerPayment
        already == IF spent = Undefined THEN 0 ELSE spent
    IN <<Row("APP_NOT_FOUND", ~known),
         Row("ORIGIN_NOT_ALLOWED", known /\ intent.origin \notin current[intent.app].origins),
         Row("SESSION_NOT_FOUND", \/ session = Undefined
                                  \/ <<session.app, session.origin>> # <<intent.app, intent.origin>>),
         Row("SESSION_PENDING_APPROVAL", there /\ session.status = "pending_approval"),
         Row("SESSION_EXPIRED", there /\ now >= session.expiresAt),
         Row("SESSION_REVOKED", there /\ session.status = "revoked"),
         Row("SESSION_EXPIRED", there /\ session.approvalType = "once" /\ session.used),
         Row("ACTION_EXPLICITLY_DENIED", there /\ intent.action \in current[intent.app].deny),
         Row("ACTION_NOT_ALLOWED", there /\ (allowed = {} \/ intent.action \notin current[intent.app].allow)),
         Row("ASSET_NOT_ALLOWED", usable = {}),
         Row("INVALID_REQUEST", intent.amount = Undefined /\ \E p \in usable : LimitOf(p) # Undefined),
         Row("AMOUNT_EXCEEDS_SESSION_LIMIT",
             intent.amount # Undefined
               /\ \E p \in usable : LimitOf(p) # Undefined /\ intent.amount > LimitOf(p)),
         Row("AMOUNT_EXCEEDS_DAILY_LIMIT",
             intent.amount # Undefined
               /\ \E p \in usable : p.dailyLimit # Undefined /\ already + intent.amount > p.dailyLimit),
         Row("PAYMENT_NOT_OWNED_BY_SESSION", owned = FALSE)>>

\* The decision is the one of the documented table: the first row that fails
\* gives the reason, an intent no row stops is allowed, and the evaluation
\* throws (a total too long to parse) only where a row would have stopped it.
FollowsDocumentedOrder ==
    Tried =>
      LET failing == {k \in DOMAIN Table : Table[k].fails} IN
        IF Verdict = Thrown THEN failing # {}
        ELSE Verdict = IF failing = {} THEN Allowed ELSE Blocked(Table[Min(failing)].reason)

\* The two places that judge a session agree: /session/current shows "active"
\* exactly when no intent of its app is turned away for the session's state,
\* although the one looks at revocation first and the other at expiry.  (An
\* app or an origin that has left the policy is turned away before that.)
StatusAgreesWithDecision ==
    session # Undefined =>
      LET own    == [app |-> session.app, origin |-> session.origin, action |-> intent.action,
                     asset |-> intent.asset, amount |-> intent.amount]
          reason == evaluateIntent(current, own, session, now, spent, owned).reason
      IN  /\ session.status # "pending_approval"
          /\ session.app \in DOMAIN current
          /\ session.origin \in current[session.app].origins
          => (effectiveStatus(session, now) = "active"
                <=> reason \notin {"SESSION_EXPIRED", "SESSION_REVOKED"})

\* Trying again does not help: no passage of time, charge, revocation,
\* consumption or denial turns a blocked intent into an allowed one.
BlockedStaysBlocked ==
    [][Tried /\ Verdict' = Allowed => Verdict = Allowed]_<<vars, attempt>>

-----------------------------------------------------------------------------
(* The inductive invariant *)

\* No two permissions of a session are for one action and asset.
OnePermissionEach(permissions) ==
    \A p, q \in permissions : p.action = q.action /\ p.asset = q.asset => p = q

HasCaps(permission) == \A field \in CapFields : permission[field] \in Limits

IsSnapshot(s) ==
    /\ s = [app |-> s.app, origin |-> s.origin, status |-> s.status,
            approvalType |-> s.approvalType, used |-> s.used, expiresAt |-> s.expiresAt,
            permissions |-> s.permissions]
    /\ s.expiresAt \in Nat
    /\ OnePermissionEach(s.permissions)
    /\ \A p \in s.permissions : HasCaps(p)

IsPolicy(rules) ==
    rules = [app \in DOMAIN rules |->
               [origins |-> rules[app].origins, allow |-> rules[app].allow,
                deny |-> rules[app].deny]]

\* What an attempt is made of, whatever has happened since it was first made.
AttemptInv ==
    /\ GrantInv
    /\ now \in Nat
    /\ IsPolicy(current)
    /\ session # Undefined => IsSnapshot(session)
    /\ Tried =>
         /\ intent \in Intents
         /\ spent \in Nat \cup {Undefined}
         /\ IF intent.action = "payment.read_own" THEN owned \in BOOLEAN ELSE owned = Undefined
=============================================================================
