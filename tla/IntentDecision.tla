--------------------------- MODULE IntentDecision ---------------------------
(***************************************************************************)
(* The policy decision on one intent: evaluateIntent                       *)
(* (packages/policy/src/intent-eval.ts), the display status of a session   *)
(* (effectiveStatus, packages/gateway/src/core/sessions/store.ts) and the  *)
(* amount arithmetic the decision rests on (packages/shared/src/amount.ts).*)
(*                                                                         *)
(* An amount is a natural number: decimal strings are compared and added   *)
(* exactly (fixed point over bigint), so only the bound on their length is *)
(* kept: a string above MaxAmount (39 integer digits) does not parse, and  *)
(* comparing or adding it throws.                                          *)
(***************************************************************************)
EXTENDS Naturals

CONSTANTS
    Undefined,    \* an optional field that is not there
    MaxAmount     \* the largest amount that parses

ASSUME AmountAssumption == MaxAmount \in Nat /\ Undefined \notin Nat

-----------------------------------------------------------------------------
(* Amounts *)

Parses(amount) == amount <= MaxAmount

\* addAmounts returns its sum without looking at its length.
addAmounts(a, b) == a + b

-----------------------------------------------------------------------------
(* Decisions *)

Allowed         == [decision |-> "allowed", reason |-> "WITHIN_POLICY"]
Blocked(reason) == [decision |-> "blocked", reason |-> reason]
\* evaluateIntent throws InvalidAmountError to its caller.
Thrown          == [decision |-> "thrown", reason |-> "InvalidAmountError"]

BlockReasons ==
    {"APP_NOT_FOUND", "ORIGIN_NOT_ALLOWED", "SESSION_NOT_FOUND",
     "SESSION_PENDING_APPROVAL", "SESSION_EXPIRED", "SESSION_REVOKED",
     "ACTION_EXPLICITLY_DENIED", "ACTION_NOT_ALLOWED", "ASSET_NOT_ALLOWED",
     "INVALID_REQUEST", "AMOUNT_EXCEEDS_SESSION_LIMIT",
     "AMOUNT_EXCEEDS_DAILY_LIMIT", "PAYMENT_NOT_OWNED_BY_SESSION"}

(***************************************************************************)
(* policy   maps an app id to [origins, allow, deny], its origins and the  *)
(*          actions of its allow and deny rules;                           *)
(* session  is Undefined or a snapshot [app, origin, status, approvalType, *)
(*          used, expiresAt, permissions];                                 *)
(* a permission is [action, asset, maxPerPayment, maxPerInvoice,           *)
(*          dailyLimit], at most one of them per action and asset          *)
(*          (evaluateSessionRequest keeps the first);                      *)
(* intent   is [app, origin, action, asset, amount];                       *)
(* spent    is what the ledger holds for today, owned what the ownership   *)
(*          index says; either is Undefined when it was not looked up.     *)
(***************************************************************************)
Consumed(session) == session.approvalType = "once" /\ session.used

PermissionsFor(session, intent) ==
    {p \in session.permissions : p.action = intent.action}

MatchingPermissions(session, intent) ==
    {p \in PermissionsFor(session, intent) : p.asset = intent.asset}

Cap(permission, action) ==
    IF action = "invoice.create" THEN permission.maxPerInvoice ELSE permission.maxPerPayment

\* The checks against the matching permission.
evaluatePermission(permission, intent, spent, owned) ==
    LET cap       == Cap(permission, intent.action)
        spentDay  == IF spent = Undefined THEN 0 ELSE spent
        limited   == permission.dailyLimit # Undefined /\ intent.amount # Undefined
        projected == addAmounts(spentDay, intent.amount)
    IN  IF cap # Undefined /\ intent.amount = Undefined
          THEN Blocked("INVALID_REQUEST")
        ELSE IF cap # Undefined /\ intent.amount > cap
          THEN Blocked("AMOUNT_EXCEEDS_SESSION_LIMIT")
        ELSE IF limited /\ ~(Parses(spentDay) /\ Parses(projected))
          THEN Thrown
        ELSE IF limited /\ projected > permission.dailyLimit
          THEN Blocked("AMOUNT_EXCEEDS_DAILY_LIMIT")
        ELSE IF intent.action = "payment.read_own" /\ owned = FALSE
          THEN Blocked("PAYMENT_NOT_OWNED_BY_SESSION")
        ELSE Allowed

\* The outcome of a group of checks none of which blocks.
Passes == "passes"

\* Mutant: the comparison with the expiry is the wrong way round.
checkSession_ExpiryInverted(session, intent, now) ==
    IF session = Undefined THEN "SESSION_NOT_FOUND"
    ELSE IF session.app # intent.app \/ session.origin # intent.origin THEN "SESSION_NOT_FOUND"
    ELSE IF session.status = "pending_approval" THEN "SESSION_PENDING_APPROVAL"
    ELSE IF session.expiresAt > now THEN "SESSION_EXPIRED"
    ELSE IF session.status = "revoked" THEN "SESSION_REVOKED"
    ELSE IF Consumed(session) THEN "SESSION_EXPIRED"
    ELSE Passes

\* The checks of the session, in their order.
checkSession(session, intent, now) ==
    IF session = Undefined THEN "SESSION_NOT_FOUND"
    ELSE IF session.app # intent.app \/ session.origin # intent.origin THEN "SESSION_NOT_FOUND"
    ELSE IF session.status = "pending_approval" THEN "SESSION_PENDING_APPROVAL"
    ELSE IF session.expiresAt <= now THEN "SESSION_EXPIRED"
    ELSE IF session.status = "revoked" THEN "SESSION_REVOKED"
    ELSE IF Consumed(session) THEN "SESSION_EXPIRED"
    ELSE Passes

\* Mutant: the grant recorded in the session is trusted without a look at the
\* policy the process runs with.
checkAction_TrustsGrant(app, session, intent) ==
    IF PermissionsFor(session, intent) = {} THEN "ACTION_NOT_ALLOWED"
    ELSE IF MatchingPermissions(session, intent) = {} THEN "ASSET_NOT_ALLOWED"
    ELSE Passes

\* Mutant: allow is looked at before deny.
checkAction_AllowBeforeDeny(app, session, intent) ==
    IF intent.action \notin app.allow \/ PermissionsFor(session, intent) = {}
      THEN "ACTION_NOT_ALLOWED"
    ELSE IF intent.action \in app.deny THEN "ACTION_EXPLICITLY_DENIED"
    ELSE IF MatchingPermissions(session, intent) = {} THEN "ASSET_NOT_ALLOWED"
    ELSE Passes

\* The checks of the action and the asset: deny, then what both the current
\* policy and the grant allow.
checkAction(app, session, intent) ==
    IF intent.action \in app.deny THEN "ACTION_EXPLICITLY_DENIED"
    ELSE IF intent.action \notin app.allow \/ PermissionsFor(session, intent) = {}
      THEN "ACTION_NOT_ALLOWED"
    ELSE IF MatchingPermissions(session, intent) = {} THEN "ASSET_NOT_ALLOWED"
    ELSE Passes

\* The first failing check gives the reason.
evaluateIntent(policy, intent, session, now, spent, owned) ==
    IF intent.app \notin DOMAIN policy
      THEN Blocked("APP_NOT_FOUND")
    ELSE IF intent.origin \notin policy[intent.app].origins
      THEN Blocked("ORIGIN_NOT_ALLOWED")
    ELSE LET state  == checkSession(session, intent, now)
             action == checkAction(policy[intent.app], session, intent)
         IN  IF state # Passes THEN Blocked(state)
             ELSE IF action # Passes THEN Blocked(action)
             ELSE evaluatePermission(CHOOSE p \in MatchingPermissions(session, intent) : TRUE,
                                     intent, spent, owned)

\* Mutant: a consumed one-shot session still shows as active.
effectiveStatus_NeverConsumed(session, now) ==
    IF session.status = "revoked" THEN "revoked"
    ELSE IF session.expiresAt <= now THEN "expired"
    ELSE "active"

\* What /session/current shows; revocation is reported ahead of expiry.
effectiveStatus(session, now) ==
    IF session.status = "revoked" THEN "revoked"
    ELSE IF session.expiresAt <= now THEN "expired"
    ELSE IF Consumed(session) THEN "consumed"
    ELSE "active"
=============================================================================
