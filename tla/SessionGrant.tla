---------------------------- MODULE SessionGrant ----------------------------
(***************************************************************************)
(* What a session request is granted: evaluateSessionRequest               *)
(* (packages/policy/src/session-eval.ts), the loop over the requested      *)
(* permissions with one step per entry.                                    *)
(*                                                                         *)
(* An app's policy is [origins, allow, deny]; allow maps an action to its  *)
(* one rule (parsePolicy refuses a second rule for an action and an action *)
(* that is both allowed and denied).  A rule and a requested entry carry   *)
(* the same limits; a limit, an asset or an expiry may be Undefined.       *)
(* Granted permissions form a set: at most one for an action and an asset. *)
(***************************************************************************)
EXTENDS IntentDecision, Sequences, FiniteSetsExt

CONSTANTS
    AppPolicies,  \* the policies the gateway may be started with
    Requests,     \* the bodies of POST /session/request
    DefaultTtl    \* DEFAULT_SESSION_TTL_MS

VARIABLES
    policy,           \* app id |-> policy of the app
    request,          \* the request: [app, origin, permissions]
    next,             \* index of the entry the loop looks at next
    granted,          \* the permissions granted so far
    expiries,         \* expiryCandidatesMs
    requiresApproval, \* a matched rule asks for the owner
    outcome           \* "evaluating", "granted" or the reason of a rejection

vars == <<policy, request, next, granted, expiries, requiresApproval, outcome>>

-----------------------------------------------------------------------------
CapFields == {"maxPerPayment", "maxPerInvoice", "dailyLimit"}

\* What amountSchema and durationSchema let through in a policy or a request.
Limits    == 0..MaxAmount \cup {Undefined}
Durations == (Nat \ {0}) \cup {Undefined}

HasLimits(terms) ==
    /\ \A field \in CapFields : terms[field] \in Limits
    /\ terms.expiresIn \in Durations

IsRule(rule) ==
    /\ HasLimits(rule)
    /\ rule.requireApproval \in BOOLEAN
    /\ rule.assets # Undefined => Undefined \notin rule.assets

ASSUME GrantAssumption ==
    /\ DefaultTtl \in Nat \ {0}
    /\ \A rules \in AppPolicies : \A app \in DOMAIN rules :
         \A action \in DOMAIN rules[app].allow : IsRule(rules[app].allow[action])
    /\ \A body \in Requests :
         /\ Len(body.permissions) \in Nat
         /\ DOMAIN body.permissions = 1..Len(body.permissions)
         /\ \A k \in DOMAIN body.permissions : HasLimits(body.permissions[k])

App   == policy[request.app]
Entry == request.permissions[next]

\* The policy names the app, and the page it runs on is one of its origins.
CallerIsKnown == request.app \in DOMAIN policy /\ request.origin \in App.origins

\* requested ?? rule
OrElse(requested, rule) == IF requested # Undefined THEN requested ELSE rule

ExceedsCap(requested, cap) == requested # Undefined /\ cap # Undefined /\ requested > cap

\* Mutant: the daily limit is not compared with the policy's.
refusal_NoDailyCap(app, entry) ==
    IF entry.action \in app.deny THEN "ACTION_EXPLICITLY_DENIED"
    ELSE IF entry.action \notin DOMAIN app.allow THEN "ACTION_NOT_ALLOWED"
    ELSE LET rule == app.allow[entry.action] IN
      IF entry.asset # Undefined
           /\ (rule.assets = Undefined \/ entry.asset \notin rule.assets)
        THEN "ASSET_NOT_ALLOWED"
      ELSE IF \E field \in CapFields \ {"dailyLimit"} : ExceedsCap(entry[field], rule[field])
        THEN "AMOUNT_EXCEEDS_SESSION_LIMIT"
      ELSE Passes

\* Why an entry rejects the whole request, in the order of the checks.
refusal(app, entry) ==
    IF entry.action \in app.deny THEN "ACTION_EXPLICITLY_DENIED"
    ELSE IF entry.action \notin DOMAIN app.allow THEN "ACTION_NOT_ALLOWED"
    ELSE LET rule == app.allow[entry.action] IN
      IF entry.asset # Undefined
           /\ (rule.assets = Undefined \/ entry.asset \notin rule.assets)
        THEN "ASSET_NOT_ALLOWED"
      ELSE IF \E field \in CapFields : ExceedsCap(entry[field], rule[field])
        THEN "AMOUNT_EXCEEDS_SESSION_LIMIT"
      ELSE Passes

\* Mutant: an entry without an asset is granted the rule's assets or none.
resolveAssets_Unexpanded(rule, entry) == {entry.asset}

\* The assets an entry is expanded to.
resolveAssets(rule, entry) ==
    IF rule.assets = Undefined THEN {Undefined}
    ELSE IF entry.asset = Undefined THEN rule.assets
    ELSE {entry.asset}

buildGrantedPermission(rule, entry, asset) ==
    [action        |-> entry.action,
     asset         |-> asset,
     maxPerPayment |-> OrElse(entry.maxPerPayment, rule.maxPerPayment),
     maxPerInvoice |-> OrElse(entry.maxPerInvoice, rule.maxPerInvoice),
     dailyLimit    |-> OrElse(entry.dailyLimit, rule.dailyLimit)]

\* The rules there are, and the entries that may be asked for.
Rules ==
    UNION {UNION {{rules[app].allow[action] : action \in DOMAIN rules[app].allow} :
                    app \in DOMAIN rules} : rules \in AppPolicies}

AskedFor == UNION {{body.permissions[k] : k \in DOMAIN body.permissions} : body \in Requests}

\* What an entry can be granted.
GrantableFor(rule, entry) ==
    {buildGrantedPermission(rule, entry, asset) : asset \in resolveAssets(rule, entry)}

Grantable == UNION {GrantableFor(rule, entry) : rule \in Rules, entry \in AskedFor}

\* The sessions a grant can open.
Sessions ==
    [app : {body.app : body \in Requests}, origin : {body.origin : body \in Requests},
     status : {"active"}, approvalType : {"session"}, used : {FALSE}, expiresAt : Nat,
     permissions : SUBSET Grantable]

ASSUME SessionAssumption == Undefined \notin Sessions

\* grantedKeys: what an earlier entry has been granted already.
IsGranted(action, asset) == \E p \in granted : p.action = action /\ p.asset = asset

-----------------------------------------------------------------------------
Init ==
    /\ policy \in AppPolicies
    /\ request \in Requests
    /\ next = 1
    /\ granted = {}
    /\ expiries = {}
    /\ requiresApproval = FALSE
    /\ outcome = "evaluating"

Reject(reason) ==
    /\ outcome' = reason
    /\ UNCHANGED <<policy, request, next, granted, expiries, requiresApproval>>

RejectCaller ==
    /\ outcome = "evaluating"
    /\ next = 1
    /\ \/ request.app \notin DOMAIN policy /\ Reject("APP_NOT_FOUND")
       \/ /\ request.app \in DOMAIN policy
          /\ request.origin \notin App.origins
          /\ Reject("ORIGIN_NOT_ALLOWED")

AtEntry ==
    /\ outcome = "evaluating"
    /\ CallerIsKnown
    /\ next <= Len(request.permissions)

RejectEntry ==
    /\ AtEntry
    /\ refusal(App, Entry) # Passes
    /\ Reject(refusal(App, Entry))

\* Mutant: a repeated entry is granted again.
GrantEntry_Repeated ==
    /\ AtEntry
    /\ refusal(App, Entry) = Passes
    /\ LET rule == App.allow[Entry.action] IN
         /\ granted' = granted \cup
              {buildGrantedPermission(rule, Entry, asset) : asset \in resolveAssets(rule, Entry)}
         /\ expiries' = expiries \cup ({Entry.expiresIn, rule.expiresIn} \ {Undefined})
         /\ requiresApproval' = (requiresApproval \/ rule.requireApproval)
    /\ next' = next + 1
    /\ UNCHANGED <<policy, request, outcome>>

\* Mutant: the last entry decides whether the owner is asked.
GrantEntry_LastDecides ==
    /\ AtEntry
    /\ refusal(App, Entry) = Passes
    /\ LET rule  == App.allow[Entry.action]
           fresh == {a \in resolveAssets(rule, Entry) : ~IsGranted(Entry.action, a)}
       IN  /\ granted' = granted \cup {buildGrantedPermission(rule, Entry, a) : a \in fresh}
           /\ expiries' = expiries \cup ({Entry.expiresIn, rule.expiresIn} \ {Undefined})
           /\ requiresApproval' = rule.requireApproval
    /\ next' = next + 1
    /\ UNCHANGED <<policy, request, outcome>>

GrantEntry ==
    /\ AtEntry
    /\ refusal(App, Entry) = Passes
    /\ LET rule  == App.allow[Entry.action]
           fresh == {a \in resolveAssets(rule, Entry) : ~IsGranted(Entry.action, a)}
       IN  /\ granted' = granted \cup {buildGrantedPermission(rule, Entry, a) : a \in fresh}
           /\ expiries' = expiries \cup ({Entry.expiresIn, rule.expiresIn} \ {Undefined})
           /\ requiresApproval' = (requiresApproval \/ rule.requireApproval)
    /\ next' = next + 1
    /\ UNCHANGED <<policy, request, outcome>>

Grant ==
    /\ outcome = "evaluating"
    /\ CallerIsKnown
    /\ next = Len(request.permissions) + 1
    /\ outcome' = "granted"
    /\ UNCHANGED <<policy, request, next, granted, expiries, requiresApproval>>

expiresInMs == Min(expiries \cup {DefaultTtl})

Next == RejectCaller \/ RejectEntry \/ GrantEntry \/ Grant

Spec == Init /\ [][Next]_vars

-----------------------------------------------------------------------------
(* Properties *)

\* The policy as evaluateIntent reads it, and the session a grant opens.
PolicyView ==
    [app \in DOMAIN policy |->
       [origins |-> policy[app].origins, allow |-> DOMAIN policy[app].allow,
        deny |-> policy[app].deny]]

FreshSession ==
    [app |-> request.app, origin |-> request.origin, status |-> "active",
     approvalType |-> "session", used |-> FALSE, expiresAt |-> expiresInMs,
     permissions |-> granted]

Allows(intent, spent) ==
    evaluateIntent(PolicyView, intent, FreshSession, 0, spent, TRUE) = Allowed

Within(amount, limit) == limit # Undefined => amount <= limit

IntentOf(action, asset, amount) ==
    [app |-> request.app, origin |-> request.origin,
     action |-> action, asset |-> asset, amount |-> amount]

CapOf(rule, action) ==
    IF action = "invoice.create" THEN rule.maxPerInvoice ELSE rule.maxPerPayment

\* Whatever an application asks for and in whatever combination, a session
\* allows it no intent that the app's rule in the policy does not: the asset
\* is one of the rule's, the amount within its cap and the day's total within
\* its limit.
GrantStaysWithinPolicy(assets, amounts) ==
    outcome = "granted" =>
      \A action \in {p.action : p \in granted}, asset \in assets, amount, spent \in amounts :
        Allows(IntentOf(action, asset, amount), spent) =>
          /\ action \in DOMAIN App.allow \ App.deny
          /\ LET rule == App.allow[action] IN
               /\ IF rule.assets = Undefined THEN asset = Undefined ELSE asset \in rule.assets
               /\ Within(amount, CapOf(rule, action))
               /\ Within(spent + amount, rule.dailyLimit)

\* Every granted permission can be used to its limits: none is hidden behind
\* another one for the same action and asset.
GrantMeansWhatItSays(amounts) ==
    outcome = "granted" =>
      \A p \in granted : \A amount, spent \in amounts :
        Allows(IntentOf(p.action, p.asset, amount), spent)
          <=> Within(amount, CapOf(p, p.action)) /\ Within(spent + amount, p.dailyLimit)

\* A request is granted only as a whole: every entry got at least one
\* permission, for its asset or else for every asset of its rule.
EveryEntryIsGranted ==
    outcome = "granted" =>
      \A k \in DOMAIN request.permissions :
        LET entry == request.permissions[k]
            rule  == App.allow[entry.action]
        IN  \A asset \in IF entry.asset # Undefined THEN {entry.asset}
                         ELSE IF rule.assets # Undefined THEN rule.assets
                         ELSE {Undefined} :
              IsGranted(entry.action, asset)

\* The owner is asked, and the session ends, as the strictest of the rules
\* and entries demands, whatever their order.
StrictestTermsApply ==
    outcome = "granted" =>
      LET entries == {request.permissions[k] : k \in DOMAIN request.permissions}
          rules   == {App.allow[entry.action] : entry \in entries}
      IN  /\ requiresApproval <=> \E rule \in rules : rule.requireApproval
          /\ expiresInMs <= DefaultTtl
          /\ \A term \in entries \cup rules : Within(expiresInMs, term.expiresIn)

-----------------------------------------------------------------------------
(* The inductive invariant *)

RuleOf(k) == App.allow[request.permissions[k].action]

PermissionsOf(k) == GrantableFor(RuleOf(k), request.permissions[k])

\* The loop has taken the k-th entry into account.
EntryIsSettled(k) ==
    LET entry == request.permissions[k] IN
      /\ refusal(App, entry) = Passes
      /\ \A asset \in resolveAssets(RuleOf(k), entry) : IsGranted(entry.action, asset)
      /\ \A term \in {entry, RuleOf(k)} : term.expiresIn # Undefined => term.expiresIn \in expiries
      /\ RuleOf(k).requireApproval => requiresApproval

\* Every entry before the next one is settled, and nothing is there that one
\* of them did not ask for.
GrantInv ==
    LET seen == 1..(next - 1) IN
      /\ policy \in AppPolicies /\ request \in Requests
      /\ next \in 1..(Len(request.permissions) + 1)
      /\ next > 1 \/ outcome = "granted" => CallerIsKnown
      /\ outcome = "granted" => next = Len(request.permissions) + 1
      /\ \A k \in seen : EntryIsSettled(k)
      /\ \A p \in granted : \E k \in seen : p \in PermissionsOf(k)
      /\ \A p, q \in granted : p.action = q.action /\ p.asset = q.asset => p = q
      /\ expiries \subseteq Nat \ {0}
      /\ requiresApproval \in BOOLEAN
      /\ requiresApproval => \E k \in seen : RuleOf(k).requireApproval
=============================================================================
