---------------------------- MODULE PolicyProofs ----------------------------
(***************************************************************************)
(* Theorems about the policy engine, for any policies, requests, intents   *)
(* and amounts the schemas let through.                                    *)
(***************************************************************************)
EXTENDS PolicyEngine, DataLemmas, TLAPS

-----------------------------------------------------------------------------
(* What a request is granted *)

LEMMA GrantInvInit == Init => GrantInv
<1> SUFFICES ASSUME Init PROVE GrantInv
  OBVIOUS
<1>1. next = 1 /\ granted = {} /\ expiries = {} /\ requiresApproval = FALSE
      /\ outcome = "evaluating" /\ policy \in AppPolicies /\ request \in Requests
  BY DEF Init
<1>2. next \in 1..(Len(request.permissions) + 1)
  BY <1>1, GrantAssumption
<1>3. 1..(next - 1) = {}
  BY <1>1
<1>4. \A k \in 1..(next - 1) : FALSE
  BY <1>3
<1>5. /\ policy \in AppPolicies /\ request \in Requests
      /\ ~(next > 1 \/ outcome = "granted")
      /\ \A k \in 1..(next - 1) : EntryIsSettled(k)
      /\ \A p \in granted : FALSE
      /\ expiries \subseteq Nat \ {0}
  BY <1>1, <1>4
<1>6. requiresApproval \in BOOLEAN /\ ~requiresApproval
  BY <1>1
<1> QED BY <1>2, <1>5, <1>6 DEF GrantInv

\* What an entry is judged by.
LEMMA EntryTypes ==
    ASSUME policy \in AppPolicies, request \in Requests, CallerIsKnown,
           NEW k \in 1..Len(request.permissions),
           refusal(App, request.permissions[k]) = Passes
    PROVE  /\ HasLimits(request.permissions[k])
           /\ request.permissions[k].action \in DOMAIN App.allow
           /\ request.permissions[k].action \notin App.deny
           /\ IsRule(RuleOf(k))
<1>1. /\ request.permissions[k].action \in DOMAIN App.allow
      /\ request.permissions[k].action \notin App.deny
  BY DEF refusal, Passes
<1> QED BY <1>1, GrantAssumption DEF RuleOf, App, CallerIsKnown

LEMMA GrantInvStep == GrantInv /\ [Next]_vars => GrantInv'
<1> SUFFICES ASSUME GrantInv, [Next]_vars PROVE GrantInv'
  OBVIOUS
<1>1. Len(request.permissions) \in Nat /\ DOMAIN request.permissions = 1..Len(request.permissions)
  BY GrantAssumption DEF GrantInv
<1>2. ASSUME RejectCaller \/ RejectEntry PROVE GrantInv'
  <2>1. outcome' # "granted"
    BY <1>2 DEF RejectCaller, RejectEntry, Reject, refusal, Passes
  <2>2. UNCHANGED <<policy, request, next, granted, expiries, requiresApproval>>
    BY <1>2 DEF RejectCaller, RejectEntry, Reject
  <2>3. UNCHANGED App
    BY <2>2 DEF App
  <2> QED BY <2>1, <2>2, <2>3 DEF GrantInv, CallerIsKnown, EntryIsSettled, PermissionsOf, GrantableFor, RuleOf, IsGranted
<1>3. CASE Grant
  <2>1. UNCHANGED <<policy, request, next, granted, expiries, requiresApproval>>
        /\ outcome' = "granted" /\ CallerIsKnown /\ next = Len(request.permissions) + 1
    BY <1>3 DEF Grant
  <2>2. UNCHANGED App
    BY <2>1 DEF App
  <2> QED BY <2>1, <2>2 DEF GrantInv, CallerIsKnown, EntryIsSettled, PermissionsOf, GrantableFor, RuleOf, IsGranted
<1>4. CASE GrantEntry
  <2>1. PICK k \in 1..Len(request.permissions) : k = next
    BY <1>1, <1>4 DEF GrantEntry, AtEntry, GrantInv
  <2> DEFINE entry == request.permissions[k]
             rule  == RuleOf(k)
             fresh == {a \in resolveAssets(rule, entry) : ~IsGranted(entry.action, a)}
             added == {buildGrantedPermission(rule, entry, a) : a \in fresh}
  <2>2. /\ UNCHANGED <<policy, request, outcome>>
        /\ next' = k + 1
        /\ granted' = granted \cup added
        /\ expiries' = expiries \cup ({entry.expiresIn, rule.expiresIn} \ {Undefined})
        /\ requiresApproval' = (requiresApproval \/ rule.requireApproval)
        /\ outcome = "evaluating" /\ CallerIsKnown
        /\ refusal(App, entry) = Passes
    BY <1>4, <2>1 DEF GrantEntry, AtEntry, RuleOf, Entry
  <2>3. HasLimits(entry) /\ IsRule(rule)
    BY <2>2, EntryTypes DEF GrantInv
  <2>4. UNCHANGED <<App, entry>> /\ \A j : UNCHANGED <<RuleOf(j), PermissionsOf(j)>>
    BY <2>2 DEF App, RuleOf, PermissionsOf
  <2>5. 1..(next' - 1) = 1..(next - 1) \cup {k} /\ next' \in 1..(Len(request.permissions) + 1)
    BY <1>1, <2>1, <2>2
  <2>6. ASSUME NEW action, NEW asset, IsGranted(action, asset) PROVE IsGranted(action, asset)'
    BY <2>2, <2>6 DEF IsGranted
  <2>7. \A p \in added : /\ p.action = entry.action
                         /\ p.asset \in fresh
                         /\ p = buildGrantedPermission(rule, entry, p.asset)
    BY DEF buildGrantedPermission
  <2>8. ASSUME NEW a \in resolveAssets(rule, entry) PROVE IsGranted(entry.action, a)'
    <3>1. CASE IsGranted(entry.action, a)
      BY <3>1, <2>6, <2>4
    <3>2. CASE ~IsGranted(entry.action, a)
      <4>1. buildGrantedPermission(rule, entry, a) \in granted'
        BY <3>2, <2>2
      <4>2. /\ buildGrantedPermission(rule, entry, a).action = entry.action
            /\ buildGrantedPermission(rule, entry, a).asset = a
        BY DEF buildGrantedPermission
      <4> QED BY <4>1, <4>2, <2>4 DEF IsGranted
    <3> QED BY <3>1, <3>2
  <2>9. \A j \in 1..(next - 1) : EntryIsSettled(j)'
    <3> TAKE j \in 1..(next - 1)
    <3>1. EntryIsSettled(j)
      BY DEF GrantInv
    <3> QED BY <3>1, <2>2, <2>4, <2>6 DEF EntryIsSettled
  <2>10. EntryIsSettled(k)'
    <3> HIDE DEF added, fresh
    <3> QED BY <2>2, <2>4, <2>8 DEF EntryIsSettled
  <2>11. \A p \in granted' : \E j \in 1..(next' - 1) : p \in PermissionsOf(j)'
    <3>1. added \subseteq PermissionsOf(k)
      BY DEF PermissionsOf, GrantableFor
    <3> HIDE DEF added
    <3> QED BY <3>1, <2>2, <2>4, <2>5 DEF GrantInv
  <2>12. \A p, q \in granted' : p.action = q.action /\ p.asset = q.asset => p = q
    <3>1. \A p \in granted : IsGranted(p.action, p.asset)
      BY DEF IsGranted
    <3>2. \A p, q \in granted : p.action = q.action /\ p.asset = q.asset => p = q
      BY DEF GrantInv
    <3>3. \A a \in fresh : ~IsGranted(entry.action, a)
      OBVIOUS
    <3> HIDE DEF added, fresh
    <3> QED BY <3>1, <3>2, <3>3, <2>7, <2>2
  <2>13. expiries' \subseteq Nat \ {0} /\ requiresApproval' \in BOOLEAN
    BY <2>2, <2>3 DEF GrantInv, HasLimits, IsRule, Durations
  <2>14. requiresApproval' => \E j \in 1..(next' - 1) : RuleOf(j)'.requireApproval
    BY <2>2, <2>4, <2>5 DEF GrantInv
  <2>15. CallerIsKnown'
    BY <2>2, <2>4 DEF CallerIsKnown
  <2>16. policy' \in AppPolicies /\ request' \in Requests /\ outcome' # "granted"
         /\ next' \in 1..(Len(request'.permissions) + 1)
    BY <2>2, <2>5 DEF GrantInv
  <2>17. \A j \in 1..(next' - 1) : EntryIsSettled(j)'
    BY <2>5, <2>9, <2>10
  <2> HIDE DEF added, fresh, entry, rule
  <2> QED BY <2>11, <2>12, <2>13, <2>14, <2>15, <2>16, <2>17 DEF GrantInv
<1>5. CASE UNCHANGED vars
  <2>1. UNCHANGED <<App, policy, request, next, granted, expiries, requiresApproval, outcome>>
    BY <1>5 DEF vars, App
  <2> QED BY <2>1 DEF GrantInv, CallerIsKnown, EntryIsSettled, PermissionsOf, GrantableFor, RuleOf, IsGranted
<1> QED BY <1>2, <1>3, <1>4, <1>5 DEF Next

\* GrantInv is an invariant of the evaluation of a request
\* (evaluateSessionRequest): what is granted is what the entries seen so far
\* ask for, once for an action and an asset.
THEOREM GrantInvariant == Spec => []GrantInv
<1> QED BY GrantInvInit, GrantInvStep, PTL DEF Spec

\* EveryEntryIsGranted is an invariant: a request is granted only as a whole.
THEOREM RequestsAreGrantedAsAWhole == Spec => []EveryEntryIsGranted
<1>1. ASSUME GrantInv PROVE EveryEntryIsGranted
  <2> SUFFICES ASSUME outcome = "granted", NEW k \in DOMAIN request.permissions,
                      NEW asset \in IF request.permissions[k].asset # Undefined
                                      THEN {request.permissions[k].asset}
                                    ELSE IF RuleOf(k).assets # Undefined THEN RuleOf(k).assets
                                    ELSE {Undefined}
               PROVE  IsGranted(request.permissions[k].action, asset)
    BY DEF EveryEntryIsGranted, RuleOf
  <2>1. k \in 1..(next - 1)
    BY <1>1, GrantAssumption DEF GrantInv
  <2>2. EntryIsSettled(k)
    BY <1>1, <2>1 DEF GrantInv
  <2>3. asset \in resolveAssets(RuleOf(k), request.permissions[k])
    BY <2>2 DEF EntryIsSettled, refusal, Passes, resolveAssets, RuleOf
  <2> QED BY <2>2, <2>3 DEF EntryIsSettled
<1> QED BY <1>1, GrantInvariant, PTL

\* The granted time is the least of the terms the loop has collected.
LEMMA ExpiryIsLeast ==
    ASSUME GrantInv
    PROVE  /\ expiresInMs \in Nat \ {0}
           /\ \A term \in expiries \cup {DefaultTtl} : expiresInMs <= term
<1>1. expiries \cup {DefaultTtl} \subseteq Nat \ {0}
  BY GrantAssumption DEF GrantInv
<1> QED BY <1>1, MinIsLeast DEF expiresInMs

\* StrictestTermsApply is an invariant: the owner is asked, and the session
\* ends, as the strictest of the rules and entries demands, in any order.
THEOREM StrictestTermsWin == Spec => []StrictestTermsApply
<1>1. ASSUME GrantInv PROVE StrictestTermsApply
  <2> DEFINE entries == {request.permissions[k] : k \in DOMAIN request.permissions}
             rules   == {App.allow[entry.action] : entry \in entries}
  <2>1. SUFFICES ASSUME outcome = "granted"
                 PROVE  /\ requiresApproval <=> \E rule \in rules : rule.requireApproval
                        /\ expiresInMs <= DefaultTtl
                        /\ \A term \in entries \cup rules : Within(expiresInMs, term.expiresIn)
    BY DEF StrictestTermsApply
  <2>2. DOMAIN request.permissions = 1..(next - 1)
    BY <1>1, <2>1, GrantAssumption DEF GrantInv
  <2>3. rules = {RuleOf(k) : k \in DOMAIN request.permissions}
    BY DEF RuleOf
  <2>4. \A k \in DOMAIN request.permissions : EntryIsSettled(k)
    BY <1>1, <2>2 DEF GrantInv
  <2>5. requiresApproval <=> \E rule \in rules : rule.requireApproval
    <3>1. ASSUME requiresApproval PROVE \E rule \in rules : rule.requireApproval
      BY <1>1, <2>2, <2>3, <3>1 DEF GrantInv
    <3>2. ASSUME NEW rule \in rules, rule.requireApproval PROVE requiresApproval
      BY <2>3, <2>4, <3>2 DEF EntryIsSettled
    <3> QED BY <3>1, <3>2
  <2>6. expiresInMs <= DefaultTtl
    BY <1>1, ExpiryIsLeast
  <2>7. ASSUME NEW term \in entries \cup rules, term.expiresIn # Undefined
        PROVE  expiresInMs <= term.expiresIn
    <3>1. PICK k \in DOMAIN request.permissions : term \in {request.permissions[k], RuleOf(k)}
      BY <2>3
    <3>2. term.expiresIn \in expiries
      BY <2>4, <2>7, <3>1 DEF EntryIsSettled
    <3> QED BY <1>1, <3>2, ExpiryIsLeast
  <2> QED BY <2>5, <2>6, <2>7 DEF Within
<1> QED BY <1>1, GrantInvariant, PTL

-----------------------------------------------------------------------------
(* When evaluateIntent allows an intent *)

\* The last checks, as one condition: the amount is there and within the cap,
\* the day's total within the limit, and a payment that is read is not another
\* session's.  (A total too long to parse is above every limit.)
LEMMA PermissionAllows ==
    ASSUME NEW p, HasCaps(p), NEW i, i.amount \in Nat \cup {Undefined},
           NEW day \in Nat \cup {Undefined}, NEW mine
    PROVE  LET cap == Cap(p, i.action) already == IF day = Undefined THEN 0 ELSE day IN
             evaluatePermission(p, i, day, mine) = Allowed <=>
               /\ cap # Undefined => i.amount # Undefined /\ i.amount <= cap
               /\ p.dailyLimit # Undefined /\ i.amount # Undefined =>
                    already + i.amount <= p.dailyLimit
               /\ ~(i.action = "payment.read_own" /\ mine = FALSE)
<1> DEFINE cap == Cap(p, i.action)
           already == IF day = Undefined THEN 0 ELSE day
           limited == p.dailyLimit # Undefined /\ i.amount # Undefined
<1>1. cap \in 0..MaxAmount \cup {Undefined} /\ p.dailyLimit \in 0..MaxAmount \cup {Undefined}
  BY DEF HasCaps, CapFields, Limits, Cap
<1>2. already \in Nat
  OBVIOUS
<1>3. evaluatePermission(p, i, day, mine) = Allowed <=>
        /\ ~(cap # Undefined /\ i.amount = Undefined)
        /\ ~(cap # Undefined /\ i.amount > cap)
        /\ ~(limited /\ ~(already <= MaxAmount /\ already + i.amount <= MaxAmount))
        /\ ~(limited /\ already + i.amount > p.dailyLimit)
        /\ ~(i.action = "payment.read_own" /\ mine = FALSE)
  BY DEF evaluatePermission, Parses, addAmounts, Allowed, Blocked, Thrown
<1>4. cap # Undefined /\ i.amount # Undefined => (i.amount > cap <=> ~(i.amount <= cap))
  BY <1>1, AmountAssumption
<1>5. limited => /\ already + i.amount > p.dailyLimit <=> ~(already + i.amount <= p.dailyLimit)
                 /\ already + i.amount <= p.dailyLimit =>
                      already <= MaxAmount /\ already + i.amount <= MaxAmount
  BY <1>1, <1>2, AmountAssumption
<1> HIDE DEF cap, already, limited
<1>6. evaluatePermission(p, i, day, mine) = Allowed <=>
        /\ cap # Undefined => i.amount # Undefined /\ i.amount <= cap
        /\ limited => already + i.amount <= p.dailyLimit
        /\ ~(i.action = "payment.read_own" /\ mine = FALSE)
  BY <1>3, <1>4, <1>5
<1> QED BY <1>6 DEF cap, already, limited

\* All checks together.
LEMMA AllowedExactly ==
    ASSUME NEW rules, NEW i, NEW s, NEW t, NEW day, NEW mine,
           OnePermissionEach(s.permissions)
    PROVE  evaluateIntent(rules, i, s, t, day, mine) = Allowed <=>
             /\ i.app \in DOMAIN rules
             /\ i.origin \in rules[i.app].origins
             /\ checkSession(s, i, t) = Passes
             /\ i.action \notin rules[i.app].deny
             /\ i.action \in rules[i.app].allow
             /\ \E p \in s.permissions :
                  /\ p.action = i.action /\ p.asset = i.asset
                  /\ evaluatePermission(p, i, day, mine) = Allowed
<1> DEFINE matching == MatchingPermissions(s, i)
           chosen == CHOOSE p \in matching : TRUE
           state == checkSession(s, i, t)
           action == checkAction(rules[i.app], s, i)
           last == evaluatePermission(chosen, i, day, mine)
<1>1. matching = {p \in s.permissions : p.action = i.action /\ p.asset = i.asset}
  BY DEF MatchingPermissions, PermissionsFor
<1>2. \A p \in matching : p = chosen
  BY <1>1 DEF OnePermissionEach
<1>3. matching # {} => chosen \in matching
  OBVIOUS
<1>4. action = Passes <=> /\ i.action \notin rules[i.app].deny
                          /\ i.action \in rules[i.app].allow
                          /\ matching # {}
  BY DEF checkAction, Passes, MatchingPermissions
<1>5. evaluateIntent(rules, i, s, t, day, mine) = Allowed <=>
        /\ i.app \in DOMAIN rules
        /\ i.origin \in rules[i.app].origins
        /\ state = Passes /\ action = Passes /\ last = Allowed
  <2> HIDE DEF state, action, last
  <2>1. \A r : Blocked(r) # Allowed
    BY DEF Blocked, Allowed
  <2>2. evaluateIntent(rules, i, s, t, day, mine) =
          IF i.app \notin DOMAIN rules THEN Blocked("APP_NOT_FOUND")
          ELSE IF i.origin \notin rules[i.app].origins THEN Blocked("ORIGIN_NOT_ALLOWED")
          ELSE IF state # Passes THEN Blocked(state)
          ELSE IF action # Passes THEN Blocked(action)
          ELSE last
    BY DEF evaluateIntent, state, action, last
  <2> QED BY <2>1, <2>2
<1>6. (\E p \in s.permissions : /\ p.action = i.action /\ p.asset = i.asset
                                /\ evaluatePermission(p, i, day, mine) = Allowed)
      <=> matching # {} /\ last = Allowed
  <2> HIDE DEF matching, chosen
  <2> QED BY <1>1, <1>2, <1>3
<1> HIDE DEF state, action, last, matching
<1>7. QED BY <1>4, <1>5, <1>6 DEF state

-----------------------------------------------------------------------------
(* What a grant allows *)

\* A limit that is at least as strict as another one.
AsStrict(limit, bound) == bound # Undefined => limit # Undefined /\ limit <= bound

\* A granted permission is one of the app's rule: its action is allowed and not
\* denied, its asset is one of the rule's, its limits are as strict.
LEMMA GrantedPermissions ==
    ASSUME GrantInv, NEW p \in granted
    PROVE  LET rule == App.allow[p.action] IN
             /\ CallerIsKnown
             /\ p.action \in DOMAIN App.allow /\ p.action \notin App.deny
             /\ IF rule.assets = Undefined THEN p.asset = Undefined ELSE p.asset \in rule.assets
             /\ HasCaps(p) /\ HasCaps(rule)
             /\ \A field \in CapFields : AsStrict(p[field], rule[field])
<1>1. PICK k \in 1..(next - 1) : p \in PermissionsOf(k)
  BY DEF GrantInv
<1>2. k \in 1..Len(request.permissions) /\ CallerIsKnown
  BY <1>1, GrantAssumption DEF GrantInv
<1> DEFINE entry == request.permissions[k]
           rule  == RuleOf(k)
<1>3. refusal(App, entry) = Passes
  BY <1>1 DEF GrantInv, EntryIsSettled
<1>4. HasLimits(entry) /\ entry.action \in DOMAIN App.allow /\ entry.action \notin App.deny
      /\ IsRule(rule)
  BY <1>2, <1>3, EntryTypes DEF GrantInv
<1>5. PICK asset \in resolveAssets(rule, entry) : p = buildGrantedPermission(rule, entry, asset)
  BY <1>1 DEF PermissionsOf, GrantableFor
<1>6. /\ p.action = entry.action /\ p.asset = asset
      /\ \A field \in CapFields : p[field] = OrElse(entry[field], rule[field])
  BY <1>5 DEF buildGrantedPermission, CapFields
<1>7. rule = App.allow[p.action]
  BY <1>6 DEF RuleOf
<1>8. /\ \A field \in CapFields : ~ExceedsCap(entry[field], rule[field])
      /\ entry.asset # Undefined => rule.assets # Undefined /\ entry.asset \in rule.assets
  BY <1>3 DEF refusal, Passes, RuleOf
<1>9. IF rule.assets = Undefined THEN p.asset = Undefined ELSE p.asset \in rule.assets
  BY <1>5, <1>6, <1>8 DEF resolveAssets
<1>10. \A field \in CapFields : /\ entry[field] \in Limits /\ rule[field] \in Limits
                                /\ p[field] \in Limits /\ AsStrict(p[field], rule[field])
  <2> TAKE field \in CapFields
  <2>1. entry[field] \in Limits /\ rule[field] \in Limits
    BY <1>4 DEF HasLimits, IsRule
  <2> QED BY <2>1, <1>6, <1>8, AmountAssumption DEF OrElse, ExceedsCap, AsStrict, Limits
<1> HIDE DEF entry, rule
<1> QED BY <1>2, <1>4, <1>6, <1>7, <1>9, <1>10 DEF HasCaps

LEMMA FreshSessionIsOne == GrantInv => FreshSession # Undefined
<1> SUFFICES ASSUME GrantInv PROVE FreshSession \in Sessions
  BY SessionAssumption
<1>1. ASSUME NEW p \in granted PROVE p \in Grantable
  <2>1. PICK k \in 1..(next - 1) : p \in PermissionsOf(k)
    BY DEF GrantInv
  <2>2. k \in 1..Len(request.permissions) /\ CallerIsKnown
    BY <2>1, GrantAssumption DEF GrantInv
  <2>3. request.permissions[k] \in AskedFor
    BY <2>2, GrantAssumption DEF AskedFor, GrantInv
  <2>4. refusal(App, request.permissions[k]) = Passes
    BY <2>1 DEF GrantInv, EntryIsSettled
  <2>5. RuleOf(k) \in Rules
    BY <2>2, <2>4, EntryTypes DEF GrantInv, Rules, RuleOf, App, CallerIsKnown
  <2> QED BY <2>1, <2>3, <2>5 DEF PermissionsOf, Grantable
<1>2. expiresInMs \in Nat
  BY ExpiryIsLeast
<1> QED BY <1>1, <1>2 DEF FreshSession, Sessions, GrantInv

\* A granted session allows an intent of its app exactly when one of its
\* permissions does.
LEMMA GrantAllows ==
    ASSUME GrantInv, NEW action, NEW asset, NEW amount \in Nat, NEW day \in Nat,
           NEW p \in granted, p.action = action
    PROVE  Allows(IntentOf(action, asset, amount), day) <=>
             \E q \in granted :
               /\ q.action = action /\ q.asset = asset
               /\ Within(amount, CapOf(q, action)) /\ Within(day + amount, q.dailyLimit)
<1> DEFINE i == IntentOf(action, asset, amount)
           s == FreshSession
<1>1. OnePermissionEach(s.permissions) /\ s.permissions = granted
  BY DEF GrantInv, OnePermissionEach, FreshSession
<1>2. i.app \in DOMAIN PolicyView /\ i.origin \in PolicyView[i.app].origins
      /\ i.action \notin PolicyView[i.app].deny /\ i.action \in PolicyView[i.app].allow
  BY GrantedPermissions DEF IntentOf, PolicyView, CallerIsKnown, App
<1>3. checkSession(s, i, 0) = Passes
  BY FreshSessionIsOne, ExpiryIsLeast
     DEF checkSession, FreshSession, IntentOf, Consumed, Passes
<1>4. \A q \in granted :
        evaluatePermission(q, i, day, TRUE) = Allowed <=>
          Within(amount, CapOf(q, i.action)) /\ Within(day + amount, q.dailyLimit)
  <2> TAKE q \in granted
  <2>1. HasCaps(q) /\ i.amount = amount /\ amount # Undefined /\ day # Undefined
    BY GrantedPermissions, AmountAssumption DEF IntentOf
  <2>2. \A a : CapOf(q, a) = Cap(q, a)
    BY DEF CapOf, Cap
  <2> HIDE DEF i
  <2> QED BY <2>1, <2>2, PermissionAllows DEF Within
<1>5. i.action = action /\ i.asset = asset
  BY DEF IntentOf
<1>6. Allows(i, day) <=> \E q \in granted : /\ q.action = action /\ q.asset = asset
                                            /\ evaluatePermission(q, i, day, TRUE) = Allowed
  <2>1. PICK mine : mine = TRUE
    OBVIOUS
  <2>2. Allows(i, day) <=> evaluateIntent(PolicyView, i, s, 0, day, mine) = Allowed
    BY <2>1 DEF Allows
  <2> HIDE DEF i, s
  <2>3. evaluateIntent(PolicyView, i, s, 0, day, mine) = Allowed <=>
          /\ i.app \in DOMAIN PolicyView
          /\ i.origin \in PolicyView[i.app].origins
          /\ checkSession(s, i, 0) = Passes
          /\ i.action \notin PolicyView[i.app].deny
          /\ i.action \in PolicyView[i.app].allow
          /\ \E q \in s.permissions :
               /\ q.action = i.action /\ q.asset = i.asset
               /\ evaluatePermission(q, i, day, mine) = Allowed
    BY <1>1, AllowedExactly
  <2> QED BY <2>1, <2>2, <2>3, <1>1, <1>2, <1>3, <1>5
<1> HIDE DEF i
<1>7. Allows(i, day) <=> \E q \in granted :
        /\ q.action = action /\ q.asset = asset
        /\ Within(amount, CapOf(q, action)) /\ Within(day + amount, q.dailyLimit)
  BY <1>4, <1>5, <1>6
<1> QED BY <1>7 DEF i

\* A granted session never allows more than the policy does: as strict limits
\* are passed by fewer amounts.
LEMMA GrantedWithinPolicy ==
    ASSUME GrantInv, NEW assets, NEW amounts, amounts \subseteq Nat
    PROVE  GrantStaysWithinPolicy(assets, amounts)
<1> SUFFICES ASSUME NEW p \in granted, NEW asset \in assets,
                    NEW amount \in amounts, NEW day \in amounts,
                    Allows(IntentOf(p.action, asset, amount), day)
             PROVE  /\ p.action \in DOMAIN App.allow \ App.deny
                    /\ LET rule == App.allow[p.action] IN
                         /\ IF rule.assets = Undefined THEN asset = Undefined
                            ELSE asset \in rule.assets
                         /\ Within(amount, CapOf(rule, p.action))
                         /\ Within(day + amount, rule.dailyLimit)
  BY DEF GrantStaysWithinPolicy
<1> DEFINE rule == App.allow[p.action]
<1>1. PICK q \in granted :
        /\ q.action = p.action /\ q.asset = asset
        /\ Within(amount, CapOf(q, p.action)) /\ Within(day + amount, q.dailyLimit)
  BY GrantAllows
<1>2. /\ q.action \in DOMAIN App.allow /\ q.action \notin App.deny
      /\ IF rule.assets = Undefined THEN q.asset = Undefined ELSE q.asset \in rule.assets
      /\ HasCaps(q) /\ HasCaps(rule)
      /\ \A field \in CapFields : AsStrict(q[field], rule[field])
  BY <1>1, GrantedPermissions
<1>3. \A field \in CapFields, n \in Nat : Within(n, q[field]) => Within(n, rule[field])
  BY <1>2, AmountAssumption DEF AsStrict, Within, HasCaps, Limits
<1>4. Within(amount, CapOf(rule, p.action)) /\ Within(day + amount, rule.dailyLimit)
  <2>1. amount \in Nat /\ day + amount \in Nat
    OBVIOUS
  <2> HIDE DEF rule
  <2> QED BY <2>1, <1>1, <1>3 DEF CapOf, CapFields
<1> HIDE DEF rule
<1>5. QED BY <1>1, <1>2, <1>4 DEF rule

\* Every granted permission can be used up to its own limits.
LEMMA GrantedIsUsable ==
    ASSUME GrantInv, NEW amounts, amounts \subseteq Nat
    PROVE  GrantMeansWhatItSays(amounts)
<1> SUFFICES ASSUME NEW p \in granted, NEW amount \in amounts, NEW day \in amounts
             PROVE  Allows(IntentOf(p.action, p.asset, amount), day)
                      <=> /\ Within(amount, CapOf(p, p.action))
                          /\ Within(day + amount, p.dailyLimit)
  BY DEF GrantMeansWhatItSays
<1>1. \A q \in granted : q.action = p.action /\ q.asset = p.asset => q = p
  BY DEF GrantInv
<1> QED BY <1>1, GrantAllows

-----------------------------------------------------------------------------
(* The engine's steps *)

\* The engine evaluates requests as SessionGrant does: what is tried on a
\* granted session afterwards changes nothing of the evaluation.
THEOREM EngineEvaluatesRequests == PolicySpec => Spec
<1>1. PolicyInit => Init
  BY DEF PolicyInit
<1>2. [PolicyNext]_<<vars, attempt>> => [Next]_vars
  BY DEF PolicyNext, Evaluate, Try, TimePasses, SpendIsCharged, SessionIsRevoked,
         SessionIsUsed, ActionIsDenied
<1> QED BY <1>1, <1>2, PTL DEF PolicySpec, Spec

\* GrantIsWithinPolicy is an invariant: for every policy, request and combination
\* of entries, a granted session allows no intent its app's rule does not.
THEOREM GrantsStayWithinPolicy == PolicySpec => []GrantIsWithinPolicy
<1>1. GrantInv => GrantIsWithinPolicy
  BY GrantedWithinPolicy, EngineAssumption DEF GrantIsWithinPolicy
<1> QED BY <1>1, EngineEvaluatesRequests, GrantInvariant, PTL

\* GrantIsUsable is an invariant: every granted permission works up to its limits.
THEOREM GrantsAreUsable == PolicySpec => []GrantIsUsable
<1>1. GrantInv => GrantIsUsable
  BY GrantedIsUsable, EngineAssumption DEF GrantIsUsable
<1> QED BY <1>1, EngineEvaluatesRequests, GrantInvariant, PTL

LEMMA AttemptInvInit == PolicyInit => AttemptInv
<1> SUFFICES ASSUME PolicyInit PROVE AttemptInv
  OBVIOUS
<1>1. GrantInv
  BY GrantInvInit DEF PolicyInit
<1>2. IsPolicy(current)
  BY DEF PolicyInit, PolicyView, IsPolicy
<1>3. session = Undefined /\ ~Tried /\ now \in Nat
  BY DEF PolicyInit, Tried
<1> QED BY <1>1, <1>2, <1>3 DEF AttemptInv

\* What an attempt starts with.
LEMMA SnapshotsAreSound == GrantInv => \A s \in Snapshots : s # Undefined => IsSnapshot(s)
<1> SUFFICES ASSUME GrantInv, NEW s \in Snapshots, s # Undefined PROVE IsSnapshot(s)
  OBVIOUS
<1>1. PICK app, type, status : s = SnapshotFor(app, type, status)
  BY DEF Snapshots
<1>2. expiresInMs \in Nat
  BY ExpiryIsLeast
<1>3. OnePermissionEach(granted) /\ \A p \in granted : HasCaps(p)
  BY GrantedPermissions DEF GrantInv, OnePermissionEach
<1>4. s = [app |-> app, origin |-> request.origin, status |-> status,
           approvalType |-> type, used |-> FALSE, expiresAt |-> expiresInMs,
           permissions |-> granted]
  BY <1>1 DEF SnapshotFor, FreshSession
<1> HIDE DEF expiresInMs
<1> QED BY <1>2, <1>3, <1>4 DEF IsSnapshot

LEMMA AttemptInvStep == AttemptInv /\ [PolicyNext]_<<vars, attempt>> => AttemptInv'
<1> SUFFICES ASSUME AttemptInv, [PolicyNext]_<<vars, attempt>> PROVE AttemptInv'
  OBVIOUS
<1>1. GrantInv'
  <2>1. [Next]_vars
    BY DEF PolicyNext, Evaluate, Try, TimePasses, SpendIsCharged, SessionIsRevoked,
           SessionIsUsed, ActionIsDenied
  <2> QED BY <2>1, GrantInvStep DEF AttemptInv
<1>2. CASE Evaluate \/ UNCHANGED <<vars, attempt>>
  BY <1>1, <1>2 DEF Evaluate, attempt, AttemptInv, Tried
<1>3. CASE Try
  BY <1>1, <1>3, SnapshotsAreSound DEF Try, AttemptInv, Tried
<1>4. CASE TimePasses
  BY <1>1, <1>4 DEF TimePasses, AttemptInv, Tried
<1>5. CASE SpendIsCharged
  BY <1>1, <1>5 DEF SpendIsCharged, AttemptInv, Tried
<1>6. ASSUME SessionIsRevoked \/ SessionIsUsed PROVE AttemptInv'
  <2>1. IsSnapshot(session)
    BY <1>6 DEF SessionIsRevoked, SessionIsUsed, AttemptInv
  <2>2. /\ session' = [session EXCEPT !.status = "revoked"]
           \/ session' = [session EXCEPT !.used = TRUE]
        /\ UNCHANGED <<vars, intent, now, spent, owned, current>>
    BY <1>6 DEF SessionIsRevoked, SessionIsUsed
  <2>3. IsSnapshot(session')
    BY <2>1, <2>2 DEF IsSnapshot
  <2> QED BY <1>1, <2>2, <2>3 DEF AttemptInv, Tried
<1>7. CASE ActionIsDenied
  <2>1. IsPolicy(current) /\ intent.app \in DOMAIN current
    BY <1>7 DEF ActionIsDenied, AttemptInv
  <2>2. IsPolicy(current')
    <3> DEFINE id == intent.app
               denied == [origins |-> current[id].origins,
                          allow |-> current[id].allow \ {intent.action},
                          deny |-> current[id].deny \cup {intent.action}]
    <3>1. current' = [app \in DOMAIN current |-> IF app = id THEN denied ELSE current[app]]
      BY <2>1, <1>7 DEF ActionIsDenied, IsPolicy
    <3>2. \A app \in DOMAIN current :
            current[app] = [origins |-> current[app].origins, allow |-> current[app].allow,
                            deny |-> current[app].deny]
      BY <2>1 DEF IsPolicy
    <3>3. denied = [origins |-> denied.origins, allow |-> denied.allow, deny |-> denied.deny]
      OBVIOUS
    <3> HIDE DEF denied
    <3>4. DOMAIN current' = DOMAIN current
          /\ current' = [app \in DOMAIN current' |-> current'[app]]
      BY <3>1
    <3>5. \A app \in DOMAIN current :
            current'[app] = [origins |-> current'[app].origins, allow |-> current'[app].allow,
                             deny |-> current'[app].deny]
      BY <3>1, <3>2, <3>3
    <3> QED BY <3>4, <3>5 DEF IsPolicy
  <2> QED BY <1>1, <1>7, <2>2 DEF ActionIsDenied, AttemptInv, Tried
<1> QED BY <1>2, <1>3, <1>4, <1>5, <1>6, <1>7 DEF PolicyNext

\* AttemptInv is an invariant of the engine.
THEOREM AttemptInvariant == PolicySpec => []AttemptInv
BY AttemptInvInit, AttemptInvStep, PTL DEF PolicySpec

-----------------------------------------------------------------------------
(* The order of the rules *)

IsList(s) == Len(s) \in Nat /\ DOMAIN s = 1..Len(s)

\* The first rule for an action is its only one.
LEMMA FindsTheRule ==
    ASSUME NEW app, IsList(app.allow), ~RepeatsAnAction(app), NEW k \in DOMAIN app.allow
    PROVE  FindRule(app, app.allow[k].action) = app.allow[k].rule
<1> DEFINE I == {i \in 1..Len(app.allow) : app.allow[i].action = app.allow[k].action}
<1>1. I \subseteq Nat /\ k \in I
  BY DEF IsList
<1>2. Min(I) \in I
  BY <1>1, MinIsLeast
<1>3. Min(I) = k
  <2>1. Min(I) \in DOMAIN app.allow /\ app.allow[Min(I)].action = app.allow[k].action
    BY <1>2 DEF IsList
  <2>2. ~(Min(I) < k) /\ ~(k < Min(I))
    BY <2>1 DEF RepeatsAnAction
  <2> QED BY <1>1, <1>2, <2>2
<1>4. FindRule(app, app.allow[k].action) = app.allow[Min(I)].rule
  <2>1. SelectInSeq(app.allow, LAMBDA r : r.action = app.allow[k].action) = Min(I)
    BY <1>1 DEF SelectInSeq
  <2> QED BY <2>1 DEF FindRule
<1> QED BY <1>3, <1>4

\* q has the elements of p, each as often, in another order.
Permutes(p, q) ==
    /\ IsList(p) /\ IsList(q)
    /\ \E f \in [DOMAIN q -> DOMAIN p] :
         /\ \A k \in DOMAIN q : q[k] = p[f[k]]
         /\ \A j, k \in DOMAIN q : f[j] = f[k] => j = k
         /\ \A j \in DOMAIN p : \E k \in DOMAIN q : f[k] = j

\* Two apps whose rules are the same but for their order.
SameRules(one, other) ==
    one.origins = other.origins /\ one.deny = other.deny /\ Permutes(one.allow, other.allow)

LEMMA SameActions ==
    ASSUME NEW one, NEW other, SameRules(one, other), NEW assets
    PROVE  /\ ActionsOf(other) = ActionsOf(one)
           /\ RepeatsAnAction(other) <=> RepeatsAnAction(one)
           /\ AllowsUndeclaredAsset(other, assets) <=> AllowsUndeclaredAsset(one, assets)
           /\ AllowsAndDenies(other) <=> AllowsAndDenies(one)
<1> DEFINE p == one.allow
           q == other.allow
<1>1. PICK f \in [DOMAIN q -> DOMAIN p] :
         /\ \A k \in DOMAIN q : q[k] = p[f[k]]
         /\ \A j, k \in DOMAIN q : f[j] = f[k] => j = k
         /\ \A j \in DOMAIN p : \E k \in DOMAIN q : f[k] = j
  BY DEF SameRules, Permutes
<1>2. DOMAIN p \subseteq Nat /\ DOMAIN q \subseteq Nat
  BY DEF SameRules, Permutes, IsList
<1>3. ActionsOf(other) = ActionsOf(one)
  <2>1. ActionsOf(other) = {q[k].action : k \in DOMAIN q} /\ ActionsOf(one) = {p[k].action : k \in DOMAIN p}
    BY DEF ActionsOf
  <2> HIDE DEF p, q
  <2>2. \A k \in DOMAIN q : q[k].action \in {p[j].action : j \in DOMAIN p}
    BY <1>1
  <2>3. \A j \in DOMAIN p : p[j].action \in {q[k].action : k \in DOMAIN q}
    <3> TAKE j \in DOMAIN p
    <3>1. PICK k \in DOMAIN q : f[k] = j
      BY <1>1
    <3> QED BY <1>1, <3>1
  <2> QED BY <2>1, <2>2, <2>3
<1>4. /\ RepeatsAnAction(other) <=> \E j, k \in DOMAIN q : j # k /\ q[j].action = q[k].action
      /\ RepeatsAnAction(one) <=> \E j, k \in DOMAIN p : j # k /\ p[j].action = p[k].action
  BY <1>2 DEF RepeatsAnAction
<1>5. /\ AllowsUndeclaredAsset(other, assets) <=>
           assets # {} /\ \E k \in DOMAIN q :
             q[k].rule.assets # Undefined /\ ~(q[k].rule.assets \subseteq assets)
      /\ AllowsUndeclaredAsset(one, assets) <=>
           assets # {} /\ \E k \in DOMAIN p :
             p[k].rule.assets # Undefined /\ ~(p[k].rule.assets \subseteq assets)
  BY DEF AllowsUndeclaredAsset
<1>6. AllowsAndDenies(other) <=> AllowsAndDenies(one)
  BY <1>3 DEF AllowsAndDenies, SameRules
<1> HIDE DEF p, q
<1>7. (\E j, k \in DOMAIN q : j # k /\ q[j].action = q[k].action)
        <=> \E j, k \in DOMAIN p : j # k /\ p[j].action = p[k].action
  <2>1. ASSUME NEW j \in DOMAIN q, NEW k \in DOMAIN q, j # k, q[j].action = q[k].action
        PROVE  \E m, n \in DOMAIN p : m # n /\ p[m].action = p[n].action
    BY <1>1, <2>1
  <2>2. ASSUME NEW m \in DOMAIN p, NEW n \in DOMAIN p, m # n, p[m].action = p[n].action
        PROVE  \E j, k \in DOMAIN q : j # k /\ q[j].action = q[k].action
    <3>1. PICK j \in DOMAIN q, k \in DOMAIN q : f[j] = m /\ f[k] = n
      BY <1>1
    <3> QED BY <1>1, <2>2, <3>1
  <2> QED BY <2>1, <2>2
<1>8. (\E k \in DOMAIN q : q[k].rule.assets # Undefined /\ ~(q[k].rule.assets \subseteq assets))
        <=> \E k \in DOMAIN p : p[k].rule.assets # Undefined /\ ~(p[k].rule.assets \subseteq assets)
  BY <1>1
<1> QED BY <1>3, <1>4, <1>5, <1>6, <1>7, <1>8

LEMMA SameRuleFound ==
    ASSUME NEW one, NEW other, SameRules(one, other), ~RepeatsAnAction(one),
           NEW action \in ActionsOf(one)
    PROVE  FindRule(other, action) = FindRule(one, action)
<1>1. PICK j \in DOMAIN one.allow : one.allow[j].action = action
  BY DEF ActionsOf
<1>2. PICK k \in DOMAIN other.allow : other.allow[k] = one.allow[j]
  BY DEF SameRules, Permutes
<1>3. ~RepeatsAnAction(other)
  BY SameActions
<1>4. FindRule(one, action) = one.allow[j].rule
  BY <1>1, FindsTheRule DEF SameRules, Permutes
<1>5. FindRule(other, action) = other.allow[k].rule
  BY <1>1, <1>2, <1>3, FindsTheRule DEF SameRules, Permutes
<1> QED BY <1>2, <1>4, <1>5

\* Two files that differ only in the order of the rules of each app are both
\* refused or give the same policy (parsePolicy, and the `find` with which
\* evaluateSessionRequest looks a rule up).
THEOREM RuleOrderDecidesNothing ==
    ASSUME NEW file, NEW other, other.assets = file.assets,
           DOMAIN other.apps = DOMAIN file.apps,
           \A id \in DOMAIN file.apps : SameRules(file.apps[id], other.apps[id])
    PROVE  parsePolicy(other) = parsePolicy(file)
<1> DEFINE Bad(app) == \/ RepeatsAnAction(app) \/ AllowsUndeclaredAsset(app, file.assets)
                       \/ AllowsAndDenies(app)
<1>1. \A id \in DOMAIN file.apps : Bad(other.apps[id]) <=> Bad(file.apps[id])
  BY SameActions
<1>2. CASE \E id \in DOMAIN file.apps : Bad(file.apps[id])
  BY <1>1, <1>2 DEF parsePolicy
<1>3. CASE \A id \in DOMAIN file.apps : ~Bad(file.apps[id])
  <2> DEFINE Of(app) == [origins |-> app.origins, deny |-> app.deny,
                         allow |-> [action \in ActionsOf(app) |-> FindRule(app, action)]]
  <2>1. ASSUME NEW id \in DOMAIN file.apps PROVE Of(other.apps[id]) = Of(file.apps[id])
    <3>1. SameRules(file.apps[id], other.apps[id]) /\ ~RepeatsAnAction(file.apps[id])
      BY <1>3, <2>1
    <3>2. ActionsOf(other.apps[id]) = ActionsOf(file.apps[id])
      BY <3>1, SameActions
    <3>3. \A action \in ActionsOf(file.apps[id]) :
            FindRule(other.apps[id], action) = FindRule(file.apps[id], action)
      BY <3>1, SameRuleFound
    <3>4. other.apps[id].origins = file.apps[id].origins /\ other.apps[id].deny = file.apps[id].deny
      BY <3>1 DEF SameRules
    <3> QED BY <3>2, <3>3, <3>4
  <2>2. PolicyOf(other) = [id \in DOMAIN file.apps |-> Of(other.apps[id])]
        /\ PolicyOf(file) = [id \in DOMAIN file.apps |-> Of(file.apps[id])]
    BY DEF PolicyOf
  <2>3. PolicyOf(other) = PolicyOf(file)
    <3> HIDE DEF Of
    <3> QED BY <2>1, <2>2
  <2> QED BY <1>1, <1>3, <2>3 DEF parsePolicy
<1> QED BY <1>2, <1>3

\* RuleOrderIsImmaterial is an invariant: the order in which the operator
\* writes the rules of an app changes nothing.
THEOREM RulesMayBeReordered == PolicySpec => []RuleOrderIsImmaterial
<1>1. ASSUME NEW s, IsList(s) PROVE Permutes(s, Reverse(s))
  <2> DEFINE n == Len(s)
             f == [i \in 1..n |-> (n - i) + 1]
  <2>1. n \in Nat /\ DOMAIN s = 1..n
    BY <1>1 DEF IsList
  <2>2. Reverse(s) = [i \in 1..n |-> s[(n - i) + 1]]
    BY DEF Reverse
  <2>3. DOMAIN Reverse(s) = 1..n /\ Len(Reverse(s)) = n
    BY <2>1, <2>2
  <2> HIDE DEF n
  <2>4. f \in [1..n -> 1..n] /\ \A i \in 1..n : Reverse(s)[i] = s[f[i]]
    BY <2>1, <2>2
  <2>5. \A j, k \in 1..n : f[j] = f[k] => j = k
    BY <2>1
  <2>6. \A j \in 1..n : f[f[j]] = j /\ f[j] \in 1..n
    BY <2>1
  <2> HIDE DEF f
  <2> QED BY <2>1, <2>3, <2>4, <2>5, <2>6 DEF Permutes, IsList
<1>2. ASSUME NEW file \in PolicyFiles PROVE parsePolicy(Reordered(file)) = parsePolicy(file)
  <2> DEFINE other == Reordered(file)
  <2>1. other.assets = file.assets /\ DOMAIN other.apps = DOMAIN file.apps
    BY DEF Reordered
  <2>2. ASSUME NEW id \in DOMAIN file.apps PROVE SameRules(file.apps[id], other.apps[id])
    <3>1. /\ other.apps[id].origins = file.apps[id].origins
          /\ other.apps[id].deny = file.apps[id].deny
          /\ other.apps[id].allow = Reverse(file.apps[id].allow)
      BY DEF Reordered
    <3>2. IsList(file.apps[id].allow)
      BY <1>2, EngineAssumption DEF IsList
    <3> QED BY <3>1, <3>2, <1>1 DEF SameRules
  <2> HIDE DEF other
  <2>3. parsePolicy(other) = parsePolicy(file)
    BY <2>1, <2>2, RuleOrderDecidesNothing
  <2> QED BY <2>3 DEF other
<1>3. RuleOrderIsImmaterial
  BY <1>2 DEF RuleOrderIsImmaterial
<1> QED BY <1>3, PTL

-----------------------------------------------------------------------------
(* Trying again *)

\* When the verdict on an attempt is to allow it.
LEMMA VerdictAllows ==
    AttemptInv /\ Tried /\ session # Undefined =>
      (Verdict = Allowed <=>
         /\ intent.app \in DOMAIN current
         /\ intent.origin \in current[intent.app].origins
         /\ checkSession(session, intent, now) = Passes
         /\ intent.action \notin current[intent.app].deny
         /\ intent.action \in current[intent.app].allow
         /\ \E p \in session.permissions :
              /\ p.action = intent.action /\ p.asset = intent.asset
              /\ evaluatePermission(p, intent, spent, owned) = Allowed)
<1> SUFFICES ASSUME AttemptInv, Tried, session # Undefined
             PROVE  Verdict = Allowed <=>
                      /\ intent.app \in DOMAIN current
                      /\ intent.origin \in current[intent.app].origins
                      /\ checkSession(session, intent, now) = Passes
                      /\ intent.action \notin current[intent.app].deny
                      /\ intent.action \in current[intent.app].allow
                      /\ \E p \in session.permissions :
                           /\ p.action = intent.action /\ p.asset = intent.asset
                           /\ evaluatePermission(p, intent, spent, owned) = Allowed
  OBVIOUS
<1>1. OnePermissionEach(session.permissions)
  BY DEF AttemptInv, IsSnapshot
<1> QED BY <1>1, AllowedExactly DEF Verdict

\* Without a session nothing is allowed.
LEMMA NoSessionNoVerdict == session = Undefined => Verdict # Allowed
<1> SUFFICES ASSUME session = Undefined PROVE Verdict # Allowed
  OBVIOUS
<1>1. checkSession(session, intent, now) = "SESSION_NOT_FOUND"
  BY DEF checkSession
<1> QED BY <1>1 DEF Verdict, evaluateIntent, Passes, Blocked, Allowed

\* Less is spent: what is allowed now was allowed then.
LEMMA SpendingOnlyBlocks ==
    ASSUME NEW p, HasCaps(p), NEW i, i.amount \in Nat \cup {Undefined}, NEW day \in Nat, NEW mine,
           evaluatePermission(p, i, day + 1, mine) = Allowed
    PROVE  evaluatePermission(p, i, day, mine) = Allowed
<1>1. day # Undefined /\ day + 1 # Undefined /\ day + 1 \in Nat
  BY AmountAssumption
<1>2. p.dailyLimit \in 0..MaxAmount \cup {Undefined}
  BY DEF HasCaps, CapFields, Limits
<1> DEFINE cap == Cap(p, i.action)
<1>3. /\ cap # Undefined => i.amount # Undefined /\ i.amount <= cap
      /\ p.dailyLimit # Undefined /\ i.amount # Undefined => (day + 1) + i.amount <= p.dailyLimit
      /\ ~(i.action = "payment.read_own" /\ mine = FALSE)
  BY <1>1, PermissionAllows
<1>4. p.dailyLimit # Undefined /\ i.amount # Undefined => day + i.amount <= p.dailyLimit
  BY <1>2, <1>3, AmountAssumption
<1>5. evaluatePermission(p, i, day, mine) = Allowed <=>
        /\ cap # Undefined => i.amount # Undefined /\ i.amount <= cap
        /\ p.dailyLimit # Undefined /\ i.amount # Undefined => day + i.amount <= p.dailyLimit
        /\ ~(i.action = "payment.read_own" /\ mine = FALSE)
  <2> DEFINE already == IF day = Undefined THEN 0 ELSE day
  <2>1. evaluatePermission(p, i, day, mine) = Allowed <=>
          /\ cap # Undefined => i.amount # Undefined /\ i.amount <= cap
          /\ p.dailyLimit # Undefined /\ i.amount # Undefined => already + i.amount <= p.dailyLimit
          /\ ~(i.action = "payment.read_own" /\ mine = FALSE)
    BY PermissionAllows, Zenon
  <2>2. already = day
    BY <1>1
  <2> HIDE DEF already, cap
  <2> QED BY <2>1, <2>2
<1> QED BY <1>3, <1>4, <1>5

\* BlockedStaysBlocked is a property of every step: no passage of time, charge,
\* revocation, consumption or denial turns a blocked intent into an allowed one.
THEOREM RetryingDoesNotHelp == PolicySpec => BlockedStaysBlocked
<1>1. ASSUME AttemptInv, AttemptInv', [PolicyNext]_<<vars, attempt>>, Tried, Verdict' = Allowed
      PROVE  Verdict = Allowed
  <2>1. session' # Undefined
    <3>1. (session = Undefined => Verdict # Allowed)'
      BY NoSessionNoVerdict, PTL
    <3> QED BY <1>1, <3>1
  <2>2. CASE Evaluate \/ UNCHANGED <<vars, attempt>>
    BY <1>1, <2>2 DEF Evaluate, attempt, Verdict
  <2>3. CASE Try
    BY <1>1, <2>3 DEF Try, Tried
  <2>4. UNCHANGED intent /\ Tried'
    BY <1>1, <2>3 DEF PolicyNext, Evaluate, attempt, TimePasses, SpendIsCharged,
       SessionIsRevoked, SessionIsUsed, ActionIsDenied, Tried, Try
  <2>5. (AttemptInv /\ Tried /\ session # Undefined =>
          (Verdict = Allowed <=>
             /\ intent.app \in DOMAIN current
             /\ intent.origin \in current[intent.app].origins
             /\ checkSession(session, intent, now) = Passes
             /\ intent.action \notin current[intent.app].deny
             /\ intent.action \in current[intent.app].allow
             /\ \E p \in session.permissions :
                  /\ p.action = intent.action /\ p.asset = intent.asset
                  /\ evaluatePermission(p, intent, spent, owned) = Allowed))'
    BY VerdictAllows, PTL
  <2>6. /\ intent.app \in DOMAIN current'
        /\ intent.origin \in current'[intent.app].origins
        /\ checkSession(session', intent, now') = Passes
        /\ intent.action \notin current'[intent.app].deny
        /\ intent.action \in current'[intent.app].allow
        /\ \E p \in session'.permissions :
             /\ p.action = intent.action /\ p.asset = intent.asset
             /\ evaluatePermission(p, intent, spent', owned') = Allowed
    BY <1>1, <2>1, <2>4, <2>5
  <2>7. CASE TimePasses
    <3>1. UNCHANGED <<session, spent, owned, current>> /\ now' = now + 1 /\ session # Undefined
      BY <2>1, <2>7 DEF TimePasses
    <3>2. session.expiresAt \in Nat /\ now \in Nat
      BY <1>1, <3>1 DEF AttemptInv, IsSnapshot
    <3>3. checkSession(session, intent, now + 1) = Passes => checkSession(session, intent, now) = Passes
      BY <3>2 DEF checkSession, Passes
    <3> QED BY <1>1, <2>6, <3>1, <3>3, VerdictAllows
  <2>8. CASE SpendIsCharged
    <3>1. UNCHANGED <<session, now, owned, current>> /\ spent' = spent + 1 /\ session # Undefined
          /\ spent # Undefined
      BY <2>1, <2>8 DEF SpendIsCharged
    <3>2. spent \in Nat /\ intent.amount \in Nat \cup {Undefined}
          /\ \A p \in session.permissions : HasCaps(p)
      BY <1>1, <3>1, EngineAssumption DEF AttemptInv, IsSnapshot
    <3>3. \A p \in session.permissions :
            evaluatePermission(p, intent, spent + 1, owned) = Allowed =>
              evaluatePermission(p, intent, spent, owned) = Allowed
      BY <3>2, SpendingOnlyBlocks
    <3> QED BY <1>1, <2>6, <3>1, <3>3, VerdictAllows
  <2>9. ASSUME SessionIsRevoked \/ SessionIsUsed PROVE Verdict = Allowed
    <3>1. /\ session # Undefined
          /\ UNCHANGED <<intent, now, spent, owned, current>>
          /\ session' = [session EXCEPT !.status = "revoked"]
             \/ session' = [session EXCEPT !.used = TRUE]
      BY <2>9 DEF SessionIsRevoked, SessionIsUsed
    <3>2. session = [app |-> session.app, origin |-> session.origin, status |-> session.status,
                     approvalType |-> session.approvalType, used |-> session.used,
                     expiresAt |-> session.expiresAt, permissions |-> session.permissions]
      BY <1>1, <3>1 DEF AttemptInv, IsSnapshot
    <3>3. /\ session'.app = session.app /\ session'.origin = session.origin
          /\ session'.approvalType = session.approvalType
          /\ session'.expiresAt = session.expiresAt
          /\ session'.permissions = session.permissions
          /\ \/ session'.status = "revoked"
             \/ session'.status = session.status /\ session'.used
      BY <3>1, <3>2
    <3>4. checkSession(session', intent, now) = Passes => checkSession(session, intent, now) = Passes
      BY <3>1, <3>3 DEF checkSession, Passes, Consumed
    <3> QED BY <1>1, <2>6, <3>1, <3>3, <3>4, VerdictAllows
  <2>10. CASE ActionIsDenied
    <3>1. /\ UNCHANGED <<session, intent, now, spent, owned>> /\ session # Undefined
          /\ intent.action \in current'[intent.app].deny
      BY <1>1, <2>1, <2>10 DEF ActionIsDenied, AttemptInv, IsPolicy
    <3> QED BY <2>6, <3>1
  <2> QED BY <1>1, <2>2, <2>3, <2>7, <2>8, <2>9, <2>10 DEF PolicyNext
<1>2. AttemptInv /\ AttemptInv' /\ [PolicyNext]_<<vars, attempt>>
        => [Tried /\ Verdict' = Allowed => Verdict = Allowed]_<<vars, attempt>>
  BY <1>1
<1> QED BY <1>2, AttemptInvariant, PTL DEF PolicySpec, BlockedStaysBlocked

-----------------------------------------------------------------------------
(* The documented order *)

\* The rows of the table, one by one.
LEMMA TableRows ==
    /\ DOMAIN Table = 1..14
    /\ Table[1].reason = "APP_NOT_FOUND" /\ Table[2].reason = "ORIGIN_NOT_ALLOWED"
    /\ Table[3].reason = "SESSION_NOT_FOUND" /\ Table[4].reason = "SESSION_PENDING_APPROVAL"
    /\ Table[5].reason = "SESSION_EXPIRED" /\ Table[6].reason = "SESSION_REVOKED"
    /\ Table[7].reason = "SESSION_EXPIRED" /\ Table[8].reason = "ACTION_EXPLICITLY_DENIED"
    /\ Table[9].reason = "ACTION_NOT_ALLOWED" /\ Table[10].reason = "ASSET_NOT_ALLOWED"
    /\ Table[11].reason = "INVALID_REQUEST" /\ Table[12].reason = "AMOUNT_EXCEEDS_SESSION_LIMIT"
    /\ Table[13].reason = "AMOUNT_EXCEEDS_DAILY_LIMIT"
    /\ Table[14].reason = "PAYMENT_NOT_OWNED_BY_SESSION"
BY DEF Table, Row

Fails(k) == Table[k].fails

\* The first row that fails gives the reason.
LEMMA FirstFailingRow ==
    ASSUME NEW k \in 1..14, Fails(k), \A j \in 1..(k - 1) : ~Fails(j)
    PROVE  LET failing == {j \in DOMAIN Table : Table[j].fails} IN
             failing # {} /\ Min(failing) = k
<1> DEFINE failing == {j \in DOMAIN Table : Table[j].fails}
<1>1. failing \subseteq Nat /\ k \in failing
  BY TableRows DEF Fails
<1>2. \A j \in failing : k <= j
  <2> SUFFICES ASSUME NEW j \in failing, ~(k <= j) PROVE FALSE
    OBVIOUS
  <2>1. j \in 1..(k - 1) /\ Fails(j)
    BY TableRows DEF Fails
  <2> QED BY <2>1
<1> HIDE DEF failing
<1>3. Min(failing) = k
  BY <1>1, <1>2, MinIs
<1> QED BY <1>1, <1>3 DEF failing

\* What makes each row fail, in the words of evaluateIntent.
LEMMA RowMeanings ==
    /\ Fails(1) <=> intent.app \notin DOMAIN current
    /\ Fails(2) <=> intent.app \in DOMAIN current /\ intent.origin \notin current[intent.app].origins
    /\ Fails(3) <=> session = Undefined \/ session.app # intent.app \/ session.origin # intent.origin
    /\ session # Undefined /\ intent.app \in DOMAIN current =>
         /\ Fails(4) <=> session.status = "pending_approval"
         /\ Fails(5) <=> now >= session.expiresAt
         /\ Fails(6) <=> session.status = "revoked"
         /\ Fails(7) <=> Consumed(session)
         /\ Fails(8) <=> intent.action \in current[intent.app].deny
         /\ Fails(9) <=> \/ PermissionsFor(session, intent) = {}
                         \/ intent.action \notin current[intent.app].allow
         /\ Fails(10) <=> MatchingPermissions(session, intent) = {}
         /\ Fails(11) <=> /\ intent.amount = Undefined
                          /\ \E p \in MatchingPermissions(session, intent) :
                               Cap(p, intent.action) # Undefined
         /\ Fails(12) <=> /\ intent.amount # Undefined
                          /\ \E p \in MatchingPermissions(session, intent) :
                               /\ Cap(p, intent.action) # Undefined
                               /\ intent.amount > Cap(p, intent.action)
         /\ Fails(13) <=> /\ intent.amount # Undefined
                          /\ \E p \in MatchingPermissions(session, intent) :
                               /\ p.dailyLimit # Undefined
                               /\ (IF spent = Undefined THEN 0 ELSE spent) + intent.amount > p.dailyLimit
    /\ Fails(14) <=> owned = FALSE
BY DEF Fails, Table, Row, Consumed, PermissionsFor, MatchingPermissions, Cap

\* FollowsDocumentedOrder is an invariant: the first failing row of the
\* documented table gives the reason of every decision.
THEOREM DecisionsFollowTheTable == PolicySpec => []FollowsDocumentedOrder
<1>1. ASSUME AttemptInv, Tried PROVE FollowsDocumentedOrder
  <2> DEFINE failing == {k \in DOMAIN Table : Table[k].fails}
             Documented == IF Verdict = Thrown THEN failing # {}
                           ELSE Verdict = IF failing = {} THEN Allowed
                                          ELSE Blocked(Table[Min(failing)].reason)
             state   == checkSession(session, intent, now)
             action  == checkAction(current[intent.app], session, intent)
             matching == MatchingPermissions(session, intent)
             chosen  == CHOOSE p \in matching : TRUE
             last    == evaluatePermission(chosen, intent, spent, owned)
  <2>1. SUFFICES Documented
    BY <1>1 DEF FollowsDocumentedOrder
  <2>2. ASSUME NEW k \in 1..14, Fails(k), \A j \in 1..(k - 1) : ~Fails(j),
               Verdict = Blocked(Table[k].reason)
        PROVE  Documented
    <3>1. failing # {} /\ Min(failing) = k
      BY <2>2, FirstFailingRow
    <3>2. Verdict # Thrown
      BY <2>2 DEF Blocked, Thrown
    <3> HIDE DEF failing
    <3> QED BY <2>2, <3>1, <3>2
  <2> HIDE DEF Documented
  <2>3. CASE intent.app \notin DOMAIN current
    <3>1. Verdict = Blocked(Table[1].reason)
      BY <2>3, TableRows DEF Verdict, evaluateIntent
    <3> QED BY <2>2, <2>3, <3>1, RowMeanings
  <2>4. CASE intent.app \in DOMAIN current /\ intent.origin \notin current[intent.app].origins
    <3>1. Verdict = Blocked(Table[2].reason)
      BY <2>4, TableRows DEF Verdict, evaluateIntent
    <3>2. Fails(2) /\ ~Fails(1)
      BY <2>4, RowMeanings
    <3> QED BY <2>2, <3>1, <3>2
  <2>5. CASE intent.app \in DOMAIN current /\ intent.origin \in current[intent.app].origins
    <3>1. Verdict = IF state # Passes THEN Blocked(state)
                    ELSE IF action # Passes THEN Blocked(action) ELSE last
      BY <2>5 DEF Verdict, evaluateIntent
    <3>2. ~Fails(1) /\ ~Fails(2)
      BY <2>5, RowMeanings
    <3>3. session # Undefined => session.expiresAt \in Nat /\ now \in Nat
      BY <1>1 DEF AttemptInv, IsSnapshot
    <3>4. CASE state # Passes
      <4>1. CASE session = Undefined \/ session.app # intent.app \/ session.origin # intent.origin
        <5>1. state = Table[3].reason
          BY <4>1, TableRows DEF checkSession
        <5>2. Fails(3)
          BY <4>1, RowMeanings
        <5> QED BY <2>2, <3>1, <3>2, <3>4, <5>1, <5>2
      <4>2. CASE ~(session = Undefined \/ session.app # intent.app \/ session.origin # intent.origin)
        <5>1. ~Fails(3) /\ session # Undefined
          BY <4>2, RowMeanings
        <5>2. /\ Fails(4) <=> session.status = "pending_approval"
              /\ Fails(5) <=> session.expiresAt <= now
              /\ Fails(6) <=> session.status = "revoked"
              /\ Fails(7) <=> Consumed(session)
          BY <2>5, <3>3, <5>1, RowMeanings
        <5>3. state = IF session.status = "pending_approval" THEN "SESSION_PENDING_APPROVAL"
                      ELSE IF session.expiresAt <= now THEN "SESSION_EXPIRED"
                      ELSE IF session.status = "revoked" THEN "SESSION_REVOKED"
                      ELSE IF Consumed(session) THEN "SESSION_EXPIRED" ELSE Passes
          BY <4>2 DEF checkSession
        <5>4. PICK k \in 4..7 : Fails(k) /\ (\A j \in 1..(k - 1) : ~Fails(j)) /\ state = Table[k].reason
          <6>1. CASE Fails(4)
            <7>1. \A j \in 1..(4 - 1) : ~Fails(j)
              BY <3>2, <5>1
            <7> QED BY <5>2, <5>3, <6>1, <7>1, TableRows
          <6>2. CASE ~Fails(4) /\ Fails(5)
            <7>1. \A j \in 1..(5 - 1) : ~Fails(j)
              BY <3>2, <5>1, <6>2
            <7> QED BY <5>2, <5>3, <6>2, <7>1, TableRows
          <6>3. CASE ~Fails(4) /\ ~Fails(5) /\ Fails(6)
            <7>1. \A j \in 1..(6 - 1) : ~Fails(j)
              BY <3>2, <5>1, <6>3
            <7> QED BY <5>2, <5>3, <6>3, <7>1, TableRows
          <6>4. CASE ~Fails(4) /\ ~Fails(5) /\ ~Fails(6) /\ Fails(7)
            <7>1. \A j \in 1..(7 - 1) : ~Fails(j)
              BY <3>2, <5>1, <6>4
            <7> QED BY <5>2, <5>3, <6>4, <7>1, TableRows
          <6>5. Fails(4) \/ Fails(5) \/ Fails(6) \/ Fails(7)
            BY <3>4, <5>2, <5>3
          <6> QED BY <6>1, <6>2, <6>3, <6>4, <6>5
        <5> HIDE DEF state
        <5> QED BY <2>2, <3>1, <3>4, <5>4
      <4> QED BY <4>1, <4>2
    <3>5. CASE state = Passes
      <4>1. session # Undefined /\ \A j \in 1..7 : ~Fails(j)
        <5>1. /\ session # Undefined /\ session.app = intent.app /\ session.origin = intent.origin
              /\ session.status # "pending_approval" /\ session.status # "revoked"
              /\ ~(session.expiresAt <= now) /\ ~Consumed(session)
          BY <3>5 DEF checkSession, Passes
        <5>2. ~Fails(3) /\ ~Fails(4) /\ ~Fails(5) /\ ~Fails(6) /\ ~Fails(7)
          BY <2>5, <3>3, <5>1, RowMeanings
        <5> QED BY <3>2, <5>1, <5>2
      <4>2. /\ Fails(8) <=> intent.action \in current[intent.app].deny
            /\ Fails(9) <=> \/ PermissionsFor(session, intent) = {}
                            \/ intent.action \notin current[intent.app].allow
            /\ Fails(10) <=> matching = {}
        BY <2>5, <4>1, RowMeanings
      <4>3. CASE action # Passes
        <5>1. action = IF intent.action \in current[intent.app].deny THEN "ACTION_EXPLICITLY_DENIED"
                       ELSE IF intent.action \notin current[intent.app].allow
                                 \/ PermissionsFor(session, intent) = {} THEN "ACTION_NOT_ALLOWED"
                       ELSE IF matching = {} THEN "ASSET_NOT_ALLOWED" ELSE Passes
          BY DEF checkAction
        <5>2. PICK k \in 8..10 : Fails(k) /\ (\A j \in 1..(k - 1) : ~Fails(j)) /\ action = Table[k].reason
          <6>1. CASE Fails(8)
            <7>1. \A j \in 1..(8 - 1) : ~Fails(j)
              BY <4>1
            <7> QED BY <4>2, <5>1, <6>1, <7>1, TableRows
          <6>2. CASE ~Fails(8) /\ Fails(9)
            <7>1. \A j \in 1..(9 - 1) : ~Fails(j)
              BY <4>1, <6>2
            <7> QED BY <4>2, <5>1, <6>2, <7>1, TableRows
          <6>3. CASE ~Fails(8) /\ ~Fails(9) /\ Fails(10)
            <7>1. \A j \in 1..(10 - 1) : ~Fails(j)
              BY <4>1, <6>3
            <7> QED BY <4>2, <5>1, <6>3, <7>1, TableRows
          <6>4. Fails(8) \/ Fails(9) \/ Fails(10)
            BY <4>2, <4>3, <5>1
          <6> QED BY <6>1, <6>2, <6>3, <6>4
        <5> HIDE DEF state, action
        <5> QED BY <2>2, <3>1, <3>5, <4>3, <5>2
      <4>4. CASE action = Passes
        <5>1. matching # {} /\ \A j \in 1..10 : ~Fails(j)
          <6>1. /\ intent.action \notin current[intent.app].deny
                /\ intent.action \in current[intent.app].allow
                /\ PermissionsFor(session, intent) # {} /\ matching # {}
            BY <4>4 DEF checkAction, Passes
          <6>2. ~Fails(8) /\ ~Fails(9) /\ ~Fails(10)
            BY <4>2, <6>1
          <6> QED BY <4>1, <6>1, <6>2
        <5>2. chosen \in matching /\ \A p \in matching : p = chosen
          BY <1>1, <4>1, <5>1 DEF AttemptInv, IsSnapshot, OnePermissionEach,
             MatchingPermissions, PermissionsFor
        <5>3. HasCaps(chosen)
          BY <1>1, <4>1, <5>2 DEF AttemptInv, IsSnapshot, MatchingPermissions, PermissionsFor
        <5> DEFINE cap == Cap(chosen, intent.action)
                   already == IF spent = Undefined THEN 0 ELSE spent
                   limited == chosen.dailyLimit # Undefined /\ intent.amount # Undefined
        <5>4. /\ Fails(11) <=> cap # Undefined /\ intent.amount = Undefined
              /\ Fails(12) <=> intent.amount # Undefined /\ cap # Undefined /\ intent.amount > cap
              /\ Fails(13) <=> limited /\ already + intent.amount > chosen.dailyLimit
              /\ Fails(14) <=> owned = FALSE
          BY <2>5, <4>1, <5>2, RowMeanings
        <5>5. last = IF cap # Undefined /\ intent.amount = Undefined THEN Blocked("INVALID_REQUEST")
                     ELSE IF cap # Undefined /\ intent.amount > cap
                       THEN Blocked("AMOUNT_EXCEEDS_SESSION_LIMIT")
                     ELSE IF limited /\ ~(already <= MaxAmount /\ already + intent.amount <= MaxAmount)
                       THEN Thrown
                     ELSE IF limited /\ already + intent.amount > chosen.dailyLimit
                       THEN Blocked("AMOUNT_EXCEEDS_DAILY_LIMIT")
                     ELSE IF intent.action = "payment.read_own" /\ owned = FALSE
                       THEN Blocked("PAYMENT_NOT_OWNED_BY_SESSION")
                     ELSE Allowed
          BY DEF evaluatePermission, Parses, addAmounts
        <5>6. Verdict = last
          <6> HIDE DEF state, action, last
          <6> QED BY <3>1, <3>5, <4>4
        <5>7. limited /\ ~(already <= MaxAmount /\ already + intent.amount <= MaxAmount)
                => already + intent.amount > chosen.dailyLimit
          BY <1>1, <5>3, EngineAssumption, AmountAssumption
             DEF HasCaps, CapFields, Limits, AttemptInv
        <5>8. intent.action = "payment.read_own" /\ owned = FALSE <=> owned = FALSE
          BY <1>1, EngineAssumption DEF AttemptInv
        <5> HIDE DEF last, cap, already, limited, chosen, matching
        <5>9. CASE Fails(11)
          <6>1. \A j \in 1..(11 - 1) : ~Fails(j)
            BY <5>1
          <6>2. Verdict = Blocked(Table[11].reason)
            BY <5>4, <5>5, <5>6, <5>9, TableRows
          <6> QED BY <2>2, <5>9, <6>1, <6>2
        <5>10. CASE ~Fails(11) /\ Fails(12)
          <6>1. \A j \in 1..(12 - 1) : ~Fails(j)
            BY <5>1, <5>10
          <6>2. Verdict = Blocked(Table[12].reason)
            BY <5>4, <5>5, <5>6, <5>10, TableRows
          <6> QED BY <2>2, <5>10, <6>1, <6>2
        <5>11. CASE ~Fails(11) /\ ~Fails(12) /\ Fails(13)
          <6>1. \A j \in 1..(13 - 1) : ~Fails(j)
            BY <5>1, <5>11
          <6>2. Verdict = Thrown \/ Verdict = Blocked(Table[13].reason)
            BY <5>4, <5>5, <5>6, <5>11, TableRows
          <6>3. CASE Verdict = Thrown
            BY <5>11, <6>3, TableRows DEF Documented, Fails
          <6> QED BY <2>2, <5>11, <6>1, <6>2, <6>3
        <5>12. CASE ~Fails(11) /\ ~Fails(12) /\ ~Fails(13)
          <6>1. last = IF owned = FALSE THEN Blocked("PAYMENT_NOT_OWNED_BY_SESSION") ELSE Allowed
            BY <5>4, <5>5, <5>7, <5>8, <5>12
          <6>2. CASE Fails(14)
            <7>1. \A j \in 1..(14 - 1) : ~Fails(j)
              BY <5>1, <5>12
            <7>2. Verdict = Blocked(Table[14].reason)
              BY <5>4, <5>6, <6>1, <6>2, TableRows
            <7> QED BY <2>2, <6>2, <7>1, <7>2
          <6>3. CASE ~Fails(14)
            <7>1. failing = {}
              <8>1. \A j \in 1..14 : ~Fails(j)
                BY <5>1, <5>12, <6>3
              <8> QED BY <8>1, TableRows DEF Fails
            <7>2. Verdict = Allowed /\ Verdict # Thrown
              BY <5>4, <5>6, <6>1, <6>3 DEF Allowed, Thrown
            <7> QED BY <7>1, <7>2 DEF Documented
          <6> QED BY <6>2, <6>3
        <5> QED BY <5>9, <5>10, <5>11, <5>12
      <4> QED BY <4>3, <4>4
    <3> QED BY <3>4, <3>5
  <2> QED BY <2>3, <2>4, <2>5
<1>2. AttemptInv => FollowsDocumentedOrder
  BY <1>1 DEF FollowsDocumentedOrder
<1> QED BY <1>2, AttemptInvariant, PTL

\* StatusAgreesWithDecision is an invariant: /session/current shows a session
\* as active exactly when the policy turns nothing away for its state.
THEOREM StatusTellsTheDecision == PolicySpec => []StatusAgreesWithDecision
<1>1. ASSUME AttemptInv, session # Undefined, session.status # "pending_approval",
             session.app \in DOMAIN current, session.origin \in current[session.app].origins,
             NEW own, own = [app |-> session.app, origin |-> session.origin,
                             action |-> intent.action, asset |-> intent.asset,
                             amount |-> intent.amount]
      PROVE  effectiveStatus(session, now) = "active" <=>
               evaluateIntent(current, own, session, now, spent, owned).reason
                 \notin {"SESSION_EXPIRED", "SESSION_REVOKED"}
  <2> DEFINE state   == checkSession(session, own, now)
             action  == checkAction(current[own.app], session, own)
             chosen  == CHOOSE p \in MatchingPermissions(session, own) : TRUE
             last    == evaluatePermission(chosen, own, spent, owned)
             verdict == evaluateIntent(current, own, session, now, spent, owned)
  <2>1. verdict = IF state # Passes THEN Blocked(state)
                  ELSE IF action # Passes THEN Blocked(action) ELSE last
    BY <1>1 DEF evaluateIntent
  <2>2. state = IF session.expiresAt <= now THEN "SESSION_EXPIRED"
                ELSE IF session.status = "revoked" THEN "SESSION_REVOKED"
                ELSE IF Consumed(session) THEN "SESSION_EXPIRED" ELSE Passes
    BY <1>1 DEF checkSession
  <2>3. effectiveStatus(session, now) = "active" <=> state = Passes
    BY <2>2 DEF effectiveStatus, Passes
  <2>4. action \notin {"SESSION_EXPIRED", "SESSION_REVOKED"}
    BY DEF checkAction, Passes
  <2>5. last.reason \notin {"SESSION_EXPIRED", "SESSION_REVOKED"}
    BY DEF evaluatePermission, Blocked, Allowed, Thrown
  <2>6. state # Passes => state \in {"SESSION_EXPIRED", "SESSION_REVOKED"}
    BY <2>2
  <2>7. \A r : Blocked(r).reason = r
    BY DEF Blocked
  <2> HIDE DEF state, action, last, verdict
  <2>8. state = Passes <=> verdict.reason \notin {"SESSION_EXPIRED", "SESSION_REVOKED"}
    BY <2>1, <2>4, <2>5, <2>6, <2>7
  <2> QED BY <2>3, <2>8 DEF verdict
<1>2. AttemptInv => StatusAgreesWithDecision
  BY <1>1 DEF StatusAgreesWithDecision
<1> QED BY <1>2, AttemptInvariant, PTL
=============================================================================
