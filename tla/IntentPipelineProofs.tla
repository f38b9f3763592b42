------------------------ MODULE IntentPipelineProofs ------------------------
(***************************************************************************)
(* Theorems about the decision pipeline, for any number of calls, intents, *)
(* sessions, hashes and faults, and any policies.                          *)
(***************************************************************************)
EXTENDS IntentPipeline, DataLemmas, TLAPS

-----------------------------------------------------------------------------
(* The decision *)

\* What a permission is checked for does not matter here, except that the
\* reading of a payment somebody else owns is blocked.
LEMMA PermissionOutcomes ==
    ASSUME NEW permission, NEW intent, NEW spent, NEW owned
    PROVE  LET d == evaluatePermission(permission, intent, spent, owned) IN
             /\ d \in {Allowed, Thrown} \cup {Blocked(r) : r \in BlockReasons}
             /\ d = Allowed /\ intent.action = "payment.read_own" => owned # FALSE
BY DEF evaluatePermission, Allowed, Thrown, Blocked, BlockReasons

\* A session passes only when it exists and is neither revoked nor consumed.
LEMMA SessionOutcomes ==
    ASSUME NEW session, NEW intent, NEW time
    PROVE  /\ checkSession(session, intent, time) \in BlockReasons \cup {Passes}
           /\ checkSession(session, intent, time) = Passes =>
                session # Undefined /\ session.status # "revoked" /\ ~Consumed(session)
BY DEF checkSession, BlockReasons, Passes

\* An action passes only when the policy allows and does not deny it.
LEMMA ActionOutcomes ==
    ASSUME NEW app, NEW session, NEW intent
    PROVE  /\ checkAction(app, session, intent) \in BlockReasons \cup {Passes}
           /\ checkAction(app, session, intent) = Passes =>
                intent.action \in app.allow /\ intent.action \notin app.deny
BY DEF checkAction, BlockReasons, Passes

\* evaluateIntent allows an intent only of an app the policy names, with an
\* action it allows and does not deny, on a session that is neither revoked nor
\* consumed, and never the reading of a payment another session owns.
THEOREM AllowedIntentPasses ==
    ASSUME NEW rules, NEW intent, NEW session, NEW time, NEW spent, NEW owned
    PROVE  LET d == evaluateIntent(rules, intent, session, time, spent, owned) IN
             /\ d \in {Allowed, Thrown} \cup {Blocked(r) : r \in BlockReasons}
             /\ d = Allowed =>
                  /\ intent.app \in DOMAIN rules
                  /\ intent.action \in rules[intent.app].allow
                  /\ intent.action \notin rules[intent.app].deny
                  /\ session # Undefined /\ session.status # "revoked" /\ ~Consumed(session)
                  /\ intent.action = "payment.read_own" => owned # FALSE
<1> DEFINE d == evaluateIntent(rules, intent, session, time, spent, owned)
           state == checkSession(session, intent, time)
           action == checkAction(rules[intent.app], session, intent)
           last == evaluatePermission(CHOOSE p \in MatchingPermissions(session, intent) : TRUE,
                                      intent, spent, owned)
<1>1. CASE intent.app \notin DOMAIN rules
  BY <1>1 DEF evaluateIntent, Blocked, Allowed, BlockReasons
<1>2. CASE intent.app \in DOMAIN rules /\ intent.origin \notin rules[intent.app].origins
  BY <1>2 DEF evaluateIntent, Blocked, Allowed, BlockReasons
<1>3. CASE intent.app \in DOMAIN rules /\ intent.origin \in rules[intent.app].origins
  <2>1. d = IF state # Passes THEN Blocked(state)
            ELSE IF action # Passes THEN Blocked(action) ELSE last
    BY <1>3 DEF evaluateIntent
  <2>2. /\ state \in BlockReasons \cup {Passes}
        /\ state = Passes =>
             session # Undefined /\ session.status # "revoked" /\ ~Consumed(session)
    BY SessionOutcomes
  <2>3. /\ action \in BlockReasons \cup {Passes}
        /\ action = Passes =>
             /\ intent.action \in rules[intent.app].allow
             /\ intent.action \notin rules[intent.app].deny
    BY ActionOutcomes
  <2>4. /\ last \in {Allowed, Thrown} \cup {Blocked(r) : r \in BlockReasons}
        /\ last = Allowed /\ intent.action = "payment.read_own" => owned # FALSE
    BY PermissionOutcomes
  <2>5. \A r : Blocked(r) # Allowed
    BY DEF Blocked, Allowed
  <2> HIDE DEF d, state, action, last
  <2>6. d \in {Allowed, Thrown} \cup {Blocked(r) : r \in BlockReasons}
    BY <2>1, <2>2, <2>3, <2>4
  <2>7. d = Allowed => state = Passes /\ action = Passes /\ last = Allowed
    BY <2>1, <2>5
  <2> QED BY <1>3, <2>2, <2>3, <2>4, <2>6, <2>7 DEF d
<1> QED BY <1>1, <1>2, <1>3

-----------------------------------------------------------------------------
(* Types *)

\* The ledger has a bucket for every spending intent and time.
LEMMA SpendingBuckets ==
    ASSUME NEW i \in Intents, i.action \in SpendingActions, NEW t \in 0..MaxTime
    PROVE  BucketOf(i, t) \in Buckets
BY DEF Buckets

\* The decision on a call gives it a reason and one of three next steps.
LEMMA DecisionTypes ==
    ASSUME NEW c \in Calls
    PROVE  /\ Decision(c).decision \in {"allowed", "blocked", "thrown"}
           /\ Decision(c).reason \in BlockReasons \cup {"WITHIN_POLICY", "InvalidAmountError"}
           /\ Decision(c).decision = "allowed" => Decision(c) = Allowed
           /\ Decision(c).decision = "blocked" => Decision(c).reason \in BlockReasons
<1>1. Decision(c) \in {Allowed, Thrown} \cup {Blocked(r) : r \in BlockReasons}
  BY AllowedIntentPasses DEF Decision
<1> QED BY <1>1 DEF Allowed, Thrown, Blocked

Reasons == BlockReasons \cup {"none", "WITHIN_POLICY", "UPSTREAM_FIBER_ERROR", "InvalidAmountError"}

\* What the steps change of a call leaves it a call.
LEMMA CallUpdates ==
    ASSUME call \in [Calls -> Call], NEW c \in Calls
    PROVE  /\ call[c].at \in 0..MaxTime
           /\ \A r \in Reasons : [call EXCEPT ![c].reason = r] \in [Calls -> Call]
           /\ \A s \in Session \cup {Undefined} : [call EXCEPT ![c].session = s] \in [Calls -> Call]
           /\ \A h \in Hash : [call EXCEPT ![c].hash = h] \in [Calls -> Call]
           /\ \A t \in 0..MaxTime : [call EXCEPT ![c].at = t] \in [Calls -> Call]
           /\ \A i \in Intents, t \in 0..MaxTime, l \in BOOLEAN :
                [call EXCEPT ![c].intent = i, ![c].at = t, ![c].late = l] \in [Calls -> Call]
<1>1. call[c] \in Call
  OBVIOUS
<1>2. call[c].at \in 0..MaxTime
  BY <1>1 DEF Call
<1>3. \A r \in Reasons : [call[c] EXCEPT !.reason = r] \in Call
  BY <1>1 DEF Call, Reasons
<1>4. \A s \in Session \cup {Undefined} : [call[c] EXCEPT !.session = s] \in Call
  BY <1>1 DEF Call
<1>5. \A h \in Hash : [call[c] EXCEPT !.hash = h] \in Call
  BY <1>1 DEF Call
<1>6. \A t \in 0..MaxTime : [call[c] EXCEPT !.at = t] \in Call
  BY <1>1 DEF Call
<1>7. ASSUME NEW i \in Intents, NEW t \in 0..MaxTime, NEW l \in BOOLEAN
      PROVE  [call EXCEPT ![c].intent = i, ![c].at = t, ![c].late = l] \in [Calls -> Call]
  <2> DEFINE r1 == [call[c] EXCEPT !.intent = i]
             r2 == [r1 EXCEPT !.at = t]
             r3 == [r2 EXCEPT !.late = l]
  <2>1. r3 \in Call
    BY <1>1 DEF Call
  <2>2. [call EXCEPT ![c].intent = i, ![c].at = t, ![c].late = l] = [call EXCEPT ![c] = r3]
    OBVIOUS
  <2> QED
    <3> HIDE DEF r3
    <3> QED BY <2>1, <2>2
<1> QED BY <1>2, <1>3, <1>4, <1>5, <1>6, <1>7

\* Every step keeps every variable in its type.
LEMMA TypeOKPreserved ==
    ASSUME PipelineInv, [Next]_vars
    PROVE  TypeOK'
<1> USE PipelineAssumption DEF PipelineInv, stores, node
<1>0. call \in [Calls -> Call] /\ now \in 0..MaxTime
  BY DEF TypeOK
<1>1. ASSUME NEW s \in SessionIds, OpenSession(s) \/ RevokeSession(s)
      PROVE  TypeOK'
  <2>1. NewSession(s) \in Session
    BY DEF TypeOK, NewSession, Session
  <2>2. [sessions[s] EXCEPT !.status = "revoked"] \in Session
    BY DEF TypeOK, Session
  <2>3. sessions' \in [SessionIds -> Session]
    BY <1>1, <2>1, <2>2 DEF TypeOK, OpenSession, RevokeSession
  <2> QED BY <1>1, <2>3 DEF TypeOK, OpenSession, RevokeSession
<1>2. CASE Tick
  BY <1>2 DEF TypeOK, Tick
<1>3. ASSUME NEW c \in Calls, RejectMalformed(c)
      PROVE  TypeOK'
  BY <1>3, CallUpdates
  DEF TypeOK, RejectMalformed, BlockWith, Goto, Steps, Reasons, BlockReasons
<1>4. ASSUME NEW c \in Calls, NEW intent \in Intents, Arrive(c, intent)
      PROVE  TypeOK'
  BY <1>4, CallUpdates DEF TypeOK, Arrive, Goto, Steps
<1>5. ASSUME NEW c \in Calls, FindSession(c)
      PROVE  TypeOK'
  <2>1. call' \in [Calls -> Call]
    <3>1. \/ call' = [call EXCEPT ![c].reason = "SESSION_NOT_FOUND"]
          \/ call' = [call EXCEPT ![c].at = now]
      BY <1>5 DEF FindSession, BlockWith
    <3>2. [call EXCEPT ![c].reason = "SESSION_NOT_FOUND"] \in [Calls -> Call]
      BY <1>0, CallUpdates DEF Reasons, BlockReasons
    <3>3. [call EXCEPT ![c].at = now] \in [Calls -> Call]
      BY <1>0, CallUpdates
    <3> QED BY <3>1, <3>2, <3>3
  <2> QED BY <1>5, <2>1 DEF TypeOK, FindSession, BlockWith, Goto, Steps
<1>6. ASSUME NEW c \in Calls, LoadSession(c)
      PROVE  TypeOK'
  BY <1>6, CallUpdates DEF TypeOK, CallsAreSound, LoadSession, Goto, Steps
<1>7. ASSUME NEW c \in Calls, Decide(c)
      PROVE  TypeOK'
  BY <1>7, DecisionTypes, CallUpdates DEF TypeOK, Decide, Goto, Steps, Reasons
<1>8. ASSUME NEW c \in Calls, AmountDoesNotEncode(c) \/ UpstreamRefuses(c) \/ AnswerLost(c)
      PROVE  TypeOK'
  <2>1. call' \in [Calls -> Call]
    <3>1. PICK r \in {"INVALID_REQUEST", "UPSTREAM_FIBER_ERROR"} :
            call' = [call EXCEPT ![c].reason = r]
      BY <1>8 DEF AmountDoesNotEncode, UpstreamRefuses, AnswerLost, BlockWith
    <3>2. r \in Reasons
      BY DEF Reasons, BlockReasons
    <3> QED BY <1>0, <3>1, <3>2, CallUpdates
  <2>2. pc' \in [Calls -> Steps]
    BY <1>8 DEF TypeOK, AmountDoesNotEncode, UpstreamRefuses, AnswerLost, BlockWith, Goto, Steps
  <2> QED BY <1>8, <2>1, <2>2 DEF TypeOK, AmountDoesNotEncode, UpstreamRefuses, AnswerLost
<1>9. ASSUME NEW c \in Calls, NodeExecutes(c)
      PROVE  TypeOK'
  <2>1. Intent(c) \in Intents /\ call[c].at \in 0..MaxTime
    BY <1>9 DEF NodeExecutes, Reaches, CallsAreSound, TypeOK, Call
  <2>2. settled' \in [Buckets -> Nat]
    <3> DEFINE b == BucketOf(Intent(c), call[c].at)
    <3>1. CASE Intent(c).action \in SpendingActions
      <4>1. b \in Buckets /\ Intent(c).amount \in Nat
        BY <2>1, <3>1, SpendingBuckets
      <4>2. settled' = [settled EXCEPT ![b] = @ + Intent(c).amount]
        BY <1>9, <3>1 DEF NodeExecutes
      <4> QED
        <5> HIDE DEF b
        <5> QED BY <4>1, <4>2 DEF TypeOK
    <3>2. CASE Intent(c).action \notin SpendingActions
      BY <1>9, <3>2 DEF NodeExecutes, TypeOK
    <3> QED BY <3>1, <3>2
  <2>3. call' \in [Calls -> Call]
    <3>1. AnswerHashes(Intent(c).action) \subseteq Hash
      BY DEF AnswerHashes, Hash
    <3>2. PICK h \in Hash : call' = [call EXCEPT ![c].hash = h]
      BY <1>9, <3>1 DEF NodeExecutes
    <3> QED BY <1>0, <3>2, CallUpdates
  <2>4. performed' \subseteq Calls /\ IsFiniteSet(performed')
    BY <1>9, FS_AddElement DEF TypeOK, NodeExecutes
  <2> QED BY <1>9, <2>2, <2>3, <2>4 DEF TypeOK, NodeExecutes, Goto, Steps
<1>10. ASSUME NEW c \in Calls, AnswerArrives(c)
      PROVE  TypeOK'
  BY <1>10 DEF TypeOK, AnswerArrives, AfterOwner, Goto, Steps
<1>11. ASSUME NEW c \in Calls, AddSpend(c)
      PROVE  TypeOK'
  <2>1. Intent(c) \in Intents /\ Intent(c).action \in SpendingActions /\ call[c].at \in 0..MaxTime
    BY <1>11 DEF AddSpend, CallsAreSound, TypeOK, Call
  <2>2. ledger' \in [Buckets -> Nat]
    <3> DEFINE b == BucketOf(Intent(c), call[c].at)
    <3>1. b \in Buckets /\ Intent(c).amount \in Nat
      BY <2>1, SpendingBuckets
    <3>2. ledger' = ledger \/ ledger' = [ledger EXCEPT ![b] = @ + Intent(c).amount]
      BY <1>11 DEF AddSpend, addAmounts
    <3> HIDE DEF b
    <3>3. [ledger EXCEPT ![b] = @ + Intent(c).amount] \in [Buckets -> Nat]
      BY <3>1 DEF TypeOK
    <3> QED BY <3>2, <3>3 DEF TypeOK
  <2> QED BY <1>11, <2>2 DEF TypeOK, AddSpend, AfterOwner, Goto, Steps
<1>12. ASSUME NEW c \in Calls, RecordOwner(c)
      PROVE  TypeOK'
  <2>1. Intent(c).session \in SessionIds
    BY <1>12 DEF RecordOwner, CallsAreSound
  <2> QED BY <1>12, <2>1 DEF TypeOK, RecordOwner, AfterOwner, Goto, Steps
<1>13. ASSUME NEW c \in Calls, MarkSessionUsed(c)
      PROVE  TypeOK'
  BY <1>13 DEF TypeOK, MarkSessionUsed, Goto, Steps, Session
<1>14. ASSUME NEW c \in Calls, RecordAudit(c)
      PROVE  TypeOK'
  <2>1. Event(c) \in AuditEvent
    BY <1>14 DEF RecordAudit, EventsAreDue, Event, AuditEvent
  <2>2. call' \in [Calls -> Call]
    BY <1>14, CallUpdates DEF TypeOK, RecordAudit
  <2>3. audit' \in [Calls -> Seq(AuditEvent)]
    BY <1>14, <2>1 DEF TypeOK, RecordAudit
  <2> QED BY <1>14, <2>2, <2>3 DEF TypeOK, RecordAudit, Goto, Steps
<1>15. ASSUME NEW c \in Calls, StorageFails(c) \/ AuditFails(c)
      PROVE  TypeOK'
  <2>1. call' \in [Calls -> Call]
    <3>1. call' = call \/ call' = [call EXCEPT ![c].session = Undefined]
      BY <1>15 DEF StorageFails, AuditFails
    <3>2. [call EXCEPT ![c].session = Undefined] \in [Calls -> Call]
      BY <1>0, CallUpdates
    <3> QED BY <1>0, <3>1, <3>2
  <2>2. pc' \in [Calls -> Steps]
    BY <1>15 DEF TypeOK, StorageFails, AuditFails, Goto, Steps
  <2> QED BY <1>15, <2>1, <2>2 DEF TypeOK, StorageFails, AuditFails
<1>16. CASE CrashAndRestart
  BY <1>16 DEF TypeOK, CrashAndRestart, Steps
<1>17. CASE UNCHANGED vars
  BY <1>17 DEF TypeOK, vars
<1> QED
  BY <1>1, <1>2, <1>3, <1>4, <1>5, <1>6, <1>7, <1>8, <1>9, <1>10, <1>11, <1>12, <1>13, <1>14,
     <1>15, <1>16, <1>17
  DEF Next, NextCall, Gateway, Upstream, Fault

-----------------------------------------------------------------------------
(* What a step leaves alone *)

\* A step of one call changes nothing of the others, and of the call itself
\* neither the intent nor whether it began late.
LEMMA StepOfOneCall ==
    ASSUME PipelineInv, NEW c \in Calls,
           RejectMalformed(c) \/ Gateway(c) \/ Upstream(c) \/ Fault(c)
    PROVE  /\ \A d \in Calls \ {c} : pc'[d] = pc[d] /\ call'[d] = call[d] /\ audit'[d] = audit[d]
           /\ call'[c].intent = call[c].intent /\ call'[c].late = call[c].late
           /\ pc[c] # "lookup" => call'[c].at = call[c].at
           /\ pc[c] # "forwarding" => call'[c].hash = call[c].hash
           /\ policy' = policy
<1> DEFINE Leaves ==
      /\ \A d \in Calls \ {c} : pc'[d] = pc[d] /\ call'[d] = call[d] /\ audit'[d] = audit[d]
      /\ call'[c].intent = call[c].intent /\ call'[c].late = call[c].late
      /\ pc[c] # "lookup" => call'[c].at = call[c].at
      /\ pc[c] # "forwarding" => call'[c].hash = call[c].hash
      /\ policy' = policy
<1>1. pc \in [Calls -> Steps] /\ audit \in [Calls -> Seq(AuditEvent)] /\ call \in [Calls -> Call]
  BY DEF PipelineInv, TypeOK
<1>2. call[c] \in Call
  BY <1>1
<1> USE <1>1, <1>2 DEF Call, Goto, BlockWith, stores, node
<1>3. CASE RejectMalformed(c) \/ FindSession(c)
  BY <1>3 DEF RejectMalformed, FindSession
<1>4. CASE LoadSession(c) \/ Decide(c)
  BY <1>4 DEF LoadSession, Decide
<1>5. CASE AmountDoesNotEncode(c) \/ UpstreamRefuses(c) \/ AnswerLost(c)
  BY <1>5 DEF AmountDoesNotEncode, UpstreamRefuses, AnswerLost
<1>6. CASE NodeExecutes(c)
  BY <1>6 DEF NodeExecutes, Reaches
<1>7. CASE AnswerArrives(c) \/ AddSpend(c) \/ RecordOwner(c) \/ MarkSessionUsed(c)
  BY <1>7 DEF AnswerArrives, AddSpend, RecordOwner, MarkSessionUsed
<1>8. CASE RecordAudit(c)
  BY <1>8 DEF RecordAudit
<1>9. CASE StorageFails(c) \/ AuditFails(c)
  BY <1>9 DEF StorageFails, AuditFails
<1> QED
  BY <1>3, <1>4, <1>5, <1>6, <1>7, <1>8, <1>9 DEF Gateway, Upstream, Fault

-----------------------------------------------------------------------------
(* The parts of the invariant *)

\* A call's locals stay in agreement with where it stands.
LEMMA CallsAreSoundPreserved ==
    ASSUME PipelineInv, [Next]_vars
    PROVE  CallsAreSound'
<1>1. /\ pc \in [Calls -> Steps] /\ call \in [Calls -> Call] /\ performed \subseteq Calls
      /\ CallsAreSound
  BY DEF PipelineInv, TypeOK
<1> USE <1>1 DEF CallsAreSound, Intent, Goto, BlockWith, stores, node
<1>2. ASSUME NEW s \in SessionIds, OpenSession(s) \/ RevokeSession(s)
      PROVE  CallsAreSound'
  BY <1>2 DEF OpenSession, RevokeSession
<1>3. CASE Tick
  BY <1>3 DEF Tick
<1>4. ASSUME NEW c \in Calls, c \in NextCall, NEW intent \in Intents, Arrive(c, intent)
      PROVE  CallsAreSound'
  <2>1. pc[c] = "idle"
    BY <1>4 DEF NextCall
  <2>2. \A d \in Calls \ {c} : pc'[d] = pc[d] /\ call'[d] = call[d]
    BY <1>4 DEF Arrive
  <2>3. call'[c].intent = intent /\ pc'[c] \in {"arrived", "lookup"}
    BY <1>4 DEF Arrive, Call
  <2>4. performed' = performed
    BY <1>4 DEF Arrive
  <2> QED BY <2>1, <2>2, <2>3, <2>4
<1>5. ASSUME NEW c \in Calls, c \in NextCall, RejectMalformed(c)
      PROVE  CallsAreSound'
  <2>1. pc[c] = "idle"
    BY <1>5 DEF NextCall
  <2>2. pc'[c] = "auditBlocked" /\ performed' = performed
    BY <1>5 DEF RejectMalformed
  <2> QED BY <1>5, <2>1, <2>2, StepOfOneCall
<1>6. ASSUME NEW c \in Calls, Gateway(c) \/ Upstream(c) \/ Fault(c)
      PROVE  CallsAreSound'
  <2>1. /\ \A d \in Calls \ {c} : pc'[d] = pc[d] /\ call'[d] = call[d]
        /\ call'[c].intent = call[c].intent
        /\ pc[c] # "forwarding" => call'[c].hash = call[c].hash
    BY <1>6, StepOfOneCall
  <2> USE <2>1
  <2>2. CASE FindSession(c) \/ LoadSession(c)
    <3>1. /\ pc[c] \in {"lookup", "arrived"}
          /\ pc'[c] \in {"auditBlocked", "arrived", "loaded"}
          /\ \/ pc[c] = "lookup" /\ pc'[c] = "arrived"
             \/ pc[c] = "arrived" \/ pc'[c] = "auditBlocked"
          /\ performed' = performed
      BY <2>2 DEF FindSession, LoadSession
    <3> QED BY <3>1
  <2>9. CASE Decide(c)
    <3>1. /\ pc[c] = "loaded" /\ performed' = performed
          /\ pc'[c] \in {"auditBlocked", "forwarding", "failed"}
      BY <2>9, DecisionTypes DEF Decide
    <3> QED BY <3>1
  <2>3. CASE AmountDoesNotEncode(c) \/ UpstreamRefuses(c) \/ AnswerLost(c)
    BY <2>3 DEF AmountDoesNotEncode, UpstreamRefuses, AnswerLost
  <2>4. CASE NodeExecutes(c)
    BY <2>4 DEF NodeExecutes, Reaches
  <2>5. CASE AnswerArrives(c)
    BY <2>5 DEF AnswerArrives, AfterOwner
  <2>6. CASE AddSpend(c)
    BY <2>6 DEF AddSpend, AfterOwner
  <2>7. CASE RecordOwner(c) \/ MarkSessionUsed(c) \/ RecordAudit(c)
    BY <2>7 DEF RecordOwner, MarkSessionUsed, RecordAudit, AfterOwner
  <2>8. CASE StorageFails(c) \/ AuditFails(c)
    BY <2>8 DEF StorageFails, AuditFails
  <2> QED
    BY <1>6, <2>2, <2>3, <2>4, <2>5, <2>6, <2>7, <2>8, <2>9 DEF Gateway, Upstream, Fault
<1>7. CASE CrashAndRestart
  BY <1>7 DEF CrashAndRestart, InFlight
<1>8. CASE UNCHANGED vars
  BY <1>8 DEF vars
<1> QED
  BY <1>2, <1>3, <1>4, <1>5, <1>6, <1>7, <1>8 DEF Next, NextCall

\* A session once revoked stays revoked.
LEMMA RevocationIsFinal ==
    ASSUME PipelineInv, NEW c \in Calls, Gateway(c) \/ Upstream(c) \/ Fault(c)
    PROVE  \A s \in SessionIds : sessions[s].status = "revoked" => sessions'[s].status = "revoked"
<1>1. sessions \in [SessionIds -> Session]
  BY DEF PipelineInv, TypeOK
<1>2. CASE MarkSessionUsed(c)
  BY <1>1, <1>2 DEF MarkSessionUsed, Session
<1>3. CASE FindSession(c) \/ LoadSession(c) \/ Decide(c) \/ AmountDoesNotEncode(c) \/ AddSpend(c)
  BY <1>3 DEF FindSession, LoadSession, Decide, AmountDoesNotEncode, AddSpend, stores
<1>4. CASE RecordOwner(c) \/ RecordAudit(c) \/ Upstream(c)
  BY <1>4 DEF RecordOwner, RecordAudit, Upstream, NodeExecutes, UpstreamRefuses, AnswerArrives, stores
<1>5. CASE Fault(c)
  BY <1>5 DEF Fault, AnswerLost, StorageFails, AuditFails, stores
<1> QED BY <1>2, <1>3, <1>4, <1>5 DEF Gateway

\* evaluateIntent lets a call pass only on a snapshot that is not revoked, and
\* for what the policy of the process allows now.
LEMMA DecisionsPass ==
    ASSUME NEW c \in Calls, Decision(c).decision = "allowed"
    PROVE  /\ Intent(c).app \in DOMAIN policy
           /\ Intent(c).action \in policy[Intent(c).app].allow
           /\ Intent(c).action \notin policy[Intent(c).app].deny
           /\ call[c].session # Undefined /\ call[c].session.status # "revoked"
           /\ Intent(c).action = "payment.read_own" => OwnedBySession(c) # FALSE
<1>1. Decision(c) = Allowed
  BY DecisionTypes
<1>2. /\ Intent(c).app \in DOMAIN policy
      /\ Intent(c).action \in policy[Intent(c).app].allow
      /\ Intent(c).action \notin policy[Intent(c).app].deny
      /\ Snapshot(c) # Undefined /\ Snapshot(c).status # "revoked"
      /\ Intent(c).action = "payment.read_own" => OwnedBySession(c) # FALSE
  BY <1>1, AllowedIntentPasses DEF Decision
<1>3. call[c].session # Undefined /\ call[c].session.status # "revoked"
  BY <1>2 DEF Snapshot, toSnapshot
<1> QED BY <1>2, <1>3

\* A call that began after a revocation is stopped by its decision.
LEMMA LateCallsStayOutPreserved ==
    ASSUME PipelineInv, [Next]_vars
    PROVE  LateCallsStayOut'
<1>1. /\ pc \in [Calls -> Steps] /\ call \in [Calls -> Call] /\ performed \subseteq Calls
      /\ sessions \in [SessionIds -> Session]
      /\ CallsAreSound /\ LateCallsStayOut
  BY DEF PipelineInv, TypeOK
<1>2. \A c \in Calls : Intent(c) \in Intents => Intent(c).session \in SessionIds
  BY PipelineAssumption
<1> USE <1>1, <1>2 DEF LateCallsStayOut, Intent, Goto, BlockWith, stores, node
<1>3. ASSUME NEW s \in SessionIds, OpenSession(s) \/ RevokeSession(s)
      PROVE  LateCallsStayOut'
  <2>1. \A r \in SessionIds : sessions[r].status = "revoked" => sessions'[r].status = "revoked"
    BY <1>3 DEF OpenSession, RevokeSession, Session
  <2>2. UNCHANGED <<pc, call, performed>>
    BY <1>3 DEF OpenSession, RevokeSession
  <2> QED BY <2>1, <2>2 DEF CallsAreSound
<1>4. CASE Tick
  BY <1>4 DEF Tick
<1>5. ASSUME NEW c \in Calls, c \in NextCall, NEW intent \in Intents, Arrive(c, intent)
      PROVE  LateCallsStayOut'
  <2>1. pc[c] = "idle" /\ c \notin performed
    BY <1>5 DEF NextCall, CallsAreSound
  <2>2. \A d \in Calls \ {c} : pc'[d] = pc[d] /\ call'[d] = call[d]
    BY <1>5 DEF Arrive
  <2>3. /\ pc'[c] \in {"arrived", "lookup"}
        /\ call'[c].intent = intent
        /\ call'[c].late => sessions[intent.session].status = "revoked"
    BY <1>5 DEF Arrive, Call
  <2>4. UNCHANGED <<performed, sessions>>
    BY <1>5 DEF Arrive
  <2> QED BY <2>1, <2>2, <2>3, <2>4
<1>6. ASSUME NEW c \in Calls, c \in NextCall, RejectMalformed(c)
      PROVE  LateCallsStayOut'
  <2>1. pc[c] = "idle"
    BY <1>6 DEF NextCall
  <2>2. UNCHANGED <<performed, sessions>>
    BY <1>6 DEF RejectMalformed
  <2> QED BY <1>6, <2>1, <2>2, StepOfOneCall
<1>7. ASSUME NEW c \in Calls, Gateway(c) \/ Upstream(c) \/ Fault(c)
      PROVE  LateCallsStayOut'
  <2>1. /\ \A d \in Calls \ {c} : pc'[d] = pc[d] /\ call'[d] = call[d]
        /\ call'[c].intent = call[c].intent /\ call'[c].late = call[c].late
    BY <1>7, StepOfOneCall
  <2>2. \A s \in SessionIds : sessions[s].status = "revoked" => sessions'[s].status = "revoked"
    BY <1>7, RevocationIsFinal
  <2> USE <2>1, <2>2 DEF CallsAreSound
  <2>3. CASE FindSession(c)
    BY <2>3 DEF FindSession
  <2>4. CASE LoadSession(c)
    BY <2>4 DEF LoadSession, Call
  <2>5. CASE Decide(c)
    <3>1. call[c].late => Decision(c).decision # "allowed"
      BY <2>5, DecisionsPass DEF Decide
    <3> QED BY <2>5, <3>1, DecisionTypes DEF Decide
  <2>6. CASE AmountDoesNotEncode(c) \/ UpstreamRefuses(c) \/ AnswerLost(c)
    BY <2>6 DEF AmountDoesNotEncode, UpstreamRefuses, AnswerLost
  <2>7. CASE NodeExecutes(c)
    BY <2>7 DEF NodeExecutes, Reaches
  <2>8. CASE AnswerArrives(c) \/ AddSpend(c) \/ RecordOwner(c) \/ MarkSessionUsed(c)
    BY <2>8 DEF AnswerArrives, AddSpend, RecordOwner, MarkSessionUsed
  <2>9. CASE RecordAudit(c) \/ StorageFails(c) \/ AuditFails(c)
    BY <2>9 DEF RecordAudit, StorageFails, AuditFails
  <2> QED
    BY <1>7, <2>3, <2>4, <2>5, <2>6, <2>7, <2>8, <2>9 DEF Gateway, Upstream, Fault
<1>8. CASE CrashAndRestart
  BY <1>8 DEF CrashAndRestart, InFlight
<1>9. CASE UNCHANGED vars
  BY <1>9 DEF vars
<1> QED
  BY <1>3, <1>4, <1>5, <1>6, <1>7, <1>8, <1>9 DEF Next, NextCall

\* The steps, by what they may change.
LEMMA StepKinds ==
    ASSUME [Next]_vars
    PROVE  \/ UNCHANGED <<policy, ledger, owner, audit, pc, call, node>>
           \/ \E c \in Calls, intent \in Intents : pc[c] = "idle" /\ Arrive(c, intent)
           \/ \E c \in Calls : pc[c] = "idle" /\ RejectMalformed(c)
           \/ \E c \in Calls : Gateway(c) \/ Upstream(c) \/ Fault(c)
           \/ CrashAndRestart
<1>1. ASSUME NEW s \in SessionIds, OpenSession(s) \/ RevokeSession(s)
      PROVE  UNCHANGED <<policy, ledger, owner, audit, pc, call, node>>
  BY <1>1 DEF OpenSession, RevokeSession
<1>2. Tick \/ UNCHANGED vars => UNCHANGED <<policy, ledger, owner, audit, pc, call, node>>
  BY DEF Tick, vars, stores
<1>3. \A c \in NextCall : c \in Calls /\ pc[c] = "idle"
  BY DEF NextCall
<1> QED BY <1>1, <1>2, <1>3 DEF Next

\* No step takes a session, its consumption, an owner, an accounted amount or
\* an executed call back.
LEMMA NothingIsTakenBack ==
    ASSUME PipelineInv, [Next]_vars
    PROVE  /\ \A h \in Hashes : owner[h] # NoSession => owner'[h] = owner[h]
           /\ \A b \in Buckets : ledger[b] \in Nat /\ ledger'[b] \in Nat /\ ledger[b] <= ledger'[b]
           /\ performed \subseteq performed'
           /\ \A s \in SessionIds :
                /\ sessions[s].status # "absent" => sessions'[s].status # "absent"
                /\ sessions[s].used => sessions'[s].used
<1>1. /\ sessions \in [SessionIds -> Session] /\ ledger \in [Buckets -> Nat]
      /\ owner \in [Hashes -> SessionIds \cup {NoSession}]
      /\ ledger' \in [Buckets -> Nat]
      /\ \A s \in SessionIds : sessions[s].used => sessions[s].status # "absent"
  BY TypeOKPreserved DEF PipelineInv, TypeOK, SessionsAreKept
<1> USE <1>1 DEF stores, node
<1>2. ASSUME NEW s \in SessionIds, OpenSession(s) \/ RevokeSession(s)
      PROVE  /\ UNCHANGED <<owner, ledger, performed>>
             /\ \A t \in SessionIds :
                  /\ sessions[t].status # "absent" => sessions'[t].status # "absent"
                  /\ sessions[t].used => sessions'[t].used
  BY <1>2 DEF OpenSession, RevokeSession, Session
<1>3. ASSUME NEW c \in Calls, AddSpend(c)
      PROVE  /\ \A b \in Buckets : ledger[b] <= ledger'[b]
             /\ UNCHANGED <<owner, performed, sessions>>
  <2>1. Intent(c) \in Intents /\ Intent(c).action \in SpendingActions
    BY <1>3 DEF AddSpend, PipelineInv, CallsAreSound
  <2>2. Intent(c).amount \in Nat
    BY <2>1, PipelineAssumption
  <2>3. ledger' = ledger
        \/ ledger' = [ledger EXCEPT ![BucketOf(Intent(c), call[c].at)] = @ + Intent(c).amount]
    BY <1>3 DEF AddSpend, addAmounts
  <2> QED BY <1>3, <2>2, <2>3 DEF AddSpend
<1>4. ASSUME NEW c \in Calls, RecordOwner(c)
      PROVE  /\ \A h \in Hashes : owner[h] # NoSession => owner'[h] = owner[h]
             /\ UNCHANGED <<ledger, performed, sessions>>
  BY <1>4 DEF RecordOwner
<1>5. ASSUME NEW c \in Calls, MarkSessionUsed(c)
      PROVE  /\ UNCHANGED <<owner, ledger, performed>>
             /\ \A t \in SessionIds :
                  /\ sessions[t].status # "absent" => sessions'[t].status # "absent"
                  /\ sessions[t].used => sessions'[t].used
  BY <1>5 DEF MarkSessionUsed, Session
<1>6. ASSUME NEW c \in Calls, NodeExecutes(c)
      PROVE  performed \subseteq performed' /\ UNCHANGED stores
  BY <1>6 DEF NodeExecutes
<1>7. ASSUME NEW c \in Calls,
             RejectMalformed(c) \/ FindSession(c) \/ LoadSession(c) \/ Decide(c)
               \/ AmountDoesNotEncode(c) \/ RecordAudit(c) \/ UpstreamRefuses(c)
               \/ AnswerArrives(c) \/ Fault(c)
      PROVE  UNCHANGED <<stores, performed>>
  BY <1>7 DEF RejectMalformed, FindSession, LoadSession, Decide, AmountDoesNotEncode,
              RecordAudit, UpstreamRefuses, AnswerArrives, Fault, AnswerLost, StorageFails, AuditFails
<1>8. ASSUME NEW c \in Calls, NEW intent \in Intents, Arrive(c, intent)
      PROVE  UNCHANGED <<stores, performed>>
  BY <1>8 DEF Arrive
<1>9. Tick \/ CrashAndRestart \/ UNCHANGED vars => UNCHANGED <<stores, performed>>
  BY DEF Tick, CrashAndRestart, vars
<1>10. ASSUME UNCHANGED <<stores, performed>>
       PROVE  /\ \A b \in Buckets : ledger[b] <= ledger'[b]
              /\ UNCHANGED <<owner, performed, sessions>>
  BY <1>10
<1> QED
  BY <1>2, <1>3, <1>4, <1>5, <1>6, <1>7, <1>8, <1>9, <1>10
  DEF Next, NextCall, Gateway, Upstream

\* What the node has executed a call for does not change afterwards.
LEMMA ExecutedCallsKeep ==
    ASSUME PipelineInv, [Next]_vars, NEW c \in performed
    PROVE  /\ c \in Calls /\ Intent(c) \in Intents /\ Intent(c)' = Intent(c)
           /\ call'[c].at = call[c].at /\ call'[c].hash = call[c].hash
<1>1. /\ c \in Calls /\ Intent(c) \in Intents
      /\ pc[c] \notin {"idle", "lookup", "arrived", "loaded", "forwarding"}
  BY DEF PipelineInv, TypeOK, CallsAreSound
<1>2. CASE call' = call
  BY <1>1, <1>2 DEF Intent
<1>3. ASSUME NEW d \in Calls, NEW intent \in Intents, pc[d] = "idle", Arrive(d, intent)
      PROVE  call'[c] = call[c]
  BY <1>1, <1>3 DEF Arrive, PipelineInv, TypeOK
<1>4. ASSUME NEW d \in Calls, RejectMalformed(d) \/ Gateway(d) \/ Upstream(d) \/ Fault(d)
      PROVE  /\ call'[c].intent = call[c].intent
             /\ call'[c].at = call[c].at /\ call'[c].hash = call[c].hash
  BY <1>1, <1>4, StepOfOneCall
<1> QED BY <1>1, <1>2, <1>3, <1>4, StepKinds DEF Intent, CrashAndRestart

\* Only the node's own step makes a call an executed one.
LEMMA OnlyForwardedCallsExecute ==
    ASSUME PipelineInv, [Next]_vars, NEW c \in performed' \ performed
    PROVE  /\ c \in Calls /\ pc[c] = "forwarding" /\ NodeExecutes(c)
<1>1. ASSUME NEW d \in Calls, NodeExecutes(d)
      PROVE  d = c /\ pc[c] = "forwarding"
  BY <1>1 DEF NodeExecutes, Reaches
<1>2. ASSUME NEW d \in Calls,
             Gateway(d) \/ UpstreamRefuses(d) \/ AnswerArrives(d) \/ Fault(d) \/ RejectMalformed(d)
      PROVE  performed' = performed
  BY <1>2 DEF Gateway, RejectMalformed, FindSession, LoadSession, Decide, AmountDoesNotEncode,
              AddSpend, RecordOwner, MarkSessionUsed, RecordAudit, UpstreamRefuses,
              AnswerArrives, Fault, AnswerLost, StorageFails, AuditFails, node
<1>3. ASSUME NEW d \in Calls, NEW intent \in Intents, Arrive(d, intent)
      PROVE  performed' = performed
  BY <1>3 DEF Arrive, node
<1>4. CrashAndRestart => performed' = performed
  BY DEF CrashAndRestart, node
<1>5. UNCHANGED <<policy, ledger, owner, audit, pc, call, node>> => performed' = performed
  BY DEF node
<1> QED BY <1>1, <1>2, <1>3, <1>4, <1>5, StepKinds DEF Upstream

\* Only markSessionUsed consumes a session.
LEMMA OnlyMarkingConsumes ==
    ASSUME PipelineInv, [Next]_vars
    PROVE  \A s \in SessionIds : sessions'[s].used =>
             sessions[s].used \/ \E c \in Calls : MarkSessionUsed(c) /\ s = Intent(c).session
<1>0. sessions \in [SessionIds -> Session]
  BY DEF PipelineInv, TypeOK
<1>1. ASSUME NEW s \in SessionIds, OpenSession(s) \/ RevokeSession(s)
      PROVE  \A t \in SessionIds : sessions'[t].used => sessions[t].used
  BY <1>0, <1>1 DEF OpenSession, RevokeSession, Session, NewSession
<1>2. ASSUME NEW c \in Calls, MarkSessionUsed(c)
      PROVE  \A t \in SessionIds : sessions'[t].used => sessions[t].used \/ t = Intent(c).session
  BY <1>0, <1>2 DEF MarkSessionUsed, Session
<1>3. ASSUME NEW c \in Calls, Gateway(c) \/ Upstream(c) \/ Fault(c) \/ RejectMalformed(c),
             ~MarkSessionUsed(c)
      PROVE  sessions' = sessions
  BY <1>3 DEF Gateway, RejectMalformed, FindSession, LoadSession, Decide, AmountDoesNotEncode,
              AddSpend, RecordOwner, RecordAudit, Upstream, NodeExecutes, UpstreamRefuses,
              AnswerArrives, Fault, AnswerLost, StorageFails, AuditFails, stores
<1>4. ASSUME NEW c \in Calls, NEW intent \in Intents, Arrive(c, intent)
      PROVE  sessions' = sessions
  BY <1>4 DEF Arrive, stores
<1>5. CrashAndRestart \/ Tick \/ UNCHANGED vars => sessions' = sessions
  BY DEF CrashAndRestart, Tick, vars, stores
<1> QED BY <1>1, <1>2, <1>3, <1>4, <1>5 DEF Next, NextCall

\* A session in use is in the store, and only such a session is consumed.
LEMMA SessionsAreKeptPreserved ==
    ASSUME PipelineInv, [Next]_vars
    PROVE  SessionsAreKept'
<1>1. /\ pc \in [Calls -> Steps] /\ call \in [Calls -> Call]
      /\ sessions \in [SessionIds -> Session]
      /\ SessionsAreKept
      /\ \A s \in SessionIds :
           sessions[s].status # "absent" => sessions'[s].status # "absent"
      /\ \A c \in Calls : Intent(c) \in Intents => Intent(c).session \in SessionIds
  BY NothingIsTakenBack, PipelineAssumption DEF PipelineInv, TypeOK
<1>2. \A s \in SessionIds : sessions'[s].used => sessions'[s].status # "absent"
  <2>1. \A s \in SessionIds : sessions'[s].used =>
          sessions[s].used \/ \E c \in Calls : MarkSessionUsed(c) /\ s = Intent(c).session
    BY OnlyMarkingConsumes
  <2>2. \A c \in Calls : MarkSessionUsed(c) => sessions[Intent(c).session].status # "absent"
    BY <1>1 DEF MarkSessionUsed, SessionsAreKept
  <2> QED BY <1>1, <2>1, <2>2 DEF SessionsAreKept
<1> DEFINE Due(c) ==
      \/ pc[c] \in {"forwarding", "executed", "addSpend", "recordOwner", "markUsed"}
      \/ pc[c] = "loaded" /\ call[c].session # Undefined
<1>3. SUFFICES ASSUME NEW c \in Calls, Due(c)'
               PROVE  sessions'[Intent(c)'.session].status # "absent"
  BY <1>2, <1>3 DEF SessionsAreKept
<1>4. CASE pc'[c] = pc[c] /\ call'[c] = call[c]
  <2>1. Due(c) /\ Intent(c)' = Intent(c)
    BY <1>3, <1>4 DEF Intent
  <2>2. Intent(c).session \in SessionIds
    BY <1>1, <2>1 DEF PipelineInv, CallsAreSound
  <2> QED BY <1>1, <2>1, <2>2 DEF SessionsAreKept
<1>5. ASSUME Gateway(c) \/ Upstream(c) \/ Fault(c) \/ RejectMalformed(c)
      PROVE  sessions'[Intent(c)'.session].status # "absent"
  <2>1. Intent(c)' = Intent(c)
    BY <1>5, StepOfOneCall DEF Intent
  <2>2. pc[c] \in {"arrived", "loaded", "forwarding", "executed", "addSpend", "recordOwner"}
    BY <1>1, <1>3, <1>5, DecisionTypes
    DEF Gateway, RejectMalformed, FindSession, LoadSession, Decide, AmountDoesNotEncode, AddSpend,
        RecordOwner, MarkSessionUsed, RecordAudit, Upstream, NodeExecutes, Reaches, UpstreamRefuses,
        AnswerArrives, Fault, AnswerLost, StorageFails, AuditFails, BlockWith, Goto, AfterOwner
  <2>3. Intent(c).session \in SessionIds
    BY <1>1, <2>2 DEF PipelineInv, CallsAreSound
  <2>4. CASE pc[c] = "arrived"
    <3>1. LoadSession(c)
      BY <1>1, <1>3, <1>5, <2>4
      DEF Gateway, RejectMalformed, FindSession, LoadSession, Decide, AmountDoesNotEncode, AddSpend,
          RecordOwner, MarkSessionUsed, RecordAudit, Upstream, NodeExecutes, Reaches, UpstreamRefuses,
          AnswerArrives, Fault, AnswerLost, StorageFails, AuditFails, BlockWith, Goto
    <3>2. call'[c].session # Undefined => sessions[Intent(c).session].status # "absent"
      BY <1>1, <3>1 DEF LoadSession, Call
    <3>3. pc'[c] = "loaded"
      BY <1>1, <3>1 DEF LoadSession, Goto
    <3> QED BY <1>1, <1>3, <2>1, <2>3, <3>2, <3>3
  <2>5. CASE pc[c] = "loaded"
    <3>1. Decide(c) /\ pc'[c] # "loaded"
      BY <1>1, <1>3, <1>5, <2>5, DecisionTypes
      DEF Gateway, RejectMalformed, FindSession, LoadSession, Decide, AmountDoesNotEncode, AddSpend,
          RecordOwner, MarkSessionUsed, RecordAudit, Upstream, NodeExecutes, Reaches, UpstreamRefuses,
          AnswerArrives, Fault, AnswerLost, StorageFails, AuditFails, BlockWith, Goto
    <3>2. Decision(c).decision = "allowed"
      BY <1>1, <1>3, <3>1, DecisionTypes DEF Decide, Goto
    <3>3. call[c].session # Undefined
      BY <3>2, DecisionsPass
    <3> QED BY <1>1, <2>1, <2>3, <2>5, <3>3 DEF SessionsAreKept
  <2> QED BY <1>1, <2>1, <2>2, <2>3, <2>4, <2>5 DEF SessionsAreKept
<1>6. CASE \E d \in Calls, intent \in Intents : pc[d] = "idle" /\ Arrive(d, intent)
  BY <1>1, <1>3, <1>4, <1>6 DEF Arrive, Goto
<1>7. CASE CrashAndRestart
  BY <1>1, <1>3, <1>4, <1>7 DEF CrashAndRestart, InFlight
<1>8. ASSUME NEW d \in Calls, d # c, RejectMalformed(d) \/ Gateway(d) \/ Upstream(d) \/ Fault(d)
      PROVE  pc'[c] = pc[c] /\ call'[c] = call[c]
  BY <1>8, StepOfOneCall
<1> QED BY <1>4, <1>5, <1>6, <1>7, <1>8, StepKinds

\* What let a call pass holds until the node has its RPC: the policy changes
\* only by a restart, which ends the call, and an owner for good.
LEMMA DecisionsAreCurrentPreserved ==
    ASSUME PipelineInv, [Next]_vars
    PROVE  DecisionsAreCurrent'
<1>1. /\ pc \in [Calls -> Steps] /\ call \in [Calls -> Call] /\ DecisionsAreCurrent
      /\ \A h \in Hashes : owner[h] # NoSession => owner'[h] = owner[h]
      /\ \A i \in Intents : /\ i.session # NoSession
                            /\ i.action = "payment.read_own" => i.hash \in Hashes /\ i.hash # NoHash
  BY NothingIsTakenBack, PipelineAssumption DEF PipelineInv, TypeOK
<1>2. SUFFICES ASSUME NEW c \in Calls, pc'[c] = "forwarding"
               PROVE  /\ Intent(c)'.app \in DOMAIN policy'
                      /\ Intent(c)'.action \in policy'[Intent(c)'.app].allow
                      /\ Intent(c)'.action \notin policy'[Intent(c)'.app].deny
                      /\ Intent(c)'.action = "payment.read_own" =>
                           owner'[Intent(c)'.hash] = Intent(c)'.session
  BY <1>2 DEF DecisionsAreCurrent
<1>3. CASE pc'[c] = pc[c] /\ call'[c].intent = call[c].intent /\ policy' = policy
  <2>1. Intent(c)' = Intent(c)
    BY <1>3 DEF Intent
  <2>2. Intent(c) \in Intents
    BY <1>2, <1>3 DEF PipelineInv, CallsAreSound
  <2>3. /\ Intent(c).app \in DOMAIN policy
        /\ Intent(c).action \in policy[Intent(c).app].allow
        /\ Intent(c).action \notin policy[Intent(c).app].deny
        /\ Intent(c).action = "payment.read_own" => owner[Intent(c).hash] = Intent(c).session
    BY <1>1, <1>2, <1>3 DEF DecisionsAreCurrent
  <2>4. Intent(c).action = "payment.read_own" => owner'[Intent(c).hash] = Intent(c).session
    <3>1. /\ Intent(c).session # NoSession
          /\ Intent(c).action = "payment.read_own" => Intent(c).hash \in Hashes
      BY <1>1, <2>2
    <3>2. Intent(c).action = "payment.read_own" =>
            owner[Intent(c).hash] # NoSession /\ Intent(c).hash \in Hashes
      BY <2>3, <3>1
    <3> QED BY <1>1, <2>3, <3>2
  <2> QED BY <1>3, <2>1, <2>3, <2>4
<1>4. CASE Decide(c)
  <2>1. /\ pc[c] = "loaded" /\ Decision(c).decision = "allowed"
        /\ policy' = policy /\ owner' = owner
    BY <1>1, <1>2, <1>4, DecisionTypes DEF Decide, Goto, stores
  <2>2. Intent(c)' = Intent(c)
    BY <1>4, StepOfOneCall DEF Intent, Gateway
  <2>3. Intent(c) \in Intents
    BY <2>1 DEF PipelineInv, CallsAreSound
  <2>4. Intent(c).action = "payment.read_own" => owner[Intent(c).hash] = Intent(c).session
    <3>1. Intent(c).action = "payment.read_own" => OwnedBySession(c) # FALSE
      BY <2>1, DecisionsPass
    <3>2. Intent(c).action = "payment.read_own" =>
            OwnedBySession(c) = (owner[Intent(c).hash] = Intent(c).session)
      <4>1. Intent(c).action = "payment.read_own" => Intent(c).hash # NoHash
        BY <1>1, <2>3
      <4> QED BY <4>1 DEF OwnedBySession
    <3> QED BY <3>1, <3>2
  <2> QED BY <2>1, <2>2, <2>4, DecisionsPass
<1>5. ASSUME Gateway(c) \/ Upstream(c) \/ Fault(c) \/ RejectMalformed(c), ~Decide(c)
      PROVE  FALSE
  BY <1>1, <1>2, <1>5
  DEF Gateway, RejectMalformed, FindSession, LoadSession, AmountDoesNotEncode, AddSpend,
      RecordOwner, MarkSessionUsed, RecordAudit, Upstream, NodeExecutes, Reaches, UpstreamRefuses,
      AnswerArrives, Fault, AnswerLost, StorageFails, AuditFails, BlockWith, Goto, AfterOwner
<1>6. ASSUME NEW d \in Calls, d # c, RejectMalformed(d) \/ Gateway(d) \/ Upstream(d) \/ Fault(d)
      PROVE  pc'[c] = pc[c] /\ call'[c].intent = call[c].intent /\ policy' = policy
  BY <1>6, StepOfOneCall
<1>7. CASE \E d \in Calls, intent \in Intents : pc[d] = "idle" /\ Arrive(d, intent)
  BY <1>1, <1>2, <1>3, <1>7 DEF Arrive, Goto
<1>8. ~CrashAndRestart
  BY <1>2 DEF CrashAndRestart, InFlight
<1> QED BY <1>3, <1>4, <1>5, <1>6, <1>7, <1>8, StepKinds

\* A read is executed only after its decision, and an owner stays.
LEMMA ReadsOnlyOwnPaymentsPreserved ==
    ASSUME PipelineInv, [Next]_vars
    PROVE  ReadsOnlyOwnPayments'
<1>1. /\ \A h \in Hashes : owner[h] # NoSession => owner'[h] = owner[h]
      /\ \A i \in Intents : /\ i.session # NoSession
                            /\ i.action = "payment.read_own" => i.hash \in Hashes
  BY NothingIsTakenBack, PipelineAssumption
<1>2. SUFFICES ASSUME NEW c \in performed'
               PROVE  Intent(c)'.action = "payment.read_own" =>
                        owner'[Intent(c)'.hash] = Intent(c)'.session
  BY DEF ReadsOnlyOwnPayments
<1>3. CASE c \in performed
  <2>1. Intent(c) \in Intents /\ Intent(c)' = Intent(c)
    BY <1>3, ExecutedCallsKeep
  <2>2. Intent(c).action = "payment.read_own" => owner[Intent(c).hash] = Intent(c).session
    BY <1>3 DEF PipelineInv, ReadsOnlyOwnPayments
  <2>3. Intent(c).action = "payment.read_own" => owner'[Intent(c).hash] = Intent(c).session
    <3>1. /\ Intent(c).session # NoSession
          /\ Intent(c).action = "payment.read_own" => Intent(c).hash \in Hashes
      BY <1>1, <2>1
    <3>2. Intent(c).action = "payment.read_own" =>
            owner[Intent(c).hash] # NoSession /\ Intent(c).hash \in Hashes
      BY <2>2, <3>1
    <3> QED BY <1>1, <2>2, <3>2
  <2> QED BY <2>1, <2>3
<1>4. CASE c \notin performed
  <2>1. c \in Calls /\ pc[c] = "forwarding" /\ NodeExecutes(c)
    BY <1>4, OnlyForwardedCallsExecute
  <2>2. Intent(c)' = Intent(c)
    BY <2>1, StepOfOneCall DEF Intent, Upstream
  <2>3. owner' = owner
    BY <2>1 DEF NodeExecutes, stores
  <2> QED BY <2>1, <2>2, <2>3 DEF PipelineInv, DecisionsAreCurrent
<1> QED BY <1>3, <1>4

\* Only recordOwner names an owner, for the hash its own call was answered with.
LEMMA OwnershipIsEarnedPreserved ==
    ASSUME PipelineInv, [Next]_vars
    PROVE  OwnershipIsEarned'
<1>1. /\ OwnershipIsEarned /\ performed \subseteq performed'
      /\ owner \in [Hashes -> SessionIds \cup {NoSession}]
      /\ \A h \in Hashes : owner[h] # NoSession => owner'[h] = owner[h]
  BY NothingIsTakenBack DEF PipelineInv, TypeOK
<1>2. SUFFICES ASSUME NEW h \in Hashes, owner'[h] # NoSession
               PROVE  \E c \in performed' : /\ Intent(c)'.action \in SpendingActions
                                           /\ Intent(c)'.session = owner'[h]
                                           /\ call'[c].hash = h
  BY DEF OwnershipIsEarned
<1>3. CASE owner[h] # NoSession
  <2>1. PICK c \in performed : /\ Intent(c).action \in SpendingActions
                               /\ Intent(c).session = owner[h]
                               /\ call[c].hash = h
    BY <1>1, <1>3 DEF OwnershipIsEarned
  <2> QED BY <1>1, <1>3, <2>1, ExecutedCallsKeep
<1>4. CASE owner[h] = NoSession
  <2>1. PICK c \in Calls : RecordOwner(c)
    <3>1. owner' # owner
      BY <1>2, <1>4
    <3> QED
      BY <3>1, StepKinds
      DEF Gateway, RejectMalformed, FindSession, LoadSession, Decide, AmountDoesNotEncode, AddSpend,
          MarkSessionUsed, RecordAudit, Upstream, NodeExecutes, UpstreamRefuses, AnswerArrives,
          Fault, AnswerLost, StorageFails, AuditFails, Arrive, CrashAndRestart, stores
  <2>2. h = call[c].hash /\ owner'[h] = Intent(c).session
    BY <1>1, <1>2, <1>4, <2>1 DEF RecordOwner
  <2>3. c \in performed /\ Intent(c).action \in SpendingActions
    BY <2>1 DEF RecordOwner, PipelineInv, CallsAreSound
  <2> QED BY <1>1, <2>2, <2>3, ExecutedCallsKeep
<1> QED BY <1>3, <1>4

\* What EventsAreDue and AuditTellsTheTruth say of an executed call stays true.
LEMMA ClaimsKeep ==
    ASSUME PipelineInv, [Next]_vars, NEW c \in performed
    PROVE  /\ Charged(c) => Charged(c)'
           /\ HashIsOwned(c) => HashIsOwned(c)'
           /\ IsConsumed(c) => IsConsumed(c)'
<1>1. /\ c \in Calls /\ Intent(c) \in Intents /\ Intent(c)' = Intent(c)
      /\ call'[c].at = call[c].at /\ call'[c].hash = call[c].hash
  BY ExecutedCallsKeep
<1>2. call[c] \in Call
  BY <1>1 DEF PipelineInv, TypeOK
<1>3. /\ \A h \in Hashes : owner[h] # NoSession => owner'[h] = owner[h]
      /\ \A b \in Buckets : ledger[b] \in Nat /\ ledger'[b] \in Nat /\ ledger[b] <= ledger'[b]
      /\ \A s \in SessionIds : sessions[s].used => sessions'[s].used
  BY NothingIsTakenBack
<1>4. Charged(c) => Charged(c)'
  <2> DEFINE b == BucketOf(Intent(c), call[c].at)
  <2>1. SUFFICES ASSUME Intent(c).action \in SpendingActions, ledger[b] >= Intent(c).amount
                 PROVE  ledger'[b] >= Intent(c).amount
    BY <1>1 DEF Charged, BucketOf
  <2>2. b \in Buckets
    BY <1>1, <1>2, <2>1, SpendingBuckets DEF Call
  <2>3. Intent(c).amount \in Nat
    BY <1>1, <2>1, PipelineAssumption
  <2> HIDE DEF b
  <2> QED BY <1>3, <2>1, <2>2, <2>3
<1>5. HashIsOwned(c) => HashIsOwned(c)'
  <2>1. call[c].hash \in Hash
    BY <1>2 DEF Call
  <2> QED BY <1>1, <1>3, <2>1 DEF HashIsOwned, Hash
<1>6. IsConsumed(c) => IsConsumed(c)'
  <2>1. Intent(c).session \in SessionIds
    BY <1>1, PipelineAssumption
  <2> QED BY <1>1, <1>3, <2>1 DEF IsConsumed
<1> QED BY <1>4, <1>5, <1>6

\* addSpend, recordOwner and markUsed each make true what they are for.
LEMMA ClaimsAreMade ==
    ASSUME PipelineInv, [Next]_vars, NEW c \in Calls
    PROVE  /\ AddSpend(c) /\ pc'[c] # "failed" => Charged(c)'
           /\ RecordOwner(c) => HashIsOwned(c)'
           /\ MarkSessionUsed(c) => IsConsumed(c)'
<1>1. /\ pc \in [Calls -> Steps] /\ ledger \in [Buckets -> Nat]
      /\ owner \in [Hashes -> SessionIds \cup {NoSession}]
      /\ sessions \in [SessionIds -> Session]
      /\ call[c] \in Call
  BY DEF PipelineInv, TypeOK
<1>2. ASSUME pc[c] \in {"addSpend", "recordOwner", "markUsed"}
      PROVE  /\ c \in performed /\ Intent(c) \in Intents /\ Intent(c)' = Intent(c)
             /\ call'[c].at = call[c].at /\ call'[c].hash = call[c].hash
             /\ Intent(c).session \in SessionIds
  BY <1>2, ExecutedCallsKeep, PipelineAssumption DEF PipelineInv, CallsAreSound
<1>3. ASSUME AddSpend(c), pc'[c] # "failed"
      PROVE  Charged(c)'
  <2> DEFINE b == BucketOf(Intent(c), call[c].at)
  <2>1. Intent(c).action \in SpendingActions
    BY <1>3 DEF AddSpend, PipelineInv, CallsAreSound
  <2>2. pc[c] = "addSpend" /\ ledger' = [ledger EXCEPT ![b] = @ + Intent(c).amount]
    BY <1>1, <1>3 DEF AddSpend, addAmounts, Goto
  <2>3. b \in Buckets
    BY <1>1, <1>2, <2>1, <2>2, SpendingBuckets DEF Call
  <2>4. Intent(c).amount \in Nat
    BY <1>2, <2>1, <2>2, PipelineAssumption
  <2>5. Intent(c)' = Intent(c) /\ call'[c].at = call[c].at
    BY <1>2, <2>2
  <2>6. ledger'[b] >= Intent(c).amount
    <3> HIDE DEF b
    <3>1. ledger'[b] = ledger[b] + Intent(c).amount /\ ledger[b] \in Nat
      BY <1>1, <2>2, <2>3
    <3> QED BY <3>1, <2>4
  <2> QED BY <2>5, <2>6 DEF Charged, BucketOf
<1>4. ASSUME RecordOwner(c)
      PROVE  HashIsOwned(c)'
  <2>1. pc[c] = "recordOwner" /\ call[c].hash \in Hashes
    BY <1>1, <1>4 DEF RecordOwner, PipelineInv, CallsAreSound, Call, Hash
  <2>2. Intent(c).session # NoSession /\ call'[c].hash = call[c].hash
    BY <1>2, <2>1, PipelineAssumption
  <2>3. owner'[call[c].hash] # NoSession
    BY <1>1, <1>4, <2>1, <2>2 DEF RecordOwner
  <2> QED BY <2>2, <2>3 DEF HashIsOwned
<1>5. ASSUME MarkSessionUsed(c)
      PROVE  IsConsumed(c)'
  <2>1. pc[c] = "markUsed"
    BY <1>5 DEF MarkSessionUsed
  <2>2. sessions'[Intent(c).session].used
    BY <1>1, <1>2, <1>5, <2>1 DEF MarkSessionUsed, Session
  <2> QED BY <1>2, <2>1, <2>2 DEF IsConsumed
<1> QED BY <1>3, <1>4, <1>5

\* The side effects come before the event that claims them.
LEMMA EventsAreDuePreserved ==
    ASSUME PipelineInv, [Next]_vars
    PROVE  EventsAreDue'
<1> DEFINE Due(c) ==
      /\ pc[c] \in {"recordOwner", "markUsed", "auditAllowed"} => Charged(c)
      /\ pc[c] \in {"markUsed", "auditAllowed"} => HashIsOwned(c)
      /\ pc[c] = "auditAllowed" => IsConsumed(c)
      /\ pc[c] = "executed" /\ Intent(c).action \notin SpendingActions => call[c].hash = NoHash
      /\ pc[c] = "auditBlocked" => /\ call[c].reason \in BlockReasons \cup {"UPSTREAM_FIBER_ERROR"}
                                   /\ call[c].reason \in BlockReasons => c \notin performed
      /\ pc[c] \in {"forwarding", "executed", "addSpend", "recordOwner", "markUsed",
                    "auditAllowed"} => call[c].reason = "WITHIN_POLICY"
      /\ audit[c] # <<>> => pc[c] = "answered"
<1>1. /\ pc \in [Calls -> Steps] /\ call \in [Calls -> Call] /\ audit \in [Calls -> Seq(AuditEvent)]
      /\ \A c \in Calls : Due(c)
  BY DEF PipelineInv, TypeOK, EventsAreDue
<1>2. SUFFICES ASSUME NEW c \in Calls
               PROVE  Due(c)'
  BY DEF EventsAreDue
<1> DEFINE Executed == pc[c] \in {"executed", "addSpend", "recordOwner", "markUsed", "auditAllowed"}
<1>3. Executed => /\ c \in performed /\ Intent(c)' = Intent(c) /\ call'[c].hash = call[c].hash
                  /\ Charged(c) => Charged(c)'
                  /\ HashIsOwned(c) => HashIsOwned(c)'
                  /\ IsConsumed(c) => IsConsumed(c)'
  BY ClaimsKeep, ExecutedCallsKeep DEF PipelineInv, CallsAreSound
<1>4. ASSUME c \in performed', c \notin performed
      PROVE  pc[c] = "forwarding" /\ NodeExecutes(c)
  BY <1>4, OnlyForwardedCallsExecute
<1>5. ASSUME pc'[c] = pc[c], call'[c] = call[c], audit'[c] = audit[c]
      PROVE  Due(c)'
  <2>1. Intent(c)' = Intent(c)
    BY <1>5 DEF Intent
  <2> QED BY <1>1, <1>3, <1>4, <1>5, <2>1
<1>6. CASE UNCHANGED <<policy, ledger, owner, audit, pc, call, node>>
  BY <1>5, <1>6
<1>7. ASSUME NEW d \in Calls, NEW intent \in Intents, pc[d] = "idle", Arrive(d, intent)
      PROVE  Due(c)'
  <2>1. CASE d = c
    <3>1. pc'[c] \in {"arrived", "lookup"} /\ audit' = audit /\ pc[c] = "idle"
      BY <1>1, <1>7, <2>1 DEF Arrive, Goto
    <3> QED BY <1>1, <3>1
  <2>2. CASE d # c
    BY <1>1, <1>5, <1>7, <2>2 DEF Arrive, Goto
  <2> QED BY <2>1, <2>2
<1>8. ASSUME NEW d \in Calls, d # c, RejectMalformed(d) \/ Gateway(d) \/ Upstream(d) \/ Fault(d)
      PROVE  Due(c)'
  BY <1>5, <1>8, StepOfOneCall
<1>9. CASE CrashAndRestart
  BY <1>1, <1>3, <1>4, <1>5, <1>9 DEF CrashAndRestart, InFlight, NodeExecutes, node
<1>10. CASE pc[c] = "idle" /\ RejectMalformed(c)
  <2>1. /\ pc'[c] = "auditBlocked" /\ call'[c].reason = "INVALID_REQUEST" /\ audit' = audit
        /\ performed' = performed
    BY <1>1, <1>10 DEF RejectMalformed, BlockWith, Goto, Call, node
  <2>2. c \notin performed
    BY <1>10 DEF PipelineInv, CallsAreSound
  <2> QED BY <1>1, <1>10, <2>1, <2>2 DEF BlockReasons
<1>11. ASSUME Gateway(c) \/ Upstream(c) \/ Fault(c)
       PROVE  Due(c)'
  <2> USE <1>1
  <2>1. CASE FindSession(c) \/ LoadSession(c) \/ Decide(c) \/ AmountDoesNotEncode(c)
    <3>1. /\ audit' = audit /\ performed' = performed
          /\ pc[c] \in {"lookup", "arrived", "loaded", "forwarding"}
          /\ c \notin performed
      BY <2>1
      DEF FindSession, LoadSession, Decide, AmountDoesNotEncode, PipelineInv, CallsAreSound, node
    <3>2. /\ pc'[c] \in {"auditBlocked", "arrived", "loaded", "forwarding", "failed"}
          /\ pc'[c] = "auditBlocked" => call'[c].reason \in BlockReasons
          /\ pc'[c] = "forwarding" => call'[c].reason = "WITHIN_POLICY"
      <4>1. CASE FindSession(c) \/ AmountDoesNotEncode(c) \/ LoadSession(c)
        BY <4>1 DEF FindSession, LoadSession, AmountDoesNotEncode, BlockWith, Goto, BlockReasons, Call
      <4>2. CASE Decide(c)
        BY <4>2, DecisionTypes DEF Decide, Goto, Call, Allowed
      <4> QED BY <2>1, <4>1, <4>2
    <3> QED BY <3>1, <3>2
  <2>2. CASE UpstreamRefuses(c) \/ AnswerLost(c)
    <3>1. /\ pc'[c] = "auditBlocked" /\ call'[c].reason = "UPSTREAM_FIBER_ERROR" /\ audit' = audit
          /\ pc[c] # "answered"
      BY <2>2 DEF UpstreamRefuses, AnswerLost, BlockWith, Goto, Call
    <3> QED BY <3>1 DEF BlockReasons
  <2>3. CASE NodeExecutes(c)
    <3>1. /\ pc[c] = "forwarding" /\ pc'[c] = "executed" /\ audit' = audit
          /\ Intent(c)' = Intent(c) /\ call'[c].reason = call[c].reason
      BY <2>3, StepOfOneCall DEF NodeExecutes, Reaches, Goto, Call, Intent, Upstream
    <3>2. Intent(c).action \notin SpendingActions => call'[c].hash = NoHash
      BY <2>3 DEF NodeExecutes, AnswerHashes, SpendingActions, Call
    <3> QED BY <3>1, <3>2
  <2>4. CASE AnswerArrives(c)
    <3>1. /\ pc[c] = "executed" /\ audit' = audit /\ call' = call
          /\ pc'[c] \in {"addSpend", "markUsed", "auditAllowed"}
          /\ pc'[c] # "addSpend" => Intent(c).action \notin SpendingActions
          /\ pc'[c] = "auditAllowed" => Terms[Intent(c).session].approvalType # "once"
      BY <2>4 DEF AnswerArrives, AfterOwner, Goto
    <3>2. pc'[c] # "addSpend" => Charged(c) /\ HashIsOwned(c)
      BY <3>1 DEF Charged, HashIsOwned
    <3>3. pc'[c] = "auditAllowed" => IsConsumed(c)
      BY <3>1 DEF IsConsumed
    <3> QED BY <1>3, <3>1, <3>2, <3>3
  <2>5. CASE AddSpend(c)
    <3>1. /\ pc[c] = "addSpend" /\ audit' = audit /\ call' = call
          /\ pc'[c] \in {"recordOwner", "markUsed", "auditAllowed", "failed"}
          /\ pc'[c] \in {"markUsed", "auditAllowed"} => call[c].hash = NoHash
          /\ pc'[c] = "auditAllowed" => Terms[Intent(c).session].approvalType # "once"
      BY <2>5 DEF AddSpend, AfterOwner, Goto
    <3>2. pc'[c] # "failed" => Charged(c)'
      BY <2>5, ClaimsAreMade
    <3>3. pc'[c] \in {"markUsed", "auditAllowed"} => HashIsOwned(c)
      BY <3>1 DEF HashIsOwned
    <3>4. pc'[c] = "auditAllowed" => IsConsumed(c)
      BY <3>1 DEF IsConsumed
    <3> QED BY <1>3, <3>1, <3>2, <3>3, <3>4
  <2>6. CASE RecordOwner(c)
    <3>1. /\ pc[c] = "recordOwner" /\ audit' = audit /\ call' = call
          /\ pc'[c] \in {"markUsed", "auditAllowed"}
          /\ pc'[c] = "auditAllowed" => Terms[Intent(c).session].approvalType # "once"
      BY <2>6 DEF RecordOwner, AfterOwner, Goto
    <3>2. HashIsOwned(c)'
      BY <2>6, ClaimsAreMade
    <3>3. pc'[c] = "auditAllowed" => IsConsumed(c)
      BY <3>1 DEF IsConsumed
    <3> QED BY <1>3, <3>1, <3>2, <3>3
  <2>7. CASE MarkSessionUsed(c)
    <3>1. pc[c] = "markUsed" /\ audit' = audit /\ call' = call /\ pc'[c] = "auditAllowed"
      BY <2>7 DEF MarkSessionUsed, Goto
    <3>2. IsConsumed(c)'
      BY <2>7, ClaimsAreMade
    <3> QED BY <1>3, <3>1, <3>2
  <2>8. CASE RecordAudit(c) \/ StorageFails(c) \/ AuditFails(c)
    <3>1. /\ pc'[c] \in {"answered", "failed"}
          /\ pc'[c] # "answered" => audit' = audit /\ pc[c] # "answered"
      BY <2>8 DEF RecordAudit, StorageFails, AuditFails, Goto
    <3> QED BY <3>1
  <2> QED
    BY <1>11, <2>1, <2>2, <2>3, <2>4, <2>5, <2>6, <2>7, <2>8 DEF Gateway, Upstream, Fault
<1> QED BY <1>6, <1>7, <1>8, <1>9, <1>10, <1>11, StepKinds

\* An event is true when it is written and stays true.
LEMMA AuditTellsTheTruthPreserved ==
    ASSUME PipelineInv, [Next]_vars
    PROVE  AuditTellsTheTruth'
<1> DEFINE True(c, e) ==
      IF e.event = "intent_allowed"
        THEN c \in performed /\ HashIsOwned(c) /\ IsConsumed(c) /\ Charged(c)
        ELSE e.reason \in BlockReasons => c \notin performed
<1>1. /\ audit \in [Calls -> Seq(AuditEvent)]
      /\ \A c \in Calls : \A k \in DOMAIN audit[c] : True(c, audit[c][k])
      /\ \A c \in Calls : audit[c] # <<>> => pc[c] = "answered"
  BY DEF PipelineInv, TypeOK, AuditTellsTheTruth, EventsAreDue, HashIsOwned, IsConsumed, Charged
<1>2. SUFFICES ASSUME NEW c \in Calls, NEW k \in DOMAIN audit'[c]
               PROVE  True(c, audit[c][k])'
  BY DEF AuditTellsTheTruth, HashIsOwned, IsConsumed, Charged
<1>3. performed \subseteq performed'
  BY NothingIsTakenBack
<1>4. ASSUME NEW e, True(c, e), c \in performed \/ c \notin performed'
      PROVE  True(c, e)'
  <2>1. CASE e.event = "intent_allowed"
    BY <1>3, <1>4, <2>1, ClaimsKeep
  <2>2. CASE e.event # "intent_allowed"
    BY <1>4, <2>2
  <2> QED BY <2>1, <2>2
<1>5. CASE audit'[c] = audit[c]
  <2>1. pc[c] = "answered" /\ k \in DOMAIN audit[c] /\ True(c, audit[c][k])
    BY <1>1, <1>2, <1>5
  <2>2. c \in performed \/ c \notin performed'
    BY <2>1, OnlyForwardedCallsExecute
  <2>3. True(c, audit[c][k])'
    <3> DEFINE e == audit[c][k]
    <3>1. True(c, e)
      BY <2>1
    <3>2. audit'[c][k] = e
      BY <1>5
    <3> HIDE DEF e
    <3>3. True(c, e) => (IF e.event = "intent_allowed"
                           THEN /\ c \in performed' /\ HashIsOwned(c)' /\ IsConsumed(c)' /\ Charged(c)'
                           ELSE e.reason \in BlockReasons => c \notin performed')
      BY <1>3, <2>2, ClaimsKeep
    <3> QED BY <3>1, <3>2, <3>3
  <2> QED BY <2>3
<1>6. CASE RecordAudit(c)
  <2>1. /\ pc[c] \in {"auditAllowed", "auditBlocked"} /\ audit[c] = <<>>
        /\ audit' = [audit EXCEPT ![c] = Append(@, Event(c))]
        /\ performed' = performed
    BY <1>1, <1>6 DEF RecordAudit, node
  <2>2. audit'[c] = <<Event(c)>>
    BY <1>1, <2>1
  <2>3. k = 1 /\ audit'[c][k] = Event(c)
    BY <1>2, <2>2
  <2>4. CASE pc[c] = "auditAllowed"
    <3>1. c \in performed /\ HashIsOwned(c) /\ IsConsumed(c) /\ Charged(c)
      BY <2>4 DEF PipelineInv, CallsAreSound, EventsAreDue
    <3>2. c \in performed' /\ HashIsOwned(c)' /\ IsConsumed(c)' /\ Charged(c)'
      BY <1>3, <3>1, ClaimsKeep
    <3>3. Event(c).event = "intent_allowed"
      BY <2>4 DEF Event, PipelineInv, EventsAreDue
    <3> QED BY <2>3, <3>2, <3>3
  <2>5. CASE pc[c] = "auditBlocked"
    <3>1. Event(c).event # "intent_allowed" /\ Event(c).reason = call[c].reason
      BY <2>5 DEF Event
    <3>2. call[c].reason \in BlockReasons => c \notin performed'
      BY <2>1, <2>5 DEF PipelineInv, EventsAreDue
    <3> QED BY <2>3, <3>1, <3>2
  <2> QED BY <2>1, <2>4, <2>5
<1>7. ASSUME Gateway(c) \/ Upstream(c) \/ Fault(c) \/ RejectMalformed(c), ~RecordAudit(c)
      PROVE  audit'[c] = audit[c]
  BY <1>7
  DEF Gateway, RejectMalformed, FindSession, LoadSession, Decide, AmountDoesNotEncode, AddSpend,
      RecordOwner, MarkSessionUsed, Upstream, NodeExecutes, UpstreamRefuses, AnswerArrives,
      Fault, AnswerLost, StorageFails, AuditFails
<1>8. ASSUME NEW d \in Calls, d # c, RejectMalformed(d) \/ Gateway(d) \/ Upstream(d) \/ Fault(d)
      PROVE  audit'[c] = audit[c]
  BY <1>8, StepOfOneCall
<1>9. ASSUME NEW d \in Calls, NEW intent \in Intents, Arrive(d, intent)
      PROVE  audit' = audit
  BY <1>9 DEF Arrive
<1> QED BY <1>5, <1>6, <1>7, <1>8, <1>9, StepKinds DEF CrashAndRestart

\* The empty stores, and no call in flight, satisfy the invariant.
LEMMA InitPipelineInv ==
    ASSUME Init
    PROVE  PipelineInv
<1> USE PipelineAssumption DEF Init
<1>1. NoCall \in Call
  BY DEF NoCall, Call, Hash
<1>2. AbsentSession \in Session
  BY DEF AbsentSession, Session
<1>3. TypeOK
  BY <1>1, <1>2, FS_EmptySet DEF TypeOK, Steps
<1>4. CallsAreSound /\ SessionsAreKept /\ LateCallsStayOut /\ DecisionsAreCurrent
  BY DEF CallsAreSound, SessionsAreKept, LateCallsStayOut, DecisionsAreCurrent, NoCall, AbsentSession
<1>5. ReadsOnlyOwnPayments /\ OwnershipIsEarned /\ EventsAreDue /\ AuditTellsTheTruth
  BY DEF ReadsOnlyOwnPayments, OwnershipIsEarned, EventsAreDue, AuditTellsTheTruth
<1> QED BY <1>3, <1>4, <1>5 DEF PipelineInv

\* Every step keeps every part of the invariant.
LEMMA PipelineInvPreserved == PipelineInv /\ [Next]_vars => PipelineInv'
BY TypeOKPreserved, CallsAreSoundPreserved, SessionsAreKeptPreserved, LateCallsStayOutPreserved,
   DecisionsAreCurrentPreserved, ReadsOnlyOwnPaymentsPreserved, OwnershipIsEarnedPreserved,
   EventsAreDuePreserved, AuditTellsTheTruthPreserved
DEF PipelineInv

-----------------------------------------------------------------------------
(* The theorems *)

\* The invariant of the pipeline: every variable in its type, every call where
\* its locals say it is, and no claim ahead of what was done.
THEOREM PipelineInvariant == Spec => []PipelineInv
BY InitPipelineInv, PipelineInvPreserved, PTL DEF Spec

\* No session ever reads the state of a payment that is not its own, however
\* many calls race and wherever the process stops.
THEOREM NoForeignPaymentIsRead == Spec => []ReadsOnlyOwnPayments
<1>1. PipelineInv => ReadsOnlyOwnPayments
  BY DEF PipelineInv
<1> QED BY <1>1, PipelineInvariant, PTL

\* Every owner in the index stands behind a payment or an invoice of its own
\* that the node has executed.
THEOREM EveryOwnerHasEarnedIt == Spec => []OwnershipIsEarned
<1>1. PipelineInv => OwnershipIsEarned
  BY DEF PipelineInv
<1> QED BY <1>1, PipelineInvariant, PTL

\* An event in the audit log is true of its call.
THEOREM AuditIsTrue == Spec => []AuditTellsTheTruth
<1>1. PipelineInv => AuditTellsTheTruth
  BY DEF PipelineInv
<1> QED BY <1>1, PipelineInvariant, PTL

\* No call that begins after its session was revoked reaches the node.
THEOREM RevocationHolds == Spec => []RevokedSessionsStayOut
<1>1. PipelineInv => RevokedSessionsStayOut
  BY DEF PipelineInv, TypeOK, LateCallsStayOut, RevokedSessionsStayOut
<1> QED BY <1>1, PipelineInvariant, PTL

\* Whatever a session was once granted, the node executes only what the policy
\* of the running process allows.
THEOREM PolicyIsObeyed == Spec => CurrentPolicyIsObeyed
<1> DEFINE Obeyed ==
      \A c \in performed' \ performed :
         /\ Intent(c).app \in DOMAIN policy
         /\ Intent(c).action \in policy[Intent(c).app].allow
         /\ Intent(c).action \notin policy[Intent(c).app].deny
<1>1. PipelineInv /\ [Next]_vars => Obeyed
  BY OnlyForwardedCallsExecute DEF PipelineInv, DecisionsAreCurrent
<1>2. PipelineInv /\ [Next]_vars => [Obeyed]_vars
  BY <1>1
<1> QED BY <1>2, PipelineInvariant, PTL DEF Spec, CurrentPolicyIsObeyed

\* The index never gives a hash away a second time: the first writer wins, for
\* good, in every step, crashes included.
THEOREM FirstWriterWins == Spec => OwnersNeverChange
<1>1. PipelineInv /\ [Next]_vars =>
        [\A h \in Hashes : owner[h] # NoSession => owner'[h] = owner[h]]_vars
  BY NothingIsTakenBack
<1> QED BY <1>1, PipelineInvariant, PTL DEF Spec, OwnersNeverChange
=============================================================================
