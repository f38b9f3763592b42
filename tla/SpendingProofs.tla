--------------------------- MODULE SpendingProofs ---------------------------
(***************************************************************************)
(* Theorems about what the decision pipeline lets a session spend: the     *)
(* ledger against the node, and what the checks of runIntent guarantee     *)
(* when intents do not overlap.                                            *)
(***************************************************************************)
EXTENDS IntentPipelineProofs

-----------------------------------------------------------------------------
(* The ledger and the node *)

\* The call's amount counts towards the bucket.
ChargesTo(c, bucket) ==
    Intent(c).action \in SpendingActions /\ BucketOf(Intent(c), call[c].at) = bucket

\* The calls the node has executed and the gateway still has to charge.
LEMMA UnaccountedCalls ==
    ASSUME PipelineInv, NEW b \in Buckets
    PROVE  /\ Unaccounted(b) \subseteq Calls /\ IsFiniteSet(Unaccounted(b))
           /\ \A c \in Unaccounted(b) : AmountOf[c] \in Nat /\ AmountOf[c] = Intent(c).amount
<1>1. Unaccounted(b) \subseteq performed /\ performed \subseteq Calls /\ IsFiniteSet(performed)
  BY DEF PipelineInv, TypeOK, Unaccounted
<1>2. IsFiniteSet(Unaccounted(b))
  BY <1>1, FS_Subset
<1>3. \A c \in Unaccounted(b) : Intent(c) \in Intents /\ Intent(c).action \in SpendingActions
  BY <1>1 DEF Unaccounted, PipelineInv, CallsAreSound
<1> QED BY <1>1, <1>2, <1>3, PipelineAssumption DEF AmountOf

\* An executed call stays unaccounted as long as it waits to be charged, for
\* the same amount.
LEMMA ExecutedCallsWait ==
    ASSUME PipelineInv, [Next]_vars, NEW c \in performed, NEW b
    PROVE  /\ c \in Unaccounted(b)' <=> pc'[c] \in {"executed", "addSpend"} /\ ChargesTo(c, b)
           /\ c \in Unaccounted(b)  <=> pc[c] \in {"executed", "addSpend"} /\ ChargesTo(c, b)
           /\ AmountOf'[c] = AmountOf[c]
<1>1. /\ c \in Calls /\ Intent(c)' = Intent(c) /\ call'[c].at = call[c].at
      /\ c \in performed'
  BY ExecutedCallsKeep, NothingIsTakenBack
<1>2. BucketOf(Intent(c), call[c].at)' = BucketOf(Intent(c), call[c].at)
  BY <1>1 DEF BucketOf, Day
<1> QED BY <1>1, <1>2 DEF Unaccounted, ChargesTo, AmountOf

\* Faults are not undone.
LEMMA FaultsOnlyGrow ==
    ASSUME PipelineInv, [Next]_vars
    PROVE  faults \in Nat /\ faults' \in Nat /\ faults <= faults'
<1>1. faults \in Nat /\ faults' \in Nat
  BY TypeOKPreserved, PipelineAssumption DEF PipelineInv, TypeOK
<1>2. ASSUME NEW s \in SessionIds, OpenSession(s) \/ RevokeSession(s)
      PROVE  faults' = faults
  BY <1>2 DEF OpenSession, RevokeSession
<1>3. ASSUME NEW c \in Calls, RejectMalformed(c) \/ Gateway(c) \/ Upstream(c)
      PROVE  faults' = faults
  BY <1>3
  DEF RejectMalformed, Gateway, FindSession, LoadSession, Decide, AmountDoesNotEncode, AddSpend,
      RecordOwner, MarkSessionUsed, RecordAudit, Upstream, NodeExecutes, UpstreamRefuses, AnswerArrives
<1>4. ASSUME NEW c \in Calls, NEW intent \in Intents, Arrive(c, intent)
      PROVE  faults' = faults
  BY <1>4 DEF Arrive
<1>5. ASSUME NEW c \in Calls, Fault(c)
      PROVE  faults' = faults + 1
  BY <1>5 DEF Fault, AnswerLost, StorageFails, AuditFails
<1>6. CrashAndRestart => faults' = faults + 1
  BY DEF CrashAndRestart
<1>7. Tick \/ UNCHANGED vars => faults' = faults
  BY DEF Tick, vars
<1> QED BY <1>1, <1>2, <1>3, <1>4, <1>5, <1>6, <1>7 DEF Next, NextCall

Balanced(b) ==
    Unaccounted(b)' = Unaccounted(b) /\ ledger'[b] = ledger[b] /\ settled'[b] = settled[b]

\* A call joins the unaccounted ones with its execution.
Executes(c, b) ==
    /\ c \notin Unaccounted(b) /\ Unaccounted(b)' = Unaccounted(b) \cup {c}
    /\ AmountOf'[c] = Intent(c).amount /\ Intent(c).amount \in Nat
    /\ ledger'[b] = ledger[b] /\ settled'[b] = settled[b] + Intent(c).amount

\* It leaves them when it is charged.
IsCharged(c, b) ==
    /\ c \in Unaccounted(b) /\ Unaccounted(b)' = Unaccounted(b) \ {c}
    /\ ledger'[b] = ledger[b] + Intent(c).amount /\ settled'[b] = settled[b]

\* Or some are given up: after a fault, or when the total does not parse.
GivesUp(b) ==
    /\ Unaccounted(b)' \subseteq Unaccounted(b)
    /\ ledger'[b] = ledger[b] /\ settled'[b] = settled[b]
    /\ faults' # 0 \/ ~Parses(ledger[b])

\* Every step does one of the four to a bucket.
LEMMA LedgerMoves ==
    ASSUME PipelineInv, [Next]_vars, NEW b \in Buckets
    PROVE  Balanced(b) \/ GivesUp(b) \/ \E c \in Calls : Executes(c, b) \/ IsCharged(c, b)
<1>1. /\ pc \in [Calls -> Steps] /\ call \in [Calls -> Call] /\ performed \subseteq Calls
      /\ ledger \in [Buckets -> Nat] /\ settled \in [Buckets -> Nat]
      /\ performed \subseteq performed'
      /\ Unaccounted(b) \subseteq performed /\ Unaccounted(b)' \subseteq performed'
      /\ faults \in Nat
  BY NothingIsTakenBack, PipelineAssumption DEF PipelineInv, TypeOK, Unaccounted
<1>2. ASSUME performed' = performed,
             \A c \in performed : pc'[c] \in {"executed", "addSpend"} /\ ChargesTo(c, b)
                                    <=> pc[c] \in {"executed", "addSpend"} /\ ChargesTo(c, b)
      PROVE  Unaccounted(b)' = Unaccounted(b)
  <2>1. \A c \in performed : c \in Unaccounted(b)' <=> c \in Unaccounted(b)
    BY <1>2, ExecutedCallsWait
  <2> QED BY <1>1, <1>2, <2>1
<1>3. ASSUME performed' = performed,
             \A c \in performed : pc'[c] \in {"executed", "addSpend"} => pc[c] \in {"executed", "addSpend"}
      PROVE  Unaccounted(b)' \subseteq Unaccounted(b)
  BY <1>1, <1>3, ExecutedCallsWait
<1>4. CASE UNCHANGED <<policy, ledger, owner, audit, pc, call, node>>
  BY <1>2, <1>4 DEF Balanced, node
<1>5. ASSUME NEW c \in Calls, NEW intent \in Intents, pc[c] = "idle", Arrive(c, intent)
      PROVE  Balanced(b)
  <2>1. UNCHANGED <<ledger, node>> /\ \A d \in Calls \ {c} : pc'[d] = pc[d]
    BY <1>1, <1>5 DEF Arrive, Goto, stores
  <2>2. c \notin performed
    BY <1>5 DEF PipelineInv, CallsAreSound
  <2> QED BY <1>1, <1>2, <2>1, <2>2 DEF Balanced, node
<1>6. ASSUME NEW c \in Calls,
             \/ RejectMalformed(c) /\ pc[c] = "idle"
             \/ FindSession(c) \/ LoadSession(c) \/ Decide(c) \/ AmountDoesNotEncode(c)
             \/ UpstreamRefuses(c) \/ RecordOwner(c) \/ MarkSessionUsed(c) \/ RecordAudit(c)
             \/ AuditFails(c) \/ AnswerArrives(c)
      PROVE  Balanced(b)
  <2>1. UNCHANGED <<ledger, node>>
    BY <1>6 DEF RejectMalformed, FindSession, LoadSession, Decide, AmountDoesNotEncode,
                UpstreamRefuses, RecordOwner, MarkSessionUsed, RecordAudit, AuditFails,
                AnswerArrives, stores
  <2>2. \A d \in Calls \ {c} : pc'[d] = pc[d]
    BY <1>6, StepOfOneCall DEF Gateway, Upstream, Fault
  <2>3. CASE AnswerArrives(c)
    <3>1. /\ pc[c] = "executed"
          /\ Intent(c).action \in SpendingActions => pc'[c] = "addSpend"
      BY <1>1, <2>3 DEF AnswerArrives, Goto
    <3> QED BY <1>1, <1>2, <2>1, <2>2, <3>1 DEF Balanced, ChargesTo, node
  <2>4. CASE ~AnswerArrives(c)
    <3>1. pc[c] \notin {"executed", "addSpend"}
      BY <1>6, <2>4
      DEF RejectMalformed, FindSession, LoadSession, Decide, AmountDoesNotEncode,
          UpstreamRefuses, RecordOwner, MarkSessionUsed, RecordAudit, AuditFails
    <3>2. pc'[c] \notin {"executed", "addSpend"}
      BY <1>1, <1>6, <2>4, DecisionTypes
      DEF RejectMalformed, FindSession, LoadSession, Decide, AmountDoesNotEncode,
          UpstreamRefuses, RecordOwner, MarkSessionUsed, RecordAudit, AuditFails,
          Goto, BlockWith, AfterOwner
    <3> QED BY <1>1, <1>2, <2>1, <2>2, <3>1, <3>2 DEF Balanced, node
  <2> QED BY <2>3, <2>4
<1>7. ASSUME NEW c \in Calls, NodeExecutes(c)
      PROVE  Balanced(b) \/ Executes(c, b)
  <2>1. /\ \A d \in Calls \ {c} : pc'[d] = pc[d]
        /\ Intent(c)' = Intent(c) /\ call'[c].at = call[c].at
    BY <1>7, StepOfOneCall DEF Upstream, Intent, NodeExecutes, Reaches
  <2>2. /\ pc[c] = "forwarding" /\ pc'[c] = "executed" /\ c \notin performed
        /\ performed' = performed \cup {c} /\ ledger' = ledger
        /\ Intent(c) \in Intents /\ call[c].at \in 0..MaxTime
    BY <1>1, <1>7 DEF NodeExecutes, Reaches, Goto, stores, PipelineInv, CallsAreSound, Call
  <2>3. BucketOf(Intent(c), call[c].at)' = BucketOf(Intent(c), call[c].at)
    BY <2>1 DEF BucketOf, Day
  <2>4. c \in Unaccounted(b)' <=> ChargesTo(c, b)
    BY <2>1, <2>2, <2>3 DEF Unaccounted, ChargesTo
  <2>5. \A d \in performed : d \in Unaccounted(b)' <=> d \in Unaccounted(b)
    BY <1>1, <2>1, <2>2, ExecutedCallsWait
  <2>6. CASE ChargesTo(c, b)
    <3>1. settled' = [settled EXCEPT ![b] = @ + Intent(c).amount]
      BY <1>7, <2>6 DEF NodeExecutes, ChargesTo
    <3>2. Intent(c).amount \in Nat /\ AmountOf'[c] = Intent(c).amount
      BY <2>1, <2>2, <2>6, PipelineAssumption DEF ChargesTo, AmountOf
    <3> QED BY <1>1, <2>2, <2>4, <2>5, <2>6, <3>1, <3>2 DEF Executes
  <2>7. CASE ~ChargesTo(c, b)
    <3>1. settled'[b] = settled[b]
      BY <1>1, <1>7, <2>7 DEF NodeExecutes, ChargesTo
    <3> QED BY <1>1, <2>2, <2>4, <2>5, <2>7, <3>1 DEF Balanced
  <2> QED BY <2>6, <2>7
<1>8. ASSUME NEW c \in Calls, AddSpend(c)
      PROVE  Balanced(b) \/ GivesUp(b) \/ IsCharged(c, b)
  <2>1. \A d \in Calls \ {c} : pc'[d] = pc[d]
    BY <1>8, StepOfOneCall DEF Gateway
  <2>2. /\ pc[c] = "addSpend" /\ pc'[c] \notin {"executed", "addSpend"} /\ c \in performed
        /\ Intent(c).action \in SpendingActions /\ UNCHANGED node
    BY <1>1, <1>8 DEF AddSpend, Goto, AfterOwner, PipelineInv, CallsAreSound
  <2>3. \A d \in performed \ {c} : d \in Unaccounted(b)' <=> d \in Unaccounted(b)
    BY <1>1, <2>1, ExecutedCallsWait
  <2>4. c \notin Unaccounted(b)' /\ (c \in Unaccounted(b) <=> ChargesTo(c, b))
    BY <2>2, ExecutedCallsWait
  <2>5. Unaccounted(b)' = Unaccounted(b) \ {c}
    BY <1>1, <2>2, <2>3, <2>4 DEF node
  <2> DEFINE d == BucketOf(Intent(c), call[c].at)
  <2>6. CASE Parses(ledger[d])
    <3>1. ledger' = [ledger EXCEPT ![d] = @ + Intent(c).amount]
      BY <1>8, <2>6 DEF AddSpend, addAmounts
    <3>2. CASE d = b
      <4>1. ledger'[b] = ledger[b] + Intent(c).amount
        BY <1>1, <3>1, <3>2
      <4> QED BY <2>2, <2>4, <2>5, <3>2, <4>1 DEF IsCharged, ChargesTo, node
    <3>3. CASE d # b
      <4>1. ledger'[b] = ledger[b]
        <5> HIDE DEF d
        <5> QED BY <1>1, <3>1, <3>3
      <4> QED BY <2>2, <2>4, <2>5, <3>3, <4>1 DEF Balanced, ChargesTo, node
    <3> QED BY <3>2, <3>3
  <2>7. CASE ~Parses(ledger[d])
    <3>1. ledger' = ledger
      BY <1>8, <2>7 DEF AddSpend
    <3>2. CASE d = b
      BY <2>2, <2>5, <2>7, <3>1, <3>2 DEF GivesUp, node
    <3>3. CASE d # b
      BY <2>2, <2>4, <2>5, <3>1, <3>3 DEF Balanced, ChargesTo, node
    <3> QED BY <3>2, <3>3
  <2> QED BY <2>6, <2>7
<1>9. ASSUME NEW c \in Calls, AnswerLost(c) \/ StorageFails(c)
      PROVE  GivesUp(b)
  <2>1. \A d \in Calls \ {c} : pc'[d] = pc[d]
    BY <1>9, StepOfOneCall DEF Fault
  <2>2. UNCHANGED <<ledger, node>> /\ faults' = faults + 1 /\ pc'[c] \notin {"executed", "addSpend"}
    BY <1>1, <1>9 DEF AnswerLost, StorageFails, BlockWith, Goto, stores
  <2> QED BY <1>1, <1>3, <2>1, <2>2 DEF GivesUp, node
<1>10. CASE CrashAndRestart
  <2>1. UNCHANGED <<ledger, node>> /\ faults' = faults + 1
    BY <1>10 DEF CrashAndRestart, stores
  <2>2. \A c \in Calls : pc'[c] \in {"executed", "addSpend"} => pc[c] \in {"executed", "addSpend"}
    BY <1>10 DEF CrashAndRestart, InFlight
  <2> QED BY <1>1, <1>3, <2>1, <2>2 DEF GivesUp, node
<1> QED
  BY <1>4, <1>5, <1>6, <1>7, <1>8, <1>9, <1>10, StepKinds DEF Gateway, Upstream, Fault

\* None of the four lets the ledger and the calls in flight exceed the node.
LEMMA LedgerLagsPreserved ==
    ASSUME PipelineInv, LedgerLagsByCallsInFlight, [Next]_vars
    PROVE  LedgerLagsByCallsInFlight'
<1>1. SUFFICES ASSUME NEW b \in Buckets
               PROVE  /\ Claimed(b)' <= settled'[b]
                      /\ faults' = 0 /\ Parses(ledger'[b]) => Claimed(b)' = settled'[b]
  BY DEF LedgerLagsByCallsInFlight
<1> DEFINE U == Unaccounted(b)
           V == Unaccounted(b)'
           sum == SumFunctionOnSet(AmountOf, U)
           next == SumFunctionOnSet(AmountOf', V)
<1>2. /\ ledger[b] \in Nat /\ settled[b] \in Nat /\ ledger'[b] \in Nat /\ settled'[b] \in Nat
      /\ PipelineInv'
  BY TypeOKPreserved, PipelineInvPreserved DEF PipelineInv, TypeOK
<1>3. /\ U \subseteq performed /\ IsFiniteSet(U) /\ IsFiniteSet(V)
      /\ \A c \in U : AmountOf[c] \in Nat /\ AmountOf[c] = Intent(c).amount
      /\ \A c \in U : AmountOf'[c] = AmountOf[c]
  <2>1. U \subseteq performed
    BY DEF Unaccounted
  <2>2. IsFiniteSet(U) /\ \A c \in U : AmountOf[c] \in Nat /\ AmountOf[c] = Intent(c).amount
    BY UnaccountedCalls
  <2>3. IsFiniteSet(V)
    <3>1. IsFiniteSet(performed') /\ V \subseteq performed'
      BY <1>2 DEF PipelineInv, TypeOK, Unaccounted
    <3> QED BY <3>1, FS_Subset
  <2>4. \A c \in U : AmountOf'[c] = AmountOf[c]
    BY <2>1, ExecutedCallsWait
  <2> QED BY <1>2, <2>1, <2>2, <2>3, <2>4
<1>4. sum \in Nat /\ Claimed(b) = ledger[b] + sum /\ Claimed(b)' = ledger'[b] + next
  BY <1>3, SumType DEF Claimed
<1>5. /\ ledger[b] + sum <= settled[b]
      /\ faults = 0 /\ Parses(ledger[b]) => ledger[b] + sum = settled[b]
  BY <1>4 DEF LedgerLagsByCallsInFlight
<1>6. faults' = 0 => faults = 0
  BY FaultsOnlyGrow
<1>7. SumFunctionOnSet(AmountOf', U) = sum
  BY <1>3, SumOfEqual
<1>8. CASE Balanced(b)
  <2>1. next = sum
    BY <1>7, <1>8 DEF Balanced
  <2> HIDE DEF sum, next
  <2> QED BY <1>4, <1>5, <1>6, <1>8, <2>1 DEF Balanced
<1>9. CASE GivesUp(b)
  <2>1. next <= sum /\ next \in Nat
    <3>1. V \subseteq U
      BY <1>9 DEF GivesUp
    <3>2. SumFunctionOnSet(AmountOf', V) <= SumFunctionOnSet(AmountOf', U)
      BY <1>3, <3>1, SumOfSubset
    <3>3. next \in Nat
      BY <1>3, <3>1, SumType
    <3> QED BY <1>7, <3>2, <3>3
  <2> HIDE DEF sum, next
  <2> QED BY <1>2, <1>4, <1>5, <1>9, <2>1 DEF GivesUp
<1>10. ASSUME NEW c \in Calls, Executes(c, b)
       PROVE  /\ Claimed(b)' <= settled'[b]
              /\ faults' = 0 /\ Parses(ledger'[b]) => Claimed(b)' = settled'[b]
  <2>1. next = Intent(c).amount + sum
    <3>1. V = U \cup {c} /\ c \notin U /\ AmountOf'[c] = Intent(c).amount /\ Intent(c).amount \in Nat
      BY <1>10 DEF Executes
    <3>2. SumFunctionOnSet(AmountOf', U \cup {c}) = AmountOf'[c] + SumFunctionOnSet(AmountOf', U)
      BY <1>3, <3>1, SumWith
    <3> QED BY <1>7, <3>1, <3>2
  <2> HIDE DEF sum, next
  <2> QED BY <1>2, <1>4, <1>5, <1>6, <1>10, <2>1 DEF Executes
<1>11. ASSUME NEW c \in Calls, IsCharged(c, b)
       PROVE  /\ Claimed(b)' <= settled'[b]
              /\ faults' = 0 /\ Parses(ledger'[b]) => Claimed(b)' = settled'[b]
  <2>1. sum = Intent(c).amount + next /\ next \in Nat /\ Intent(c).amount \in Nat
    <3>1. V = U \ {c} /\ c \in U
      BY <1>11 DEF IsCharged
    <3>2. SumFunctionOnSet(AmountOf', U) = AmountOf'[c] + SumFunctionOnSet(AmountOf', U \ {c})
      BY <1>3, <3>1, SumWithout
    <3>3. next \in Nat
      BY <1>3, <3>1, SumType
    <3> QED BY <1>3, <1>7, <3>1, <3>2, <3>3
  <2>2. Parses(ledger'[b]) => Parses(ledger[b])
    BY <1>2, <1>11, <2>1, AmountAssumption DEF IsCharged, Parses
  <2> HIDE DEF sum, next
  <2> QED BY <1>2, <1>4, <1>5, <1>6, <1>11, <2>1, <2>2 DEF IsCharged
<1> QED BY <1>8, <1>9, <1>10, <1>11, LedgerMoves

-----------------------------------------------------------------------------
(* What a decision says of the amount *)

\* The permission decides in the end: an allowed intent, and one whose totals
\* cannot be compared, has passed every other check.
LEMMA PermissionDecides ==
    ASSUME NEW rules, NEW intent, NEW session, NEW time, NEW spent, NEW owned,
           evaluateIntent(rules, intent, session, time, spent, owned) \in {Allowed, Thrown}
    PROVE  /\ session # Undefined /\ MatchingPermissions(session, intent) # {}
           /\ evaluateIntent(rules, intent, session, time, spent, owned) =
                evaluatePermission(CHOOSE p \in MatchingPermissions(session, intent) : TRUE,
                                   intent, spent, owned)
<1> DEFINE state == checkSession(session, intent, time)
           action == checkAction(rules[intent.app], session, intent)
<1>1. \A r : Blocked(r) \notin {Allowed, Thrown}
  BY DEF Blocked, Allowed, Thrown
<1>2. action = Passes => MatchingPermissions(session, intent) # {}
  BY DEF checkAction, Passes
<1>3. state = Passes => session # Undefined
  BY SessionOutcomes
<1> HIDE DEF state, action
<1> QED BY <1>1, <1>2, <1>3 DEF evaluateIntent, state, action

\* Under a daily limit an amount is allowed only when the total with it parses
\* and is within the limit; only a total that does not parse is thrown out.
LEMMA PermissionLimits ==
    ASSUME NEW permission, permission.dailyLimit \in Nat \cup {Undefined},
           NEW intent, intent.amount \in Nat, NEW spent \in Nat, NEW owned
    PROVE  LET d == evaluatePermission(permission, intent, spent, owned)
               total == spent + intent.amount
           IN  /\ d = Thrown => ~Parses(total)
               /\ d = Allowed /\ permission.dailyLimit # Undefined =>
                    Parses(total) /\ total <= permission.dailyLimit
<1> DEFINE d == evaluatePermission(permission, intent, spent, owned)
           limited == permission.dailyLimit # Undefined
           total == spent + intent.amount
<1>1. spent # Undefined /\ intent.amount # Undefined /\ total \in Nat
  BY AmountAssumption
<1>2. ~Parses(spent) => ~Parses(total)
  BY <1>1, AmountAssumption DEF Parses
<1>3. Blocked("INVALID_REQUEST") \notin {Allowed, Thrown} /\ Thrown # Allowed
      /\ \A r : Blocked(r) \notin {Allowed, Thrown}
  BY DEF Blocked, Allowed, Thrown
<1>4. d = Thrown => ~(Parses(spent) /\ Parses(total))
  BY <1>1, <1>3 DEF evaluatePermission, addAmounts
<1>5. d = Allowed /\ limited => Parses(total) /\ ~(total > permission.dailyLimit)
  BY <1>1, <1>3 DEF evaluatePermission, addAmounts
<1> QED BY <1>1, <1>2, <1>4, <1>5

\* The limit the decision on a call looks at is the one granted to its session,
\* and the total is that of the call's bucket.
LEMMA DecisionsKeepLimits ==
    ASSUME PipelineInv, NEW c \in Calls, pc[c] = "loaded"
    PROVE  LET total == ledger[BucketOf(Intent(c), call[c].at)] + Intent(c).amount IN
             /\ Decision(c) = Thrown => TotalTooLong(c)
             /\ Decision(c) = Allowed /\ Intent(c).action \in SpendingActions
                  /\ GrantedLimit(c) # Undefined
                  => Parses(total) /\ total <= GrantedLimit(c)
<1> DEFINE b == BucketOf(Intent(c), call[c].at)
           grants == MatchingPermissions(Terms[Intent(c).session], Intent(c))
           grant == CHOOSE p \in grants : TRUE
           d == evaluatePermission(grant, Intent(c), SpentToday(c), OwnedBySession(c))
<1>1. Intent(c) \in Intents /\ Intent(c).session \in SessionIds /\ call[c].at \in 0..MaxTime
  BY PipelineAssumption DEF PipelineInv, TypeOK, CallsAreSound, Call
<1>2. SUFFICES ASSUME Decision(c) \in {Allowed, Thrown}
               PROVE  /\ Decision(c) = Thrown => TotalTooLong(c)
                      /\ Decision(c) = Allowed /\ Intent(c).action \in SpendingActions
                           /\ GrantedLimit(c) # Undefined
                           => /\ Parses(ledger[b] + Intent(c).amount)
                              /\ ledger[b] + Intent(c).amount <= GrantedLimit(c)
  OBVIOUS
<1>3. call[c].session # Undefined /\ MatchingPermissions(Snapshot(c), Intent(c)) = grants
  <2>1. call[c].session # Undefined
    <3>1. Snapshot(c) # Undefined
      BY <1>2, PermissionDecides DEF Decision
    <3> QED BY <3>1 DEF Snapshot
  <2> QED BY <2>1 DEF Snapshot, toSnapshot, MatchingPermissions, PermissionsFor
<1>4. grant \in grants /\ Decision(c) = d
  BY <1>2, <1>3, PermissionDecides DEF Decision
<1>5. grant.dailyLimit \in Nat \cup {Undefined} /\ GrantedLimit(c) = grant.dailyLimit
  BY <1>1, <1>4, PipelineAssumption DEF MatchingPermissions, PermissionsFor, GrantedLimit
<1>6. CASE Intent(c).action \in SpendingActions
  <2>1. b \in Buckets /\ Intent(c).asset # Undefined /\ Intent(c).amount \in Nat
    BY <1>1, <1>6, SpendingBuckets, PipelineAssumption
  <2>2. ledger[b] \in Nat
    BY <2>1 DEF PipelineInv, TypeOK
  <2>3. SpentToday(c) = ledger[b]
    BY <2>1, AmountAssumption DEF SpentToday
  <2> HIDE DEF b, grant
  <2>4. /\ d = Thrown => ~Parses(ledger[b] + Intent(c).amount)
        /\ d = Allowed /\ grant.dailyLimit # Undefined =>
             /\ Parses(ledger[b] + Intent(c).amount)
             /\ ledger[b] + Intent(c).amount <= grant.dailyLimit
    BY <1>5, <2>1, <2>2, <2>3, PermissionLimits
  <2> QED BY <1>4, <1>5, <1>6, <2>4 DEF TotalTooLong, b
<1>7. CASE Intent(c).action \notin SpendingActions
  <2>1. Intent(c).amount = Undefined
    BY <1>1, <1>7, PipelineAssumption
  <2>2. d # Thrown
    BY <2>1 DEF evaluatePermission, Allowed, Blocked, Thrown
  <2> QED BY <1>4, <1>7, <2>2
<1> QED BY <1>6, <1>7

-----------------------------------------------------------------------------
(* One event per call *)

\* A total that is too long stays too long.
LEMMA LongTotalsStay ==
    ASSUME PipelineInv, [Next]_vars, NEW c \in Calls, Intent(c) \in Intents, TotalTooLong(c),
           Intent(c)' = Intent(c), call'[c].at = call[c].at
    PROVE  TotalTooLong(c)'
<1> DEFINE b == BucketOf(Intent(c), call[c].at)
<1>1. b \in Buckets /\ Intent(c).amount \in Nat /\ Intent(c).action \in SpendingActions
  BY SpendingBuckets, PipelineAssumption DEF PipelineInv, TypeOK, Call, TotalTooLong
<1>2. ledger[b] \in Nat /\ ledger'[b] \in Nat /\ ledger[b] <= ledger'[b]
  BY <1>1, NothingIsTakenBack
<1>3. ~Parses(ledger[b] + Intent(c).amount)
  BY DEF TotalTooLong
<1>4. ~Parses(ledger'[b] + Intent(c).amount)
  <2> HIDE DEF b
  <2> QED BY <1>1, <1>2, <1>3, AmountAssumption DEF Parses
<1>5. b' = b
  BY DEF BucketOf, Day
<1> QED BY <1>1, <1>4, <1>5 DEF TotalTooLong

\* Without faults a call ends with its event, or because of its total.
LEMMA ExactlyOneAuditEventPreserved ==
    ASSUME PipelineInv, ExactlyOneAuditEvent, [Next]_vars
    PROVE  ExactlyOneAuditEvent'
<1>1. /\ pc \in [Calls -> Steps] /\ call \in [Calls -> Call] /\ audit \in [Calls -> Seq(AuditEvent)]
      /\ faults \in Nat /\ faults' \in Nat /\ faults <= faults'
  BY FaultsOnlyGrow DEF PipelineInv, TypeOK
<1> DEFINE Ends(c) == /\ pc[c] = "answered" => Len(audit[c]) = 1
                      /\ pc[c] = "failed"   => TotalTooLong(c)
<1>2. SUFFICES ASSUME faults' = 0, NEW c \in Calls
               PROVE  Ends(c)'
  BY DEF ExactlyOneAuditEvent
<1>3. faults = 0 /\ Ends(c)
  BY <1>1, <1>2 DEF ExactlyOneAuditEvent
<1>4. CASE pc'[c] = pc[c] /\ call'[c].intent = call[c].intent /\ call'[c].at = call[c].at
           /\ audit'[c] = audit[c]
  <2>1. Intent(c)' = Intent(c)
    BY <1>4 DEF Intent
  <2>2. pc[c] = "failed" => Intent(c) \in Intents
    BY DEF PipelineInv, CallsAreSound
  <2> QED BY <1>3, <1>4, <2>1, <2>2, LongTotalsStay
<1>5. CASE UNCHANGED <<policy, ledger, owner, audit, pc, call, node>>
  BY <1>4, <1>5
<1>6. ASSUME NEW d \in Calls, NEW intent \in Intents, pc[d] = "idle", Arrive(d, intent)
      PROVE  Ends(c)'
  <2>1. CASE d = c
    BY <1>1, <1>6, <2>1 DEF Arrive, Goto
  <2>2. CASE d # c
    BY <1>1, <1>4, <1>6, <2>2 DEF Arrive, Goto
  <2> QED BY <2>1, <2>2
<1>7. ASSUME NEW d \in Calls, d # c, RejectMalformed(d) \/ Gateway(d) \/ Upstream(d) \/ Fault(d)
      PROVE  Ends(c)'
  BY <1>4, <1>7, StepOfOneCall
<1>8. ~CrashAndRestart /\ ~Fault(c)
  BY <1>1, <1>2 DEF CrashAndRestart, Fault, AnswerLost, StorageFails, AuditFails
<1>9. CASE Decide(c)
  <2>1. pc[c] = "loaded" /\ pc'[c] # "answered" /\ (pc'[c] = "failed" => Decision(c) = Thrown)
    <3>1. Decision(c) \in {Allowed, Thrown} \cup {Blocked(r) : r \in BlockReasons}
      BY AllowedIntentPasses DEF Decision
    <3> QED BY <1>1, <1>9, <3>1 DEF Decide, Goto, Allowed, Thrown, Blocked
  <2>2. Decision(c) = Thrown => TotalTooLong(c) /\ Intent(c) \in Intents
    BY <2>1, DecisionsKeepLimits DEF PipelineInv, CallsAreSound
  <2>3. Intent(c)' = Intent(c) /\ call'[c].at = call[c].at
    BY <1>9, <2>1, StepOfOneCall DEF Gateway, Intent
  <2> QED BY <2>1, <2>2, <2>3, LongTotalsStay
<1>10. CASE AddSpend(c)
  <2>1. /\ pc[c] = "addSpend" /\ pc'[c] # "answered"
        /\ pc'[c] = "failed" => ~Parses(ledger[BucketOf(Intent(c), call[c].at)])
    BY <1>1, <1>10 DEF AddSpend, Goto, AfterOwner
  <2>2. Intent(c) \in Intents /\ Intent(c).action \in SpendingActions
    BY <2>1 DEF PipelineInv, CallsAreSound
  <2>3. Intent(c).amount \in Nat /\ ledger[BucketOf(Intent(c), call[c].at)] \in Nat
    BY <1>1, <2>2, SpendingBuckets, PipelineAssumption DEF PipelineInv, TypeOK, Call
  <2>4. pc'[c] = "failed" => TotalTooLong(c)
    BY <2>1, <2>2, <2>3, AmountAssumption DEF TotalTooLong, Parses
  <2>5. Intent(c)' = Intent(c) /\ call'[c].at = call[c].at
    BY <1>10, <2>1, StepOfOneCall DEF Gateway, Intent
  <2> QED BY <2>1, <2>2, <2>4, <2>5, LongTotalsStay
<1>11. CASE RecordAudit(c)
  <2>1. /\ pc[c] \in {"auditAllowed", "auditBlocked"} /\ pc'[c] = "answered"
        /\ audit'[c] = Append(audit[c], Event(c))
    BY <1>1, <1>11 DEF RecordAudit, Goto
  <2>2. audit[c] = <<>>
    BY <2>1 DEF PipelineInv, EventsAreDue
  <2> QED BY <2>1, <2>2
<1>12. ASSUME RejectMalformed(c) \/ FindSession(c) \/ LoadSession(c) \/ AmountDoesNotEncode(c)
                \/ RecordOwner(c) \/ MarkSessionUsed(c) \/ Upstream(c)
       PROVE  pc'[c] \notin {"answered", "failed"}
  BY <1>1, <1>12
  DEF RejectMalformed, FindSession, LoadSession, AmountDoesNotEncode, RecordOwner,
      MarkSessionUsed, Upstream, NodeExecutes, UpstreamRefuses, AnswerArrives, BlockWith, Goto,
      AfterOwner
<1> QED
  BY <1>5, <1>6, <1>7, <1>8, <1>9, <1>10, <1>11, <1>12, StepKinds DEF Gateway

-----------------------------------------------------------------------------
(* Calls one at a time *)

\* A step of a call's own is one of a call in flight.
LEMMA OnlyCallsInFlightStep ==
    ASSUME NEW c \in Calls, Gateway(c) \/ Upstream(c) \/ Fault(c)
    PROVE  c \in InFlight
BY DEF Gateway, FindSession, LoadSession, Decide, AmountDoesNotEncode, AddSpend, RecordOwner,
       MarkSessionUsed, RecordAudit, Upstream, NodeExecutes, Reaches, UpstreamRefuses, AnswerArrives,
       Fault, AnswerLost, StorageFails, AuditFails, InFlight

\* The bound on the calls in flight lets a call begin only when there is none.
LEMMA NextCallIsAlone ==
    ASSUME MaxInFlight = 1, OneAtATime, NEW c \in NextCall
    PROVE  c \in Calls /\ pc[c] = "idle" /\ InFlight = {}
<1>1. /\ c \in Calls /\ pc[c] = "idle" /\ Cardinality(InFlight) < 1
  BY DEF NextCall
<1>2. ASSUME NEW d \in InFlight PROVE FALSE
  <2>1. InFlight = {d}
    BY DEF OneAtATime
  <2>2. Cardinality(InFlight) = 1
    BY <2>1, FS_Singleton
  <2> QED BY <1>1, <2>2
<1> QED BY <1>1, <1>2

\* The steps, when calls do not overlap: a call that begins is alone, and one
\* that takes a step has nobody beside it.
LEMMA SequentialSteps ==
    ASSUME MaxInFlight = 1, PipelineInv, OneAtATime, [Next]_vars
    PROVE  \/ UNCHANGED <<policy, ledger, owner, audit, pc, call, node>>
           \/ \E c \in Calls : /\ InFlight = {} /\ pc[c] = "idle"
                               /\ RejectMalformed(c) \/ \E intent \in Intents : Arrive(c, intent)
           \/ \E c \in Calls : InFlight = {c} /\ (Gateway(c) \/ Upstream(c) \/ Fault(c))
           \/ CrashAndRestart
<1>1. CASE \E c \in NextCall : RejectMalformed(c) \/ \E intent \in Intents : Arrive(c, intent)
  BY <1>1, NextCallIsAlone
<1>2. ASSUME NEW c \in Calls, Gateway(c) \/ Upstream(c) \/ Fault(c)
      PROVE  InFlight = {c}
  BY <1>2, OnlyCallsInFlightStep DEF OneAtATime
<1>3. ASSUME NEW s \in SessionIds, OpenSession(s) \/ RevokeSession(s)
      PROVE  UNCHANGED <<policy, ledger, owner, audit, pc, call, node>>
  BY <1>3 DEF OpenSession, RevokeSession
<1>4. Tick \/ UNCHANGED vars => UNCHANGED <<policy, ledger, owner, audit, pc, call, node>>
  BY DEF Tick, vars, stores
<1> QED BY <1>1, <1>2, <1>3, <1>4 DEF Next

\* No other call moves while one is in flight.
LEMMA OthersStand ==
    ASSUME MaxInFlight = 1, PipelineInv, OneAtATime, [Next]_vars, NEW c \in InFlight
    PROVE  \/ UNCHANGED <<policy, ledger, owner, audit, pc, call, node>>
           \/ Gateway(c) \/ Upstream(c) \/ Fault(c)
           \/ CrashAndRestart
BY SequentialSteps

LEMMA OneAtATimePreserved ==
    ASSUME MaxInFlight = 1, PipelineInv, OneAtATime, [Next]_vars
    PROVE  OneAtATime'
<1>1. pc \in [Calls -> Steps]
  BY DEF PipelineInv, TypeOK
<1>2. SUFFICES InFlight' \subseteq InFlight \/ \E c \in Calls : InFlight' \subseteq {c}
  BY DEF OneAtATime
<1>3. CASE UNCHANGED <<policy, ledger, owner, audit, pc, call, node>>
  BY <1>3 DEF InFlight
<1>4. ASSUME NEW c \in Calls, InFlight = {},
             RejectMalformed(c) \/ \E intent \in Intents : Arrive(c, intent)
      PROVE  InFlight' \subseteq {c}
  <2>1. \A d \in Calls \ {c} : pc'[d] = pc[d]
    BY <1>1, <1>4 DEF RejectMalformed, BlockWith, Arrive, Goto
  <2> QED BY <1>4, <2>1 DEF InFlight
<1>5. ASSUME NEW c \in Calls, InFlight = {c}, Gateway(c) \/ Upstream(c) \/ Fault(c)
      PROVE  InFlight' \subseteq InFlight
  <2>1. \A d \in Calls \ {c} : pc'[d] = pc[d]
    BY <1>5, StepOfOneCall
  <2> QED BY <1>5, <2>1 DEF InFlight
<1>6. CASE CrashAndRestart
  BY <1>6 DEF CrashAndRestart, InFlight
<1> QED BY <1>3, <1>4, <1>5, <1>6, SequentialSteps

\* A call gets to be forwarded by its decision only, and stays until the node
\* has it.
LEMMA ForwardedByDecision ==
    ASSUME MaxInFlight = 1, PipelineInv, OneAtATime, [Next]_vars,
           NEW c \in Calls, pc'[c] = "forwarding"
    PROVE  \/ pc[c] = "forwarding" /\ UNCHANGED <<policy, ledger, owner, audit, pc, call, node>>
           \/ /\ Decide(c) /\ pc[c] = "loaded" /\ Decision(c) = Allowed
              /\ Intent(c)' = Intent(c) /\ call'[c].at = call[c].at
              /\ UNCHANGED <<ledger, sessions>>
<1>1. pc \in [Calls -> Steps]
  BY DEF PipelineInv, TypeOK
<1>2. CASE UNCHANGED <<policy, ledger, owner, audit, pc, call, node>>
  BY <1>2
<1>3. ASSUME NEW d \in Calls, InFlight = {}, pc[d] = "idle",
             RejectMalformed(d) \/ \E intent \in Intents : Arrive(d, intent)
      PROVE  FALSE
  <2>1. pc[c] # "forwarding"
    BY <1>3 DEF InFlight
  <2>2. pc'[c] # "forwarding"
    BY <1>1, <1>3, <2>1 DEF RejectMalformed, BlockWith, Arrive, Goto
  <2> QED BY <2>2
<1>4. ASSUME NEW d \in Calls, InFlight = {d}, Gateway(d) \/ Upstream(d) \/ Fault(d)
      PROVE  Decide(c) /\ Decision(c) = Allowed
  <2>1. d = c
    <3>1. d # c => pc'[c] = pc[c]
      BY <1>4, StepOfOneCall
    <3> QED BY <1>4, <3>1 DEF InFlight
  <2>2. Decide(c)
    BY <1>1, <1>4, <2>1
    DEF Gateway, FindSession, LoadSession, AmountDoesNotEncode, AddSpend, RecordOwner,
        MarkSessionUsed, RecordAudit, Upstream, NodeExecutes, Reaches, UpstreamRefuses,
        AnswerArrives, Fault, AnswerLost, StorageFails, AuditFails, BlockWith, Goto, AfterOwner
  <2>3. Decision(c).decision = "allowed"
    BY <1>1, <2>2, DecisionTypes DEF Decide, Goto
  <2> QED BY <2>2, <2>3, DecisionTypes
<1>5. ~CrashAndRestart
  BY DEF CrashAndRestart, InFlight
<1>6. Decide(c) => /\ pc[c] = "loaded" /\ UNCHANGED <<ledger, sessions>>
                   /\ Intent(c)' = Intent(c) /\ call'[c].at = call[c].at
  BY StepOfOneCall DEF Decide, stores, Gateway, Intent
<1> QED BY <1>2, <1>3, <1>4, <1>5, <1>6, SequentialSteps

LEMMA LimitsAreCurrentPreserved ==
    ASSUME MaxInFlight = 1, PipelineInv, OneAtATime, LimitsAreCurrent, [Next]_vars
    PROVE  LimitsAreCurrent'
<1> DEFINE total(c) == ledger[BucketOf(Intent(c), call[c].at)] + Intent(c).amount
           Fits(c) == Intent(c).action \in SpendingActions /\ GrantedLimit(c) # Undefined =>
                        Parses(total(c)) /\ total(c) <= GrantedLimit(c)
<1>1. SUFFICES ASSUME NEW c \in Calls, pc'[c] = "forwarding"
               PROVE  Fits(c)'
  BY DEF LimitsAreCurrent
<1>2. Intent(c)' = Intent(c) /\ call'[c].at = call[c].at => (ledger' = ledger => Fits(c)' = Fits(c))
  BY DEF BucketOf, Day, GrantedLimit, MatchingPermissions, PermissionsFor
<1>3. CASE pc[c] = "forwarding" /\ UNCHANGED <<policy, ledger, owner, audit, pc, call, node>>
  <2>1. Fits(c)
    BY <1>3 DEF LimitsAreCurrent
  <2> HIDE DEF Fits
  <2> QED BY <1>2, <1>3, <2>1 DEF Intent
<1>4. CASE /\ Decide(c) /\ pc[c] = "loaded" /\ Decision(c) = Allowed
           /\ Intent(c)' = Intent(c) /\ call'[c].at = call[c].at
           /\ UNCHANGED <<ledger, sessions>>
  <2>1. Fits(c)
    BY <1>4, DecisionsKeepLimits
  <2> HIDE DEF Fits
  <2> QED BY <1>2, <1>4, <2>1
<1> QED BY <1>1, <1>3, <1>4, ForwardedByDecision

LEMMA UseIsCurrentPreserved ==
    ASSUME MaxInFlight = 1, PipelineInv, OneAtATime, UseIsCurrent, [Next]_vars
    PROVE  UseIsCurrent'
<1>1. /\ pc \in [Calls -> Steps] /\ call \in [Calls -> Call] /\ sessions \in [SessionIds -> Session]
      /\ sessions' \in [SessionIds -> Session]
  BY TypeOKPreserved DEF PipelineInv, TypeOK
<1>2. SUFFICES ASSUME NEW c \in Calls
               PROVE  /\ pc'[c] = "loaded" /\ call'[c].session # Undefined =>
                           call'[c].session.used = sessions'[Intent(c)'.session].used
                      /\ pc'[c] = "forwarding" /\ OneShot(Intent(c)'.session) =>
                           ~sessions'[Intent(c)'.session].used
  BY DEF UseIsCurrent, OneShot
<1>3. pc[c] \in {"arrived", "loaded", "forwarding"} => Intent(c).session \in SessionIds
  BY PipelineAssumption DEF PipelineInv, CallsAreSound
<1>4. ASSUME pc[c] \in {"loaded", "forwarding"}
      PROVE  sessions[Intent(c).session].used <=> sessions'[Intent(c).session].used
  <2>1. \A d \in Calls : ~MarkSessionUsed(d)
    BY <1>4, OnlyCallsInFlightStep DEF Gateway, MarkSessionUsed, OneAtATime, InFlight
  <2> QED BY <1>3, <1>4, <2>1, OnlyMarkingConsumes, NothingIsTakenBack
<1>5. \A s \in SessionIds : sessions[s].used \in BOOLEAN /\ sessions'[s].used \in BOOLEAN
  BY <1>1 DEF Session
<1>6. ASSUME pc'[c] = "loaded", call'[c].session # Undefined
      PROVE  call'[c].session.used = sessions'[Intent(c)'.session].used
  <2>1. CASE UNCHANGED <<policy, ledger, owner, audit, pc, call, node>>
    BY <1>3, <1>4, <1>5, <1>6, <2>1 DEF UseIsCurrent, Intent
  <2>2. ASSUME NEW d \in Calls, InFlight = {}, pc[d] = "idle",
               RejectMalformed(d) \/ \E intent \in Intents : Arrive(d, intent)
        PROVE  FALSE
    <3>1. pc[c] # "loaded"
      BY <2>2 DEF InFlight
    <3> QED BY <1>1, <1>6, <2>2, <3>1 DEF RejectMalformed, BlockWith, Arrive, Goto
  <2>3. ASSUME NEW d \in Calls, InFlight = {d}, Gateway(d) \/ Upstream(d) \/ Fault(d)
        PROVE  LoadSession(c)
    <3>1. d = c
      <4>1. d # c => pc'[c] = pc[c]
        BY <2>3, StepOfOneCall
      <4> QED BY <1>6, <2>3, <4>1 DEF InFlight
    <3> QED
      BY <1>1, <1>6, <2>3, <3>1, DecisionTypes
      DEF Gateway, FindSession, Decide, AmountDoesNotEncode, AddSpend, RecordOwner,
          MarkSessionUsed, RecordAudit, Upstream, NodeExecutes, Reaches, UpstreamRefuses,
          AnswerArrives, Fault, AnswerLost, StorageFails, AuditFails, BlockWith, Goto, AfterOwner
  <2>4. CASE LoadSession(c)
    BY <1>1, <1>6, <2>4 DEF LoadSession, Call, Intent, stores
  <2>5. ~CrashAndRestart
    BY <1>6 DEF CrashAndRestart, InFlight
  <2> QED BY <2>1, <2>2, <2>3, <2>4, <2>5, SequentialSteps
<1>7. ASSUME pc'[c] = "forwarding", OneShot(Intent(c)'.session)
      PROVE  ~sessions'[Intent(c)'.session].used
  <2>1. CASE pc[c] = "forwarding" /\ UNCHANGED <<policy, ledger, owner, audit, pc, call, node>>
    <3>1. Intent(c)' = Intent(c)
      BY <2>1 DEF Intent
    <3> QED BY <1>4, <1>7, <2>1, <3>1 DEF UseIsCurrent
  <2>2. CASE /\ Decide(c) /\ pc[c] = "loaded" /\ Decision(c) = Allowed
             /\ Intent(c)' = Intent(c) /\ UNCHANGED <<ledger, sessions>>
    <3>1. Snapshot(c) # Undefined /\ ~Consumed(Snapshot(c))
      BY <2>2, AllowedIntentPasses DEF Decision
    <3>2. call[c].session # Undefined /\ ~call[c].session.used
      BY <1>7, <2>2, <3>1 DEF Snapshot, toSnapshot, Consumed, OneShot
    <3> QED BY <2>2, <3>2 DEF UseIsCurrent
  <2> QED BY <1>7, <2>1, <2>2, ForwardedByDecision
<1> QED BY <1>6, <1>7

\* What disturbs is not undone.
LEMMA UndisturbedBefore ==
    ASSUME PipelineInv, [Next]_vars, Undisturbed'
    PROVE  Undisturbed /\ faults' = 0
<1>1. ASSUME NEW b \in Buckets
      PROVE  settled[b] \in Nat /\ settled'[b] \in Nat /\ settled[b] <= settled'[b]
  <2>1. settled[b] \in Nat /\ settled'[b] \in Nat
    BY TypeOKPreserved DEF PipelineInv, TypeOK
  <2> QED BY <2>1, LedgerMoves DEF Balanced, GivesUp, Executes, IsCharged
<1>2. \A b \in Buckets : Parses(settled'[b]) => Parses(settled[b])
  BY <1>1, AmountAssumption DEF Parses
<1> QED BY <1>2, FaultsOnlyGrow DEF Undisturbed, Parses

\* An undisturbed call that has been executed goes on to consume its session.
LEMMA ExecutedCallsConsume ==
    ASSUME PipelineInv, LedgerLagsByCallsInFlight, [Next]_vars, Undisturbed',
           NEW c \in Calls, Gateway(c) \/ Upstream(c) \/ Fault(c),
           pc[c] \in {"executed", "addSpend", "recordOwner", "markUsed", "auditAllowed"},
           OneShot(Intent(c).session)
    PROVE  \/ pc'[c] \in {"executed", "addSpend", "recordOwner", "markUsed", "auditAllowed"}
           \/ sessions'[Intent(c).session].used
<1>1. pc \in [Calls -> Steps] /\ faults' = 0 /\ faults \in Nat /\ faults <= faults' /\ Undisturbed
  BY UndisturbedBefore, FaultsOnlyGrow DEF PipelineInv, TypeOK
<1>2. ~Fault(c)
  BY <1>1 DEF Fault, AnswerLost, StorageFails, AuditFails
<1>3. CASE RecordAudit(c)
  <2>1. pc[c] = "auditAllowed" /\ sessions' = sessions
    BY <1>3 DEF RecordAudit, stores
  <2> QED BY <2>1 DEF PipelineInv, EventsAreDue, IsConsumed, OneShot
<1>4. CASE AddSpend(c)
  <2> DEFINE b == BucketOf(Intent(c), call[c].at)
  <2>1. b \in Buckets
    BY <1>4, SpendingBuckets DEF AddSpend, PipelineInv, CallsAreSound, TypeOK, Call
  <2>2. ledger[b] \in Nat /\ settled[b] \in Nat /\ ledger[b] <= settled[b]
    <3>1. SumFunctionOnSet(AmountOf, Unaccounted(b)) \in Nat
      BY <2>1, UnaccountedCalls, SumType
    <3>2. ledger[b] \in Nat /\ settled[b] \in Nat
      BY <2>1 DEF PipelineInv, TypeOK
    <3>3. ledger[b] + SumFunctionOnSet(AmountOf, Unaccounted(b)) <= settled[b]
      BY <2>1 DEF LedgerLagsByCallsInFlight, Claimed
    <3> HIDE DEF b
    <3> QED BY <3>1, <3>2, <3>3
  <2>3. Parses(ledger[b])
    BY <1>1, <2>1, <2>2, AmountAssumption DEF Undisturbed, Parses
  <2>4. pc'[c] \in {"recordOwner", "markUsed", "auditAllowed"}
    <3> HIDE DEF b
    <3>1. pc' = [pc EXCEPT ![c] = IF call[c].hash = NoHash THEN AfterOwner(c) ELSE "recordOwner"]
      BY <1>4, <2>3 DEF AddSpend, Goto, b
    <3> QED BY <1>1, <3>1 DEF AfterOwner
  <2> QED BY <2>4
<1>5. CASE RecordOwner(c) \/ MarkSessionUsed(c) \/ AnswerArrives(c)
  BY <1>1, <1>5 DEF RecordOwner, MarkSessionUsed, AnswerArrives, AfterOwner, Goto
<1>6. ~(FindSession(c) \/ LoadSession(c) \/ Decide(c) \/ AmountDoesNotEncode(c)
          \/ NodeExecutes(c) \/ UpstreamRefuses(c))
  BY DEF FindSession, LoadSession, Decide, AmountDoesNotEncode, NodeExecutes, Reaches, UpstreamRefuses
<1> QED BY <1>2, <1>3, <1>4, <1>5, <1>6 DEF Gateway, Upstream

LEMMA UseIsRecordedPreserved ==
    ASSUME MaxInFlight = 1, PipelineInv, LedgerLagsByCallsInFlight, OneAtATime, UseIsCurrent,
           UseIsRecorded, [Next]_vars
    PROVE  UseIsRecorded'
<1> DEFINE Under == {"executed", "addSpend", "recordOwner", "markUsed", "auditAllowed"}
<1>1. /\ pc \in [Calls -> Steps] /\ performed \subseteq Calls
      /\ \A s \in SessionIds : sessions[s].used => sessions'[s].used
  BY NothingIsTakenBack DEF PipelineInv, TypeOK
<1>2. SUFFICES ASSUME Undisturbed', NEW c \in performed', OneShot(Intent(c)'.session)
               PROVE  /\ pc'[c] \in Under \/ sessions'[Intent(c)'.session].used
                      /\ \A d \in performed' : Intent(d)'.session = Intent(c)'.session => d = c
  BY DEF UseIsRecorded, OneShot
<1>3. Undisturbed /\ faults' = 0 /\ faults \in Nat /\ faults <= faults'
  BY <1>2, UndisturbedBefore, FaultsOnlyGrow
<1>4. ASSUME NEW d \in performed
      PROVE  /\ d \in Calls /\ Intent(d)' = Intent(d) /\ Intent(d).session \in SessionIds
             /\ OneShot(Intent(d).session) => pc[d] \in Under \/ sessions[Intent(d).session].used
  BY <1>3, ExecutedCallsKeep, PipelineAssumption DEF UseIsRecorded
<1>5. ASSUME NEW d \in performed' \ performed
      PROVE  /\ d \in Calls /\ pc[d] = "forwarding" /\ NodeExecutes(d)
             /\ pc'[d] = "executed" /\ Intent(d)' = Intent(d)
             /\ performed' = performed \cup {d}
  <2>1. d \in Calls /\ pc[d] = "forwarding" /\ NodeExecutes(d)
    BY <1>5, OnlyForwardedCallsExecute
  <2> QED BY <1>1, <2>1, StepOfOneCall DEF NodeExecutes, Goto, Upstream, Intent
<1>6. pc'[c] \in Under \/ sessions'[Intent(c)'.session].used
  <2>1. CASE c \notin performed
    BY <1>2, <1>5, <2>1
  <2>2. CASE c \in performed /\ sessions[Intent(c).session].used
    BY <1>1, <1>4, <2>2
  <2>3. CASE c \in performed /\ pc[c] \in Under
    <3>1. c \in InFlight
      BY <1>1, <2>3 DEF InFlight
    <3>2. ~CrashAndRestart
      BY <1>3 DEF CrashAndRestart
    <3>3. CASE UNCHANGED <<policy, ledger, owner, audit, pc, call, node>>
      BY <2>3, <3>3
    <3>4. CASE Gateway(c) \/ Upstream(c) \/ Fault(c)
      BY <1>2, <1>4, <2>3, <3>4, ExecutedCallsConsume
    <3> QED BY <3>1, <3>2, <3>3, <3>4, OthersStand
  <2> QED BY <1>2, <1>4, <2>1, <2>2, <2>3
<1>7. ASSUME NEW d \in performed', NEW e \in performed, d \notin performed,
             Intent(d)'.session = Intent(e)'.session, OneShot(Intent(d)'.session)
      PROVE  FALSE
  <2>1. /\ pc[d] = "forwarding" /\ d \in InFlight /\ Intent(d)' = Intent(d)
        /\ ~sessions[Intent(d).session].used
    BY <1>5, <1>7 DEF UseIsCurrent, InFlight
  <2>2. pc[e] \in Under
    BY <1>4, <1>7, <2>1
  <2>3. e \in InFlight
    BY <1>1, <2>2 DEF InFlight
  <2> QED BY <2>1, <2>2, <2>3 DEF OneAtATime
<1>8. ASSUME NEW d \in performed', Intent(d)'.session = Intent(c)'.session
      PROVE  d = c
  <2>1. CASE c \in performed /\ d \in performed
    BY <1>2, <1>3, <1>4, <1>8, <2>1 DEF UseIsRecorded
  <2>2. CASE c \notin performed /\ d \notin performed
    BY <1>2, <1>5, <2>2
  <2> QED BY <1>2, <1>7, <1>8, <2>1, <2>2
<1> QED BY <1>6, <1>8

LEMMA InitSequentialInv ==
    ASSUME Init
    PROVE  LedgerLagsByCallsInFlight /\ ExactlyOneAuditEvent /\ SequentialInv
<1>1. PipelineInv
  BY InitPipelineInv
<1>2. \A b \in Buckets : Unaccounted(b) = {} /\ ledger[b] = 0 /\ settled[b] = 0
  BY DEF Init, Unaccounted
<1>3. LedgerLagsByCallsInFlight
  BY <1>2, SumOfNone DEF LedgerLagsByCallsInFlight, Claimed
<1>4. InFlight = {} /\ performed = {} /\ \A c \in Calls : pc[c] = "idle"
  BY DEF Init, InFlight
<1>5. ExactlyOneAuditEvent
  BY <1>4 DEF ExactlyOneAuditEvent
<1>6. OneAtATime /\ LimitsAreCurrent /\ UseIsCurrent /\ UseIsRecorded
  BY <1>4 DEF OneAtATime, LimitsAreCurrent, UseIsCurrent, UseIsRecorded
<1> QED BY <1>1, <1>3, <1>5, <1>6 DEF SequentialInv

-----------------------------------------------------------------------------
(* The theorems *)

\* However many calls overlap and whatever fails, no bucket of the ledger, with
\* what is still to be charged to it, claims more than the node has executed,
\* and without faults it claims all of it.
THEOREM LedgerNeverOverclaims == Spec => []LedgerLagsByCallsInFlight
<1>1. PipelineInv /\ LedgerLagsByCallsInFlight /\ [Next]_vars => LedgerLagsByCallsInFlight'
  BY LedgerLagsPreserved
<1> QED BY <1>1, InitSequentialInv, PipelineInvariant, PTL DEF Spec

\* Without faults every call that is answered has exactly one audit event, also
\* when calls overlap, and a call that fails does so over a total that is too
\* long to be parsed.
THEOREM EveryDecisionHasOneEvent == Spec => []ExactlyOneAuditEvent
<1>1. PipelineInv /\ ExactlyOneAuditEvent /\ [Next]_vars => ExactlyOneAuditEvent'
  BY ExactlyOneAuditEventPreserved
<1> QED BY <1>1, InitSequentialInv, PipelineInvariant, PTL DEF Spec

\* When calls do not overlap, what a call was decided on is current until the
\* node executes it.
THEOREM SequentialInvariant ==
    ASSUME MaxInFlight = 1
    PROVE  Spec => []SequentialInv
<1>1. SequentialInv /\ [Next]_vars => SequentialInv'
  BY PipelineInvPreserved, LedgerLagsPreserved, OneAtATimePreserved, LimitsAreCurrentPreserved,
     UseIsCurrentPreserved, UseIsRecordedPreserved
  DEF SequentialInv
<1> QED BY <1>1, InitSequentialInv, PTL DEF Spec

\* Then a one-shot session is executed at most once, until a fault or a total
\* that is too long to be parsed comes between an execution and its record.
THEOREM OneShotSessionsExecuteOnce ==
    ASSUME MaxInFlight = 1
    PROVE  Spec => [](Undisturbed => OneShotExecutesOnce)
<1>1. ASSUME SequentialInv, Undisturbed PROVE OneShotExecutesOnce
  <2>1. SUFFICES ASSUME NEW s \in SessionIds, OneShot(s)
                 PROVE  Cardinality({c \in performed : Intent(c).session = s}) <= 1
    BY DEF OneShotExecutesOnce, OneShot
  <2> DEFINE of == {c \in performed : Intent(c).session = s}
  <2>2. \A c, d \in of : d = c
    BY <1>1, <2>1 DEF SequentialInv, UseIsRecorded
  <2>3. CASE of = {}
    BY <2>3, FS_EmptySet
  <2>4. ASSUME NEW c \in of PROVE Cardinality(of) = 1
    <3>1. of = {c}
      BY <2>2
    <3> QED BY <3>1, FS_Singleton
  <2> QED BY <2>3, <2>4
<1>2. SequentialInv => (Undisturbed => OneShotExecutesOnce)
  BY <1>1
<1> QED BY <1>2, SequentialInvariant, PTL

\* And without faults no daily limit is exceeded: the total a call was decided
\* on is what the node has executed that day.
THEOREM SequentialCallsKeepTheLimit ==
    ASSUME MaxInFlight = 1, MaxFaults = 0
    PROVE  Spec => DailyLimitHolds
<1> DEFINE Holds ==
      \A c \in performed' \ performed :
         Intent(c).action \in SpendingActions /\ GrantedLimit(c) # Undefined =>
           settled'[BucketOf(Intent(c), call[c].at)] <= GrantedLimit(c)
<1>1. ASSUME SequentialInv, [Next]_vars PROVE Holds
  <2>1. SUFFICES ASSUME NEW c \in performed' \ performed,
                        Intent(c).action \in SpendingActions, GrantedLimit(c) # Undefined
                 PROVE  settled'[BucketOf(Intent(c), call[c].at)] <= GrantedLimit(c)
    OBVIOUS
  <2> DEFINE b == BucketOf(Intent(c), call[c].at)
  <2>2. /\ PipelineInv /\ c \in Calls /\ pc[c] = "forwarding" /\ NodeExecutes(c)
        /\ Intent(c) \in Intents /\ call[c].at \in 0..MaxTime
    BY <1>1, OnlyForwardedCallsExecute DEF SequentialInv, PipelineInv, CallsAreSound, TypeOK, Call
  <2>3. b \in Buckets /\ Intent(c).amount \in Nat
    BY <2>1, <2>2, SpendingBuckets, PipelineAssumption
  <2>4. Parses(ledger[b] + Intent(c).amount) /\ ledger[b] + Intent(c).amount <= GrantedLimit(c)
    BY <1>1, <2>1, <2>2 DEF SequentialInv, LimitsAreCurrent
  <2>5. settled[b] \in Nat /\ ledger[b] \in Nat /\ faults = 0
    BY <2>2, <2>3 DEF PipelineInv, TypeOK
  <2>6. settled[b] = ledger[b]
    <3>1. Unaccounted(b) = {}
      <4>1. InFlight \subseteq {c}
        BY <1>1, <2>2 DEF SequentialInv, OneAtATime, InFlight
      <4>2. Unaccounted(b) \subseteq InFlight /\ c \notin Unaccounted(b)
        BY <2>1, <2>2 DEF Unaccounted, InFlight, PipelineInv, TypeOK
      <4> QED BY <4>1, <4>2
    <3>2. Claimed(b) = ledger[b] + 0
      BY <3>1, SumOfNone DEF Claimed
    <3>3. Parses(ledger[b])
      <4> HIDE DEF b
      <4> QED BY <2>3, <2>4, <2>5, AmountAssumption DEF Parses
    <3>4. Claimed(b) = settled[b]
      BY <1>1, <2>3, <2>5, <3>3 DEF SequentialInv, LedgerLagsByCallsInFlight
    <3> HIDE DEF b
    <3> QED BY <2>5, <3>2, <3>4
  <2>7. settled' = [settled EXCEPT ![b] = @ + Intent(c).amount]
    BY <2>1, <2>2 DEF NodeExecutes
  <2>8. settled'[b] = ledger[b] + Intent(c).amount
    <3> HIDE DEF b
    <3> QED BY <2>2, <2>3, <2>6, <2>7 DEF PipelineInv, TypeOK
  <2> QED BY <2>4, <2>8
<1>2. SequentialInv /\ [Next]_vars => [Holds]_vars
  BY <1>1
<1> QED BY <1>2, SequentialInvariant, PTL DEF Spec, DailyLimitHolds
=============================================================================
