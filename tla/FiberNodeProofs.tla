-------------------------- MODULE FiberNodeProofs --------------------------
(***************************************************************************)
(* Theorems about invoices and payments, for any number of calls, invoices *)
(* and faults, and any amounts, caps and limits.                           *)
(***************************************************************************)
EXTENDS FiberNode, DataLemmas, TLAPS

-----------------------------------------------------------------------------
(* Powers of ten *)

\* The recursion that defines the powers has a solution.
LEMMA TenToIs ==
    /\ TenTo[0] = 1
    /\ \A n \in Nat : TenTo[n] \in Nat /\ TenTo[n + 1] = 10 * TenTo[n]
<1>1. PICK g \in [Nat -> Nat] : g[0] = 1 /\ \A n \in Nat : g[n + 1] = 10 * g[n]
  <2> DEFINE step == [n \in Nat |-> [x \in Nat |-> 10 * x]]
  <2>1. PICK g : IteratesOnNat(g, 1, step, Nat)
    <3>1. step \in [Nat -> [Nat -> Nat]] /\ 1 \in Nat
      OBVIOUS
    <3> HIDE DEF step
    <3> QED BY <3>1, RecursionOverNat
  <2>2. g \in [Nat -> Nat] /\ g[0] = 1
    BY <2>1 DEF IteratesOnNat
  <2>3. ASSUME NEW n \in Nat PROVE g[n + 1] = 10 * g[n]
    <3>1. \A k, x \in Nat : step[k][x] = 10 * x
      OBVIOUS
    <3> HIDE DEF step
    <3>2. n + 1 \in Nat /\ g[n] \in Nat /\ g[n + 1] = step[n + 1][g[n]]
      BY <2>1, <2>2 DEF IteratesOnNat
    <3> QED BY <3>1, <3>2
  <2> QED BY <2>2, <2>3
<1>2. g = [n \in Nat |-> IF n = 0 THEN 1 ELSE 10 * g[n - 1]]
  <2>1. ASSUME NEW n \in Nat PROVE g[n] = IF n = 0 THEN 1 ELSE 10 * g[n - 1]
    <3>1. CASE n = 0
      BY <1>1, <3>1
    <3>2. CASE n # 0
      <4>1. n - 1 \in Nat /\ (n - 1) + 1 = n
        BY <3>2
      <4> QED BY <1>1, <3>2, <4>1
    <3> QED BY <3>1, <3>2
  <2> QED BY <1>1, <2>1
<1>3. TenTo = [n \in Nat |-> IF n = 0 THEN 1 ELSE 10 * TenTo[n - 1]]
  BY <1>2 DEF TenTo
<1>4. TenTo[0] = 1 /\ \A n \in Nat : TenTo[n + 1] = 10 * TenTo[n]
  <2>1. TenTo[0] = 1
    BY <1>3
  <2>2. ASSUME NEW n \in Nat PROVE TenTo[n + 1] = 10 * TenTo[n]
    <3>1. n + 1 \in Nat /\ n + 1 # 0 /\ (n + 1) - 1 = n
      OBVIOUS
    <3> QED BY <1>3, <3>1
  <2> QED BY <2>1, <2>2
<1> DEFINE Good == {n \in Nat : TenTo[n] \in Nat}
<1>5. Nat \subseteq Good
  <2>1. 0 \in Good /\ \A n \in Nat : n \in Good => n + 1 \in Good
    BY <1>4
  <2> HIDE DEF Good
  <2> QED BY <2>1, InductionOverNat
<1> QED BY <1>4, <1>5

\* Powers of ten are positive.
LEMMA PowersOfTen == \A n \in Nat : TenTo[n] \in Nat /\ TenTo[n] >= 1
<1> DEFINE Good == {n \in Nat : TenTo[n] >= 1}
<1>1. 0 \in Good /\ \A n \in Nat : n \in Good => n + 1 \in Good
  BY TenToIs
<1>2. Nat \subseteq Good
  <2> HIDE DEF Good
  <2> QED BY <1>1, InductionOverNat
<1> QED BY <1>2, TenToIs

\* The product of two powers.
LEMMA TenToOfSum == \A m, n \in Nat : TenTo[m + n] = TenTo[m] * TenTo[n]
<1> SUFFICES ASSUME NEW m \in Nat PROVE \A n \in Nat : TenTo[m + n] = TenTo[m] * TenTo[n]
  OBVIOUS
<1> DEFINE Good == {n \in Nat : TenTo[m + n] = TenTo[m] * TenTo[n]}
<1>1. 0 \in Good
  <2>1. m + 0 = m /\ TenTo[m] * 1 = TenTo[m]
    BY TenToIs
  <2> QED BY <2>1, TenToIs
<1>2. ASSUME NEW n \in Nat, n \in Good PROVE n + 1 \in Good
  <2>1. TenTo[m + (n + 1)] = 10 * TenTo[m + n]
    <3>1. m + n \in Nat /\ m + (n + 1) = (m + n) + 1
      OBVIOUS
    <3> QED BY <3>1, TenToIs
  <2>2. \A x, y \in Nat : 10 * (x * y) = x * (10 * y)
    OBVIOUS
  <2> QED BY <1>2, <2>1, <2>2, TenToIs
<1>3. Nat \subseteq Good
  <2> HIDE DEF Good
  <2> QED BY <1>1, <1>2, InductionOverNat
<1> QED BY <1>3

\* The laws of multiplication the provers do not use by themselves.
LEMMA Products ==
    \A x, y, z \in Nat : /\ x * y \in Nat
                         /\ x * y = y * x
                         /\ (x * y) * z = x * (y * z)
                         /\ (x + y) * z = x * z + y * z
OBVIOUS

\* A positive factor does not change which of two numbers is larger.
LEMMA FactorKeepsOrder ==
    ASSUME NEW x \in Nat, NEW y \in Nat, NEW t \in Nat, t >= 1
    PROVE  x > y <=> x * t > y * t
<1>1. ASSUME x > y PROVE x * t > y * t
  <2>1. PICK d \in Nat : x = y + d /\ d >= 1
    <3>1. x - y \in Nat /\ x = y + (x - y) /\ x - y >= 1
      BY <1>1
    <3> QED BY <3>1
  <2>2. x * t = y * t + d * t
    BY <2>1, Products
  <2>3. d * t >= 1
    BY <2>1
  <2> QED BY <2>2, <2>3, Products
<1>2. ASSUME x <= y PROVE x * t <= y * t
  <2>1. PICK d \in Nat : y = x + d
    <3>1. y - x \in Nat /\ y = x + (y - x)
      BY <1>2
    <3> QED BY <3>1
  <2>2. y * t = x * t + d * t
    BY <2>1, Products
  <2> QED BY <2>1, <2>2, Products
<1>3. x * t \in Nat /\ y * t \in Nat
  BY Products
<1> QED BY <1>1, <1>2, <1>3

\* A division without a remainder.
LEMMA Division ==
    ASSUME NEW u \in Nat, NEW d \in Nat, d >= 1, u % d = 0
    PROVE  u \div d \in Nat /\ (u \div d) * d = u
OBVIOUS

-----------------------------------------------------------------------------
(* Amounts *)

\* Zeros at the end of the fraction go, the value stays.
LEMMA FormattingKeepsTheValue ==
    ASSUME NEW u \in Nat, NEW s \in Nat
    PROVE  /\ formatFixedPoint(u, s) \in WithDigits(s)
           /\ rescale(formatFixedPoint(u, s), s) = u
<1> DEFINE exact == {k \in 0..s : u % TenTo[s - k] = 0}
           least == CHOOSE k \in exact : \A j \in exact : k <= j
           d == TenTo[s - least]
<1>1. s \in exact
  <2>1. TenTo[s - s] = 1 /\ u % 1 = 0
    BY TenToIs
  <2> QED BY <2>1
<1>2. \E k \in exact : \A j \in exact : k <= j
  <2>1. exact \subseteq Nat /\ exact # {}
    BY <1>1
  <2> HIDE DEF exact
  <2> QED BY <2>1, MinIsLeast
<1>3. least \in 0..s /\ u % d = 0
  <2>1. least \in exact
    <3> HIDE DEF exact
    <3> QED BY <1>2
  <2> HIDE DEF least
  <2> QED BY <2>1
<1>4. formatFixedPoint(u, s) = [units |-> u \div d, scale |-> least]
  BY DEF formatFixedPoint
<1> HIDE DEF least, d
<1>5. d = TenTo[s - least] /\ d \in Nat /\ d >= 1
  <2>1. s - least \in Nat
    BY <1>3
  <2> QED BY <2>1, PowersOfTen DEF d
<1>6. u \div d \in Nat /\ (u \div d) * d = u
  BY <1>3, <1>5, Division
<1> QED BY <1>3, <1>4, <1>5, <1>6 DEF WithDigits, rescale

\* Writing an amount with more digits in two steps or in one is the same.
LEMMA RescalingTwice ==
    ASSUME NEW d \in Nat, NEW s \in 0..d, NEW a \in WithDigits(s)
    PROVE  /\ rescale(a, s) \in Nat
           /\ rescale(a, d) = rescale(a, s) * TenTo[d - s]
<1>1. a.units \in Nat /\ s - a.scale \in Nat /\ d - s \in Nat
      /\ d - a.scale = (s - a.scale) + (d - s)
  BY DEF WithDigits
<1>2. TenTo[d - a.scale] = TenTo[s - a.scale] * TenTo[d - s]
  BY <1>1, TenToOfSum
<1>3. TenTo[s - a.scale] \in Nat /\ TenTo[d - s] \in Nat
  BY <1>1, PowersOfTen
<1> QED BY <1>1, <1>2, <1>3, Products DEF rescale

\* Two amounts have their common number of digits.
LEMMA CommonScaleIs ==
    ASSUME NEW d \in Nat, NEW a \in WithDigits(d), NEW b \in WithDigits(d)
    PROVE  LET s == CommonScale(a, b) IN s \in 0..d /\ a \in WithDigits(s) /\ b \in WithDigits(s)
BY DEF CommonScale, WithDigits

\* Decimal addition is exact: taken in units that are fine enough for both,
\* the sum's units are the sum of the units.
THEOREM AdditionIsExact ==
    ASSUME NEW d \in Nat, NEW a \in WithDigits(d), NEW b \in WithDigits(d)
    PROVE  /\ addAmounts(a, b) \in WithDigits(d)
           /\ rescale(addAmounts(a, b), d) = rescale(a, d) + rescale(b, d)
<1> DEFINE s == CommonScale(a, b)
           x == rescale(a, s)
           y == rescale(b, s)
           t == TenTo[d - s]
           sum == addAmounts(a, b)
<1>1. s \in 0..d /\ a \in WithDigits(s) /\ b \in WithDigits(s)
  BY CommonScaleIs
<1>2. sum = formatFixedPoint(x + y, s)
  BY DEF addAmounts
<1> HIDE DEF s, sum
<1>3. x \in Nat /\ y \in Nat /\ rescale(a, d) = x * t /\ rescale(b, d) = y * t
  BY <1>1, RescalingTwice
<1> HIDE DEF x, y
<1>4. sum \in WithDigits(s) /\ rescale(sum, s) = x + y
  BY <1>1, <1>2, <1>3, FormattingKeepsTheValue
<1>5. sum \in WithDigits(d)
  BY <1>1, <1>4 DEF WithDigits
<1>6. rescale(sum, d) = (x + y) * t
  BY <1>1, <1>4, RescalingTwice
<1>7. t \in Nat
  BY <1>1, PowersOfTen
<1>8. (x + y) * t = x * t + y * t
  BY <1>3, <1>7, Products
<1> QED BY <1>3, <1>5, <1>6, <1>8 DEF sum

\* Decimal comparison is that of the values, whatever the numbers of digits.
THEOREM ComparisonIsExact ==
    ASSUME NEW d \in Nat, NEW a \in WithDigits(d), NEW b \in WithDigits(d)
    PROVE  Exceeds(a, b) <=> a.units * TenTo[b.scale] > b.units * TenTo[a.scale]
<1>1. /\ a.units \in Nat /\ b.units \in Nat /\ a.scale \in Nat /\ b.scale \in Nat
      /\ TenTo[0] = 1 /\ \A n \in Nat : TenTo[n] \in Nat /\ TenTo[n] >= 1
  BY PowersOfTen, TenToIs DEF WithDigits
<1>2. CASE a.scale > b.scale
  <2> DEFINE k == a.scale - b.scale
  <2>1. k \in Nat /\ a.scale = k + b.scale
    BY <1>1, <1>2
  <2>2. Exceeds(a, b) <=> a.units > b.units * TenTo[k]
    <3>1. CommonScale(a, b) = a.scale /\ a.scale - a.scale = 0 /\ a.units * 1 = a.units
      BY <1>1, <1>2 DEF CommonScale
    <3> QED BY <1>1, <3>1 DEF Exceeds, rescale
  <2> HIDE DEF k
  <2>3. TenTo[k] * TenTo[b.scale] = TenTo[a.scale]
    BY <1>1, <2>1, TenToOfSum
  <2>4. (b.units * TenTo[k]) * TenTo[b.scale] = b.units * TenTo[a.scale] /\ b.units * TenTo[k] \in Nat
    BY <1>1, <2>1, <2>3, Products
  <2> QED BY <1>1, <2>2, <2>4, FactorKeepsOrder
<1>3. CASE a.scale <= b.scale
  <2> DEFINE k == b.scale - a.scale
  <2>1. k \in Nat /\ b.scale = k + a.scale
    BY <1>1, <1>3
  <2>2. Exceeds(a, b) <=> a.units * TenTo[k] > b.units
    <3>1. CommonScale(a, b) = b.scale /\ b.scale - b.scale = 0 /\ b.units * 1 = b.units
      BY <1>1, <1>3 DEF CommonScale
    <3> QED BY <1>1, <3>1 DEF Exceeds, rescale
  <2> HIDE DEF k
  <2>3. TenTo[k] * TenTo[a.scale] = TenTo[b.scale]
    BY <1>1, <2>1, TenToOfSum
  <2>4. (a.units * TenTo[k]) * TenTo[a.scale] = a.units * TenTo[b.scale] /\ a.units * TenTo[k] \in Nat
    BY <1>1, <2>1, <2>3, Products
  <2> QED BY <1>1, <2>2, <2>4, FactorKeepsOrder
<1> QED BY <1>1, <1>2, <1>3

-----------------------------------------------------------------------------
(* What a step leaves alone *)

LEMMA FreshOnes == ASSUME NEW ids, NEW id \in Fresh(ids) PROVE id \in ids
BY DEF Fresh

\* Every operation names its answers.
LEMMA ReasonsAreAnswers == ASSUME NEW c PROVE Reason(c) \in Answers
BY DEF Reason, Answers

\* Owners stay, invoices stay told, executed calls stay executed.
Grows ==
    /\ told \subseteq told'
    /\ performed \subseteq performed'
    /\ \A h \in Hashes : owner[h] # NoSession => owner'[h] = owner[h]

\* A call that a growing step does not touch stays sound.
LEMMA UntouchedCalls ==
    ASSUME TypeOK, Grows, NEW c \in Calls, CallIsSound(c), call'[c] = call[c],
           call[c].answer = "forwarded" => call[c].hash \in Hashes
    PROVE  CallIsSound(c)'
<1>1. NoSession \notin Sessions
  BY NodeAssumption DEF Sessions
<1> QED BY <1>1 DEF TypeOK, Grows, CallIsSound

\* The calls move on with the contents they have; no store changes.
Advances ==
    /\ UNCHANGED <<node, owner, performed>>
    /\ \A c \in Calls :
         /\ call'[c].by = call[c].by /\ call'[c].op = call[c].op
         /\ call'[c].address = call[c].address /\ call'[c].hash = call[c].hash
         /\ c \in performed => call'[c].pc \notin {"idle", "arrived", "forwarding"}

\* Such a step keeps what is known of the executed calls and of the stores.
LEMMA AdvancingKeeps ==
    ASSUME NodeInv, Advances
    PROVE  /\ \A c \in performed : ExecutionIsSound(c)'
           /\ PaymentsAreMade'
           /\ OwnersAreRightful'
<1>1. performed \subseteq Calls
  BY DEF NodeInv, TypeOK
<1>2. ASSUME NEW c \in performed PROVE ExecutionIsSound(c)'
  BY <1>1, <1>2 DEF NodeInv, CallsAreSound, ExecutionIsSound, Advances, node, IsInvoiceHash
<1>3. PaymentsAreMade'
  <2> SUFFICES ASSUME NEW h \in Hashes, payments'[h] # NotPaid
               PROVE  \E d \in Executed("pay")' : call'[d].hash = h
    BY DEF PaymentsAreMade
  <2>1. PICK d \in Executed("pay") : call[d].hash = h
    BY DEF NodeInv, PaymentsAreMade, Advances, node
  <2>2. d \in Executed("pay")' /\ call'[d].hash = h
    BY <1>1, <2>1 DEF Executed, Advances
  <2> QED BY <2>2
<1>4. OwnersAreRightful'
  BY DEF NodeInv, OwnersAreRightful, Advances, node, IsInvoiceHash
<1> QED BY <1>2, <1>3, <1>4

\* What remains to be shown of a step of one call that changes no store.
LEMMA OneCallAdvances ==
    ASSUME NodeInv, UNCHANGED <<node, owner, told, performed>>, faults' \in 0..MaxFaults,
           NEW c \in Calls, NEW n \in Call, call' = [call EXCEPT ![c] = n],
           n.by = call[c].by, n.op = call[c].op,
           n.address = call[c].address, n.hash = call[c].hash,
           c \in performed => n.pc \notin {"idle", "arrived", "forwarding"},
           n.pc \in {"executed", "addSpend", "recordOwner"} => c \in performed,
           n.pc \in {"addSpend", "recordOwner"} => n.op \in Spending,
           n.pc = "forwarding" /\ n.op = "read" => owner[n.hash] = n.by,
           n.answer = "forwarded" =>
             c \in performed /\ n.op \in Spending /\ owner[n.hash] # NoSession,
           n.answer = "allowed" => c \in performed /\ n.op = "read"
    PROVE  NodeInv'
<1>1. TypeOK'
  BY DEF NodeInv, TypeOK, node
<1>2. call'[c] = n /\ \A d \in Calls \ {c} : call'[d] = call[d]
  BY DEF NodeInv, TypeOK
<1>3. Advances
  BY <1>2 DEF Advances, NodeInv, CallsAreSound, ExecutionIsSound, node
<1>4. CallIsSound(c)'
  BY <1>2 DEF NodeInv, CallsAreSound, CallIsSound
<1>5. ASSUME NEW d \in Calls \ {c} PROVE CallIsSound(d)'
  BY <1>2 DEF NodeInv, CallsAreSound, CallIsSound
<1>6. CallsAreSound'
  BY <1>3, <1>4, <1>5, AdvancingKeeps DEF CallsAreSound, NodeInv, TypeOK
<1>7. InvoicesAreSound' /\ HandedOutInvoiceIsOwned'
  BY DEF NodeInv, InvoicesAreSound, HandedOutInvoiceIsOwned, Minted, node
<1> QED BY <1>1, <1>3, <1>6, <1>7, AdvancingKeeps DEF NodeInv

-----------------------------------------------------------------------------
(* The decision and the steps that change no store *)

\* Nothing is known of an executed call when it arrives.
LEMMA FreshCallsAreNotExecuted ==
    ASSUME NodeInv, NEW c \in Calls, call[c].pc \in {"idle", "arrived", "forwarding"}
    PROVE  c \notin performed /\ call[c].answer \notin {"forwarded", "allowed"}
BY DEF NodeInv, CallsAreSound, CallIsSound, ExecutionIsSound

LEMMA ArriveKeeps ==
    ASSUME NodeInv, NEW c \in Calls, NEW session \in Sessions,
           NEW op \in Spending \cup {"read"}, NEW amount \in Requested \cup {Zero},
           NEW address \in told \cup {ForeignInvoice, NoAddress}, NEW hash \in Hashes \cup {NoHash},
           op = "create" => session = Merchant,
           op = "pay" => session = Payer /\ address # NoAddress,
           op = "read" => hash \in Hashes,
           Arrive(c, session, op, amount, address, hash)
    PROVE  NodeInv'
<1> DEFINE n == [by |-> session, op |-> op, amount |-> amount, address |-> address, hash |-> hash,
                 pc |-> "arrived", answer |-> "none"]
<1>1. c \notin performed
  BY FreshCallsAreNotExecuted DEF Arrive
<1>2. n \in Call
  BY DEF Call, Steps, Answers, NodeInv, TypeOK
<1>3. call' = [call EXCEPT ![c] = n] /\ UNCHANGED <<node, ledger, owner, told, performed, faults>>
  BY DEF Arrive
<1> HIDE DEF n
<1>4. TypeOK'
  BY <1>2, <1>3 DEF NodeInv, TypeOK, node
<1>5. call'[c] = n /\ \A d \in Calls \ {c} : call'[d] = call[d]
  BY <1>3 DEF NodeInv, TypeOK
<1>6. CallIsSound(c)'
  BY <1>3, <1>5 DEF CallIsSound, n
<1>7. ASSUME NEW d \in Calls \ {c} PROVE CallIsSound(d)'
  BY <1>3, <1>5 DEF NodeInv, CallsAreSound, CallIsSound
<1>8. ASSUME NEW d \in performed PROVE ExecutionIsSound(d)'
  BY <1>1, <1>3, <1>5 DEF NodeInv, TypeOK, CallsAreSound, ExecutionIsSound, IsInvoiceHash, node
<1>9. Executed("pay")' = Executed("pay") /\ \A d \in Executed("pay") : call'[d] = call[d]
  BY <1>1, <1>3, <1>5 DEF Executed, NodeInv, TypeOK
<1>10. PaymentsAreMade'
  BY <1>3, <1>9 DEF NodeInv, PaymentsAreMade, node
<1>11. InvoicesAreSound' /\ HandedOutInvoiceIsOwned' /\ OwnersAreRightful'
  BY <1>3 DEF NodeInv, InvoicesAreSound, Minted, HandedOutInvoiceIsOwned, OwnersAreRightful,
              IsInvoiceHash, node
<1> QED BY <1>3, <1>4, <1>6, <1>7, <1>8, <1>10, <1>11 DEF NodeInv, CallsAreSound

LEMMA RequestKeeps == ASSUME NodeInv, NEW c \in Calls, Request(c) PROVE NodeInv'
<1>1. UsedHashes \ {NoHash} \subseteq Hashes
  BY DEF UsedHashes, NodeInv, TypeOK, Invoice
<1>2. ASSUME NEW amount \in Requested, Arrive(c, Merchant, "create", amount, NoAddress, NoHash)
      PROVE  NodeInv'
  BY <1>2, ArriveKeeps DEF Sessions, Spending
<1>3. ASSUME NEW amount \in Requested, NEW address \in told \cup {ForeignInvoice},
             Arrive(c, Payer, "pay", amount, address, NoHash)
      PROVE  NodeInv'
  <2>1. address # NoAddress
    BY NodeAssumption DEF NodeInv, TypeOK
  <2> QED BY <1>3, <2>1, ArriveKeeps DEF Sessions, Spending
<1>4. ASSUME NEW session \in Sessions, NEW hash \in UsedHashes \ {NoHash},
             Arrive(c, session, "read", Zero, NoAddress, hash)
      PROVE  NodeInv'
  BY <1>1, <1>4, ArriveKeeps DEF Spending
<1> QED BY <1>2, <1>3, <1>4 DEF Request

LEMMA DecideKeeps == ASSUME NodeInv, NEW c \in Calls, Decide(c) PROVE NodeInv'
<1>1. call[c] \in Call /\ faults \in 0..MaxFaults
  BY DEF NodeInv, TypeOK
<1>2. c \notin performed /\ call[c].answer \notin {"forwarded", "allowed"}
  BY FreshCallsAreNotExecuted DEF Decide
<1>3. CASE Reason(c) = "none"
  <2>1. PICK n : n = [call[c] EXCEPT !.pc = "forwarding"]
    OBVIOUS
  <2>2. n \in Call
    BY <1>1, <2>1 DEF Call, Steps
  <2>3. call' = [call EXCEPT ![c] = n]
    BY <1>3, <2>1 DEF Decide, Goto
  <2>4. n.op = "read" => owner[n.hash] = n.by
    BY <1>1, <1>3, <2>1 DEF Reason, Call
  <2> QED BY <1>1, <1>2, <2>1, <2>2, <2>3, <2>4, OneCallAdvances DEF Decide, Call
<1>4. CASE Reason(c) # "none"
  <2>1. PICK n : n = [call[c] EXCEPT !.pc = "replying", !.answer = Reason(c)]
    OBVIOUS
  <2>2. n \in Call
    BY <1>1, <2>1, ReasonsAreAnswers DEF Call, Steps
  <2>3. call' = [call EXCEPT ![c] = n]
    BY <1>4, <2>1 DEF Decide, AnswerWith
  <2>4. Reason(c) \notin {"forwarded", "allowed"}
    BY DEF Reason
  <2> QED BY <1>1, <1>2, <2>1, <2>2, <2>3, <2>4, OneCallAdvances DEF Decide, Call
<1> QED BY <1>3, <1>4

\* A call is turned away: by the amount, by the node, or by a fault.
LEMMA RefusalKeeps ==
    ASSUME NodeInv, NEW c \in Calls, NEW answer \in Answers \ {"forwarded", "allowed"},
           AnswerWith(c, answer), UNCHANGED <<node, owner, told, performed>>,
           faults' \in 0..MaxFaults
    PROVE  NodeInv'
<1>1. call[c] \in Call
  BY DEF NodeInv, TypeOK
<1>2. PICK n : n = [call[c] EXCEPT !.pc = "replying", !.answer = answer]
  OBVIOUS
<1>3. n \in Call
  BY <1>1, <1>2 DEF Call, Steps
<1>4. call' = [call EXCEPT ![c] = n]
  BY <1>2 DEF AnswerWith
<1> QED BY <1>1, <1>2, <1>3, <1>4, OneCallAdvances DEF Call

\* A call goes on after its execution, or fails.
LEMMA GotoKeeps ==
    ASSUME NodeInv, NEW c \in Calls, c \in performed,
           NEW step \in {"addSpend", "recordOwner", "failed"}, Goto(c, step),
           step # "failed" => call[c].op \in Spending,
           UNCHANGED <<node, owner, told, performed>>, faults' \in 0..MaxFaults
    PROVE  NodeInv'
<1>1. call[c] \in Call /\ CallIsSound(c)
  BY DEF NodeInv, TypeOK, CallsAreSound
<1>2. PICK n : n = [call[c] EXCEPT !.pc = step]
  OBVIOUS
<1>3. n \in Call
  BY <1>1, <1>2 DEF Call, Steps
<1>4. call' = [call EXCEPT ![c] = n]
  BY <1>2 DEF Goto
<1>5. n.pc = step /\ n.answer = call[c].answer /\ n.by = call[c].by /\ n.op = call[c].op
      /\ n.address = call[c].address /\ n.hash = call[c].hash
  BY <1>1, <1>2 DEF Call
<1> QED BY <1>1, <1>3, <1>4, <1>5, OneCallAdvances DEF CallIsSound

LEMMA FaultsAreCounted ==
    ASSUME NodeInv, Fault PROVE faults' \in 0..MaxFaults
BY NodeAssumption DEF NodeInv, TypeOK, Fault

LEMMA AmountDoesNotEncodeKeeps ==
    ASSUME NodeInv, NEW c \in Calls, AmountDoesNotEncode(c) PROVE NodeInv'
BY RefusalKeeps DEF AmountDoesNotEncode, Answers, node, NodeInv, TypeOK

LEMMA UpstreamFailsKeeps ==
    ASSUME NodeInv, NEW c \in Calls, UpstreamFails(c) PROVE NodeInv'
BY RefusalKeeps, FaultsAreCounted DEF UpstreamFails, Answers

LEMMA AddSpendKeeps ==
    ASSUME NodeInv, NEW c \in Calls, AddSpend(c) PROVE NodeInv'
BY GotoKeeps DEF AddSpend, NodeInv, TypeOK, CallsAreSound, CallIsSound

LEMMA StorageFailsKeeps ==
    ASSUME NodeInv, NEW c \in Calls, StorageFails(c) PROVE NodeInv'
BY GotoKeeps, FaultsAreCounted DEF StorageFails, NodeInv, CallsAreSound, CallIsSound

LEMMA AnswerArrivesKeeps ==
    ASSUME NodeInv, NEW c \in Calls, AnswerArrives(c) PROVE NodeInv'
<1>1. call[c] \in Call /\ c \in performed /\ CallIsSound(c) /\ ExecutionIsSound(c)
      /\ faults \in 0..MaxFaults
  BY DEF AnswerArrives, NodeInv, TypeOK, CallsAreSound, CallIsSound
<1>2. CASE call[c].op = "read"
  <2>1. PICK n : n = [call[c] EXCEPT !.pc = "replying", !.answer = "allowed"]
    OBVIOUS
  <2>2. n \in Call
    BY <1>1, <2>1 DEF Call, Steps, Answers
  <2>3. call' = [call EXCEPT ![c] = n]
    BY <1>2, <2>1 DEF AnswerArrives, AnswerWith
  <2> QED BY <1>1, <1>2, <2>1, <2>2, <2>3, OneCallAdvances DEF AnswerArrives, Call
<1>3. CASE call[c].op # "read"
  <2>1. call[c].op \in Spending
    BY <1>1, <1>3 DEF Call, ExecutionIsSound
  <2> QED BY <1>1, <1>3, <2>1, GotoKeeps DEF AnswerArrives
<1> QED BY <1>2, <1>3

LEMMA CrashKeeps == ASSUME NodeInv, CrashAndRestart PROVE NodeInv'
<1>1. faults' \in 0..MaxFaults /\ UNCHANGED <<node, owner, told, performed>>
  BY FaultsAreCounted DEF CrashAndRestart
<1>2. ASSUME NEW c \in Calls
      PROVE  /\ call'[c] \in Call
             /\ \/ call'[c] = call[c]
                \/ /\ call'[c].pc = "crashed"
                   /\ call'[c].by = call[c].by /\ call'[c].op = call[c].op
                   /\ call'[c].address = call[c].address /\ call'[c].hash = call[c].hash
                   /\ call'[c].answer = call[c].answer
  <2>1. call[c] \in Call
    BY DEF NodeInv, TypeOK
  <2>2. CASE c \in InFlight
    <3>1. call'[c] = [call[c] EXCEPT !.pc = "crashed"]
      BY <2>2 DEF CrashAndRestart
    <3> QED BY <2>1, <3>1 DEF Call, Steps
  <2>3. CASE c \notin InFlight
    BY <2>1, <2>3 DEF CrashAndRestart
  <2> QED BY <2>2, <2>3
<1>3. TypeOK'
  <2>1. call' \in [Calls -> Call]
    BY <1>2 DEF CrashAndRestart
  <2> QED BY <1>1, <2>1 DEF NodeInv, TypeOK, node
<1>4. Advances
  BY <1>1, <1>2 DEF Advances, NodeInv, TypeOK, CallsAreSound, ExecutionIsSound
<1>5. ASSUME NEW c \in Calls PROVE CallIsSound(c)'
  BY <1>1, <1>2 DEF NodeInv, CallsAreSound, CallIsSound
<1>6. InvoicesAreSound' /\ HandedOutInvoiceIsOwned'
  BY <1>1 DEF NodeInv, InvoicesAreSound, HandedOutInvoiceIsOwned, Minted, node
<1> QED BY <1>1, <1>3, <1>4, <1>5, <1>6, AdvancingKeeps DEF NodeInv, CallsAreSound

LEMMA ReplyKeeps == ASSUME NodeInv, NEW c \in Calls, Reply(c) PROVE NodeInv'
<1>1. call[c] \in Call /\ CallIsSound(c) /\ UNCHANGED <<node, owner, performed, faults>>
  BY DEF NodeInv, TypeOK, CallsAreSound, Reply
<1>2. PICK n : n = [call[c] EXCEPT !.pc = "answered"]
  OBVIOUS
<1>3. n \in Call /\ n.pc = "answered" /\ n.answer = call[c].answer /\ n.by = call[c].by
      /\ n.op = call[c].op /\ n.address = call[c].address /\ n.hash = call[c].hash
  BY <1>1, <1>2 DEF Call, Steps
<1>4. call' = [call EXCEPT ![c] = n]
  BY <1>2 DEF Reply, Goto
<1>5. call'[c] = n /\ \A d \in Calls \ {c} : call'[d] = call[d]
  BY <1>4 DEF NodeInv, TypeOK
\* The invoice that leaves the gateway is minted and the merchant's.
<1>6. /\ told \subseteq told'
      /\ \A a \in told' : a \in Addresses /\ Minted(a) /\ owner[invoices[a].hash] = Merchant
  <2>1. \A a \in told : a \in Addresses /\ Minted(a) /\ owner[invoices[a].hash] = Merchant
    BY DEF NodeInv, TypeOK, InvoicesAreSound, HandedOutInvoiceIsOwned
  <2>2. CASE call[c].op = "create" /\ call[c].answer = "forwarded"
    <3> DEFINE a == call[c].address
               h == call[c].hash
    <3>1. a \in Addresses /\ h \in Hashes /\ invoices[a].hash = h /\ owner[h] # NoSession
      BY <1>1, <2>2 DEF CallIsSound, ExecutionIsSound, NodeInv, CallsAreSound
    <3>2. owner[h] = Merchant
      BY <3>1 DEF NodeInv, TypeOK, Sessions, OwnersAreRightful, IsInvoiceHash
    <3>3. Minted(a)
      BY <3>1, NodeAssumption DEF NodeInv, InvoicesAreSound
    <3> QED BY <2>1, <2>2, <3>1, <3>2, <3>3 DEF Reply
  <2>3. CASE ~(call[c].op = "create" /\ call[c].answer = "forwarded")
    BY <2>1, <2>3 DEF Reply
  <2> QED BY <2>2, <2>3
<1>7. TypeOK'
  BY <1>1, <1>3, <1>4, <1>6 DEF NodeInv, TypeOK, node
<1>8. Advances
  BY <1>1, <1>3, <1>5 DEF Advances, NodeInv, CallsAreSound, ExecutionIsSound
<1>9. CallIsSound(c)'
  BY <1>1, <1>3, <1>5, <1>6 DEF CallIsSound
<1>10. ASSUME NEW d \in Calls \ {c} PROVE CallIsSound(d)'
  BY <1>1, <1>5, <1>6 DEF NodeInv, CallsAreSound, CallIsSound
<1>11. InvoicesAreSound' /\ HandedOutInvoiceIsOwned'
  BY <1>1, <1>6 DEF NodeInv, InvoicesAreSound, HandedOutInvoiceIsOwned, Minted, node
<1> QED BY <1>1, <1>7, <1>8, <1>9, <1>10, <1>11, AdvancingKeeps DEF NodeInv, CallsAreSound

-----------------------------------------------------------------------------
(* The node *)

LEMMA GetPaymentKeeps == ASSUME NodeInv, NEW c \in Calls, GetPayment(c) PROVE NodeInv'
<1>1. call[c] \in Call /\ CallIsSound(c) /\ faults \in 0..MaxFaults
      /\ call[c].pc = "forwarding" /\ call[c].op = "read"
  BY DEF NodeInv, TypeOK, CallsAreSound, GetPayment, Reaches
<1>2. CASE payments[call[c].hash] = NotPaid
  BY <1>1, <1>2, RefusalKeeps DEF GetPayment, Answers
<1>3. CASE payments[call[c].hash] # NotPaid
  <2>1. PICK n : n = [call[c] EXCEPT !.pc = "executed"]
    OBVIOUS
  <2>2. n \in Call /\ n.pc = "executed" /\ n.answer = call[c].answer /\ n.by = call[c].by
        /\ n.op = "read" /\ n.address = call[c].address /\ n.hash = call[c].hash
    BY <1>1, <2>1 DEF Call, Steps
  <2>3. /\ call' = [call EXCEPT ![c] = n] /\ performed' = performed \cup {c}
        /\ UNCHANGED <<node, owner, told, faults>>
    BY <1>3, <2>1 DEF GetPayment, Goto
  <2>4. call'[c] = n /\ \A d \in Calls \ {c} : call'[d] = call[d]
    BY <2>3 DEF NodeInv, TypeOK
  <2>5. TypeOK'
    BY <2>2, <2>3 DEF NodeInv, TypeOK, node
  <2>6. CallIsSound(c)' /\ ExecutionIsSound(c)'
    BY <1>1, <1>3, <2>2, <2>3, <2>4 DEF CallIsSound, ExecutionIsSound, node
  <2>7. ASSUME NEW d \in Calls \ {c} PROVE CallIsSound(d)'
    BY <2>3, <2>4 DEF NodeInv, CallsAreSound, CallIsSound
  <2>8. ASSUME NEW d \in performed \ {c} PROVE ExecutionIsSound(d)'
    BY <2>3, <2>4 DEF NodeInv, TypeOK, CallsAreSound, ExecutionIsSound, IsInvoiceHash, node
  <2>9. c \notin performed
    BY <1>1, FreshCallsAreNotExecuted
  <2>10. Executed("pay") \subseteq Executed("pay")'
         /\ \A d \in Executed("pay") : call'[d] = call[d]
    BY <2>3, <2>4, <2>9 DEF Executed, NodeInv, TypeOK
  <2>11. PaymentsAreMade'
    BY <2>3, <2>10 DEF NodeInv, PaymentsAreMade, node
  <2>12. InvoicesAreSound' /\ HandedOutInvoiceIsOwned' /\ OwnersAreRightful'
    BY <2>3 DEF NodeInv, InvoicesAreSound, Minted, HandedOutInvoiceIsOwned, OwnersAreRightful,
                IsInvoiceHash, node
  <2> QED BY <2>3, <2>5, <2>6, <2>7, <2>8, <2>11, <2>12 DEF NodeInv, CallsAreSound
<1> QED BY <1>2, <1>3

LEMMA NewInvoiceKeeps == ASSUME NodeInv, NEW c \in Calls, NewInvoice(c) PROVE NodeInv'
<1>1. call[c] \in Call /\ CallIsSound(c) /\ call[c].pc = "forwarding" /\ call[c].op = "create"
      /\ c \notin performed /\ call[c].answer \notin {"forwarded", "allowed"}
      /\ BaseUnits(c) \in 0..MaxBaseUnits
  BY FreshCallsAreNotExecuted
     DEF NodeInv, TypeOK, CallsAreSound, NewInvoice, Reaches, Spending, Encodes, BaseUnits, toBaseUnits
<1>2. PICK a \in Fresh({b \in Addresses : invoices[b].status = "none"}), h \in FreshHash :
        /\ invoices' = [invoices EXCEPT ![a] = [hash |-> h, amount |-> BaseUnits(c), status |-> "Open"]]
        /\ call' = [call EXCEPT ![c].pc = "executed", ![c].address = a, ![c].hash = h]
  BY DEF NewInvoice
<1>3. performed' = performed \cup {c} /\ UNCHANGED <<payments, ledger, owner, told, faults>>
  BY DEF NewInvoice
\* The address and the hash are free.
<1>4. a \in Addresses /\ invoices[a].status = "none" /\ invoices[a].hash = NoHash
  BY <1>2, FreshOnes DEF NodeInv, InvoicesAreSound, Minted
<1>5. h \in Hashes /\ payments[h] = NotPaid /\ ~IsInvoiceHash(h)
  BY <1>2, FreshOnes DEF FreshHash, UsedHashes, IsInvoiceHash
<1>6. owner[h] = NoSession
  BY <1>5 DEF NodeInv, TypeOK, Sessions, OwnersAreRightful
<1>7. PICK n : n = [call[c] EXCEPT !.pc = "executed", !.address = a, !.hash = h]
  OBVIOUS
<1>8. n \in Call /\ n.pc = "executed" /\ n.answer = call[c].answer /\ n.by = call[c].by
      /\ n.op = "create" /\ n.address = a /\ n.hash = h
  BY <1>1, <1>4, <1>5, <1>7 DEF Call, Steps
<1>9. call' = [call EXCEPT ![c] = n]
  BY <1>2, <1>7
<1>10. call'[c] = n /\ \A d \in Calls \ {c} : call'[d] = call[d]
  BY <1>9 DEF NodeInv, TypeOK
<1>11. PICK i : i = [hash |-> h, amount |-> BaseUnits(c), status |-> "Open"]
  OBVIOUS
<1>12. i \in Invoice /\ i.hash = h /\ i.status = "Open"
  BY <1>1, <1>5, <1>11 DEF Invoice
<1>13. /\ invoices' = [invoices EXCEPT ![a] = i]
       /\ invoices'[a] = i /\ \A b \in Addresses \ {a} : invoices'[b] = invoices[b]
  BY <1>2, <1>4, <1>11 DEF NodeInv, TypeOK
<1>14. TypeOK'
  BY <1>3, <1>8, <1>9, <1>12, <1>13 DEF NodeInv, TypeOK
<1>15. a \notin told
  BY <1>4 DEF NodeInv, InvoicesAreSound, Minted
<1>16. InvoicesAreSound'
  BY <1>3, <1>5, <1>12, <1>13, NodeAssumption DEF NodeInv, InvoicesAreSound, Minted
<1>17. HandedOutInvoiceIsOwned'
  BY <1>3, <1>13, <1>15 DEF NodeInv, TypeOK, HandedOutInvoiceIsOwned
<1>18. \A g \in Hashes : IsInvoiceHash(g)' <=> IsInvoiceHash(g) \/ g = h
  <2>1. \A g \in Hashes : g # NoHash
    BY NodeAssumption
  <2> QED BY <1>4, <1>12, <1>13, <2>1 DEF IsInvoiceHash
<1>19. OwnersAreRightful'
  BY <1>3, <1>6, <1>18, NodeAssumption DEF NodeInv, OwnersAreRightful
<1>20. CallIsSound(c)' /\ ExecutionIsSound(c)'
  BY <1>1, <1>3, <1>4, <1>5, <1>8, <1>10, <1>12, <1>13 DEF CallIsSound, ExecutionIsSound
<1>21. ASSUME NEW d \in Calls \ {c} PROVE CallIsSound(d)'
  BY <1>3, <1>10 DEF NodeInv, CallsAreSound, CallIsSound
<1>22. ASSUME NEW d \in performed PROVE ExecutionIsSound(d)'
  <2>1. d \in Calls \ {c} /\ call'[d] = call[d] /\ ExecutionIsSound(d)
    BY <1>1, <1>10 DEF NodeInv, TypeOK, CallsAreSound
  <2>2. call[d].hash \in Hashes => call[d].hash # NoHash
    BY NodeAssumption
  <2> QED BY <1>3, <1>4, <1>5, <1>13, <1>18, <2>1, <2>2 DEF ExecutionIsSound
<1>23. Executed("pay") \subseteq Executed("pay")'
       /\ \A d \in Executed("pay") : call'[d] = call[d]
  BY <1>1, <1>3, <1>10 DEF Executed, NodeInv, TypeOK
<1>24. PaymentsAreMade'
  BY <1>3, <1>23 DEF NodeInv, PaymentsAreMade
<1> QED BY <1>3, <1>14, <1>16, <1>17, <1>19, <1>20, <1>21, <1>22, <1>24 DEF NodeInv, CallsAreSound

LEMMA SendPaymentKeeps == ASSUME NodeInv, NEW c \in Calls, SendPayment(c) PROVE NodeInv'
<1>1. call[c] \in Call /\ CallIsSound(c) /\ call[c].pc = "forwarding" /\ call[c].op = "pay"
      /\ c \notin performed /\ call[c].answer \notin {"forwarded", "allowed"}
      /\ BaseUnits(c) \in 0..MaxBaseUnits
  BY FreshCallsAreNotExecuted
     DEF NodeInv, TypeOK, CallsAreSound, SendPayment, Reaches, Spending, Encodes, BaseUnits, toBaseUnits
<1>2. PICK h \in IF call[c].address \in Addresses
                  THEN {invoices[call[c].address].hash} ELSE FreshHash :
        /\ payments' = [payments EXCEPT ![h] = BaseUnits(c)]
        /\ call' = [call EXCEPT ![c].pc = "executed", ![c].hash = h]
  BY DEF SendPayment
<1>3. /\ performed' = performed \cup {c} /\ UNCHANGED <<ledger, owner, told, faults>>
      /\ invoices' = [a \in Addresses |->
           IF a = call[c].address THEN [invoices[a] EXCEPT !.status = "Paid"] ELSE invoices[a]]
  BY DEF SendPayment
\* A known invoice is one the merchant passed on; any other gets a free hash.
<1>4. /\ h \in Hashes
      /\ call[c].address \in Addresses => Minted(call[c].address) /\ invoices[call[c].address].hash = h
      /\ call[c].address \notin Addresses => ~IsInvoiceHash(h)
  <2>1. CASE call[c].address \in Addresses
    <3>1. call[c].address \in told
      BY <1>1, <2>1, NodeAssumption DEF CallIsSound
    <3>2. Minted(call[c].address) /\ invoices[call[c].address].hash = h /\ h # NoHash
      BY <1>2, <2>1, <3>1 DEF NodeInv, InvoicesAreSound
    <3> QED BY <2>1, <3>2 DEF NodeInv, TypeOK, Invoice
  <2>2. CASE call[c].address \notin Addresses
    BY <1>2, <2>2, FreshOnes DEF FreshHash, UsedHashes, IsInvoiceHash
  <2> QED BY <2>1, <2>2
<1>5. PICK n : n = [call[c] EXCEPT !.pc = "executed", !.hash = h]
  OBVIOUS
<1>6. n \in Call /\ n.pc = "executed" /\ n.answer = call[c].answer /\ n.by = call[c].by
      /\ n.op = "pay" /\ n.address = call[c].address /\ n.hash = h
  BY <1>1, <1>4, <1>5 DEF Call, Steps
<1>7. call' = [call EXCEPT ![c] = n]
  BY <1>2, <1>5
<1>8. call'[c] = n /\ \A d \in Calls \ {c} : call'[d] = call[d]
  BY <1>7 DEF NodeInv, TypeOK
<1>9. ASSUME NEW a \in Addresses
      PROVE  /\ invoices'[a] \in Invoice
             /\ invoices'[a].hash = invoices[a].hash
             /\ invoices'[a].status = IF a = call[c].address THEN "Paid" ELSE invoices[a].status
  <2>1. invoices[a] \in Invoice
    BY DEF NodeInv, TypeOK
  <2>2. CASE a = call[c].address
    <3>1. invoices'[a] = [invoices[a] EXCEPT !.status = "Paid"]
      BY <1>3, <2>2
    <3> QED BY <2>1, <2>2, <3>1 DEF Invoice
  <2>3. CASE a # call[c].address
    BY <1>3, <2>1, <2>3
  <2> QED BY <2>2, <2>3
<1>10. \A g \in Hashes : IsInvoiceHash(g)' <=> IsInvoiceHash(g)
  BY <1>9 DEF IsInvoiceHash
<1>11. \A a \in Addresses : Minted(a)' <=> Minted(a)
  BY <1>4, <1>9 DEF Minted
<1>12. NotPaid \notin 0..MaxBaseUnits
  BY DigitsAssumption DEF NotPaid
<1>13. /\ payments'[h] # NotPaid
       /\ \A g \in Hashes : payments[g] # NotPaid => payments'[g] # NotPaid
  BY <1>1, <1>2, <1>4, <1>12 DEF NodeInv, TypeOK
<1>14. TypeOK'
  <2>1. invoices' \in [Addresses -> Invoice]
    BY <1>3, <1>9
  <2>2. payments' \in [Hashes -> {NotPaid} \cup 0..MaxBaseUnits]
    BY <1>1, <1>2 DEF NodeInv, TypeOK
  <2> QED BY <1>3, <1>6, <1>7, <2>1, <2>2 DEF NodeInv, TypeOK
<1>15. InvoicesAreSound' /\ HandedOutInvoiceIsOwned'
  BY <1>3, <1>9, <1>11 DEF NodeInv, TypeOK, InvoicesAreSound, HandedOutInvoiceIsOwned
<1>16. OwnersAreRightful'
  BY <1>3, <1>10, <1>13 DEF NodeInv, OwnersAreRightful
<1>17. CallIsSound(c)' /\ ExecutionIsSound(c)'
  BY <1>1, <1>3, <1>4, <1>6, <1>8, <1>9, <1>10, <1>13 DEF CallIsSound, ExecutionIsSound
<1>18. ASSUME NEW d \in Calls \ {c} PROVE CallIsSound(d)'
  BY <1>3, <1>8 DEF NodeInv, CallsAreSound, CallIsSound
<1>19. ASSUME NEW d \in performed PROVE ExecutionIsSound(d)'
  <2>1. d \in Calls \ {c} /\ call'[d] = call[d] /\ ExecutionIsSound(d) /\ CallIsSound(d)
    BY <1>1, <1>8 DEF NodeInv, TypeOK, CallsAreSound
  <2> QED BY <1>3, <1>9, <1>10, <1>13, <2>1 DEF ExecutionIsSound, CallIsSound
<1>20. c \in Executed("pay")' /\ Executed("pay") \subseteq Executed("pay")'
       /\ \A d \in Executed("pay") : call'[d] = call[d]
  BY <1>1, <1>3, <1>6, <1>8 DEF Executed, NodeInv, TypeOK
<1>21. PaymentsAreMade'
  <2> SUFFICES ASSUME NEW g \in Hashes, payments'[g] # NotPaid
               PROVE  \E d \in Executed("pay")' : call'[d].hash = g
    BY DEF PaymentsAreMade
  <2>1. CASE g = h
    BY <1>6, <1>8, <1>20, <2>1
  <2>2. CASE g # h
    <3>1. payments[g] # NotPaid
      BY <1>2, <2>2 DEF NodeInv, TypeOK
    <3> QED BY <1>20, <3>1 DEF NodeInv, PaymentsAreMade
  <2> QED BY <2>1, <2>2
<1> QED BY <1>3, <1>14, <1>15, <1>16, <1>17, <1>18, <1>19, <1>21 DEF NodeInv, CallsAreSound

-----------------------------------------------------------------------------
(* The ownership index *)

LEMMA RecordOwnerKeeps == ASSUME NodeInv, NEW c \in Calls, RecordOwner(c) PROVE NodeInv'
<1> DEFINE h == call[c].hash
<1>1. call[c] \in Call /\ CallIsSound(c) /\ ExecutionIsSound(c) /\ c \in performed
      /\ call[c].op \in Spending /\ h \in Hashes
  BY DEF NodeInv, TypeOK, CallsAreSound, RecordOwner, CallIsSound, ExecutionIsSound, Spending
<1>2. /\ owner' = [owner EXCEPT ![h] = IF @ = NoSession THEN call[c].by ELSE @]
      /\ UNCHANGED <<node, told, performed, faults>>
  BY DEF RecordOwner
<1>3. /\ owner'[h] = IF owner[h] = NoSession THEN call[c].by ELSE owner[h]
      /\ \A g \in Hashes \ {h} : owner'[g] = owner[g]
  BY <1>1, <1>2 DEF NodeInv, TypeOK
<1>4. call[c].by = IF call[c].op = "create" THEN Merchant ELSE Payer
  BY <1>1 DEF CallIsSound, Spending
<1>5. owner'[h] # NoSession /\ call[c].by \in Sessions
  BY <1>3, <1>4, NodeAssumption DEF Sessions
<1>6. \A g \in Hashes : owner[g] # NoSession => owner'[g] = owner[g]
  BY <1>3
<1>7. PICK n : n = [call[c] EXCEPT !.pc = "replying", !.answer = "forwarded"]
  OBVIOUS
<1>8. n \in Call /\ n.pc = "replying" /\ n.answer = "forwarded" /\ n.by = call[c].by
      /\ n.op = call[c].op /\ n.address = call[c].address /\ n.hash = h
  BY <1>1, <1>7 DEF Call, Steps, Answers
<1>9. call' = [call EXCEPT ![c] = n]
  BY <1>7 DEF RecordOwner, AnswerWith
<1>10. call'[c] = n /\ \A d \in Calls \ {c} : call'[d] = call[d]
  BY <1>9 DEF NodeInv, TypeOK
<1>11. TypeOK'
  BY <1>2, <1>5, <1>8, <1>9 DEF NodeInv, TypeOK, node
\* A payer becomes the owner only of payments of foreign invoices: those of
\* invoices it was given have an owner.
<1>12. OwnersAreRightful'
  <2>1. CASE call[c].op = "create"
    <3>1. IsInvoiceHash(h) /\ call[c].by = Merchant
      BY <1>1, <1>4, <2>1 DEF ExecutionIsSound, IsInvoiceHash
    <3> QED BY <1>2, <1>3, <3>1, NodeAssumption DEF NodeInv, OwnersAreRightful, IsInvoiceHash, node
  <2>2. CASE call[c].op = "pay" /\ call[c].address \in Addresses
    <3>1. call[c].address \in told /\ invoices[call[c].address].hash = h
      BY <1>1, <2>2, NodeAssumption DEF CallIsSound, ExecutionIsSound
    <3>2. owner[h] = Merchant
      BY <3>1 DEF NodeInv, HandedOutInvoiceIsOwned
    <3>3. \A g \in Hashes : owner'[g] = owner[g]
      BY <1>3, <3>2, NodeAssumption
    <3> QED BY <1>2, <3>3 DEF NodeInv, OwnersAreRightful, IsInvoiceHash, node
  <2>3. CASE call[c].op = "pay" /\ call[c].address \notin Addresses
    <3>1. payments[h] # NotPaid /\ ~IsInvoiceHash(h) /\ call[c].by = Payer
      BY <1>1, <1>4, <2>3 DEF ExecutionIsSound
    <3> QED BY <1>2, <1>3, <3>1, NodeAssumption DEF NodeInv, OwnersAreRightful, IsInvoiceHash, node
  <2> QED BY <1>1, <2>1, <2>2, <2>3 DEF Spending
<1>13. HandedOutInvoiceIsOwned'
  <2> SUFFICES ASSUME NEW a \in told PROVE owner'[invoices[a].hash] = Merchant
    BY <1>2 DEF HandedOutInvoiceIsOwned, node
  <2>1. invoices[a].hash \in Hashes /\ owner[invoices[a].hash] = Merchant
    BY DEF NodeInv, TypeOK, Invoice, InvoicesAreSound, HandedOutInvoiceIsOwned
  <2> QED BY <1>6, <2>1, NodeAssumption
<1>14. InvoicesAreSound'
  BY <1>2 DEF NodeInv, InvoicesAreSound, Minted, node
<1>15. CallIsSound(c)'
  BY <1>1, <1>2, <1>5, <1>8, <1>10 DEF CallIsSound
<1>16. ASSUME NEW d \in Calls \ {c} PROVE CallIsSound(d)'
  <2>1. call'[d] = call[d] /\ CallIsSound(d)
    BY <1>10 DEF NodeInv, CallsAreSound
  <2>2. call[d].answer = "forwarded" => call[d].hash \in Hashes
    BY <2>1 DEF CallIsSound, NodeInv, CallsAreSound, ExecutionIsSound, Spending
  <2>3. Grows
    BY <1>2, <1>6 DEF Grows
  <2> QED BY <2>1, <2>2, <2>3, UntouchedCalls DEF NodeInv
<1>17. ASSUME NEW d \in performed PROVE ExecutionIsSound(d)'
  <2>1. d \in Calls /\ ExecutionIsSound(d) /\ CallIsSound(d)
    BY DEF NodeInv, TypeOK, CallsAreSound
  <2>2. /\ call'[d].op = call[d].op /\ call'[d].by = call[d].by
        /\ call'[d].address = call[d].address /\ call'[d].hash = call[d].hash
        /\ call'[d].pc \notin {"idle", "arrived", "forwarding"}
    BY <1>8, <1>10, <2>1 DEF ExecutionIsSound
  <2>3. call[d].op = "read" => owner'[call[d].hash] = owner[call[d].hash]
    BY <1>6, <2>1, NodeAssumption DEF ExecutionIsSound, CallIsSound, Sessions
  <2> QED BY <1>2, <2>1, <2>2, <2>3 DEF ExecutionIsSound, IsInvoiceHash, node
<1>18. PaymentsAreMade'
  <2>1. Executed("pay") = Executed("pay")' /\ \A d \in Executed("pay") : call'[d].hash = call[d].hash
    BY <1>2, <1>8, <1>10 DEF Executed, NodeInv, TypeOK
  <2> QED BY <1>2, <2>1 DEF NodeInv, PaymentsAreMade, node
<1> QED BY <1>2, <1>11, <1>12, <1>13, <1>14, <1>15, <1>16, <1>17, <1>18 DEF NodeInv, CallsAreSound

-----------------------------------------------------------------------------
(* Theorems about invoices and owners *)

LEMMA InitIsSound == Init => NodeInv
<1> SUFFICES ASSUME Init PROVE NodeInv
  OBVIOUS
<1>1. 0 \in 0..MaxBaseUnits /\ 0 \in 0..MaxFaults
  BY DigitsAssumption, NodeAssumption
<1>2. TypeOK
  BY <1>1 DEF Init, TypeOK, Invoice, Call, Steps, Answers, NotPaid
<1>3. InvoicesAreSound /\ CallsAreSound /\ HandedOutInvoiceIsOwned
  BY DEF Init, InvoicesAreSound, Minted, CallsAreSound, CallIsSound, HandedOutInvoiceIsOwned
<1>4. PaymentsAreMade /\ OwnersAreRightful
  BY NodeAssumption DEF Init, PaymentsAreMade, OwnersAreRightful
<1> QED BY <1>2, <1>3, <1>4 DEF NodeInv

LEMMA StepsKeep == NodeInv /\ [Next]_vars => NodeInv'
<1> SUFFICES ASSUME NodeInv, [Next]_vars PROVE NodeInv'
  OBVIOUS
<1>1. ASSUME NEW c \in Calls,
             \/ Request(c) \/ Decide(c) \/ AmountDoesNotEncode(c)
             \/ NewInvoice(c) \/ SendPayment(c) \/ GetPayment(c)
             \/ AnswerArrives(c) \/ UpstreamFails(c)
             \/ AddSpend(c) \/ RecordOwner(c) \/ StorageFails(c) \/ Reply(c)
      PROVE  NodeInv'
  BY <1>1, RequestKeeps, DecideKeeps, AmountDoesNotEncodeKeeps, NewInvoiceKeeps, SendPaymentKeeps,
     GetPaymentKeeps, AnswerArrivesKeeps, UpstreamFailsKeeps, AddSpendKeeps, RecordOwnerKeeps,
     StorageFailsKeeps, ReplyKeeps
<1>2. CASE CrashAndRestart
  BY <1>2, CrashKeeps
<1>3. CASE UNCHANGED vars
  BY <1>3 DEF vars, node, NodeInv, TypeOK, InvoicesAreSound, Minted, CallsAreSound, CallIsSound,
              ExecutionIsSound, IsInvoiceHash, PaymentsAreMade, Executed, OwnersAreRightful,
              HandedOutInvoiceIsOwned
<1> QED BY <1>1, <1>2, <1>3 DEF Next

\* Through every interleaving of creations, payments and reads, and whatever
\* fails or crashes in between, invoices, payments, owners and calls fit.
THEOREM NodeInvariant == Spec => []NodeInv
<1>1. Init => NodeInv
  BY InitIsSound
<1>2. NodeInv /\ [Next]_vars => NodeInv'
  BY StepsKeep
<1> QED BY <1>1, <1>2, PTL DEF Spec

\* An invoice that has left the gateway is its creator's for good: nobody who
\* pays it, before or after any fault, becomes the owner of its payment.
THEOREM InvoicesStayOwned == Spec => []HandedOutInvoiceIsOwned
<1>1. NodeInv => HandedOutInvoiceIsOwned
  BY DEF NodeInv
<1> QED BY <1>1, NodeInvariant, PTL

\* An answer of success is backed by a settled payment, and what the merchant
\* reads was paid to an invoice it handed out.
THEOREM SuccessesAreSettled == Spec => []SuccessIsSettled
<1>1. NodeInv => SuccessIsSettled
  <2> SUFFICES ASSUME NodeInv, NEW c \in Calls
               PROVE  /\ call[c].answer = "forwarded" /\ call[c].op = "pay" =>
                           /\ payments[call[c].hash] # NotPaid
                           /\ IF call[c].address \in Addresses
                                THEN invoices[call[c].address].hash = call[c].hash
                                     /\ invoices[call[c].address].status = "Paid"
                                ELSE owner[call[c].hash] = Payer
                      /\ call[c].answer = "allowed" =>
                           \E d \in Executed("pay") : /\ call[d].hash = call[c].hash
                                                      /\ call[c].by = Merchant => call[d].address \in told
    BY DEF SuccessIsSettled
  <2>1. CallIsSound(c) /\ (c \in performed => ExecutionIsSound(c))
    BY DEF NodeInv, CallsAreSound
  <2>2. ASSUME call[c].answer = "forwarded", call[c].op = "pay"
        PROVE  /\ payments[call[c].hash] # NotPaid
               /\ IF call[c].address \in Addresses
                    THEN invoices[call[c].address].hash = call[c].hash
                         /\ invoices[call[c].address].status = "Paid"
                    ELSE owner[call[c].hash] = Payer
    <3>1. ExecutionIsSound(c) /\ owner[call[c].hash] # NoSession /\ call[c].hash \in Hashes
      BY <2>1, <2>2 DEF CallIsSound, ExecutionIsSound
    <3>2. ~IsInvoiceHash(call[c].hash) => owner[call[c].hash] = Payer
      BY <3>1 DEF NodeInv, TypeOK, Sessions, OwnersAreRightful
    <3> QED BY <2>2, <3>1, <3>2 DEF ExecutionIsSound
  <2>3. ASSUME call[c].answer = "allowed"
        PROVE  \E d \in Executed("pay") : /\ call[d].hash = call[c].hash
                                          /\ call[c].by = Merchant => call[d].address \in told
    <3>1. /\ call[c].hash \in Hashes /\ payments[call[c].hash] # NotPaid
          /\ owner[call[c].hash] = call[c].by
      BY <2>1, <2>3 DEF CallIsSound, ExecutionIsSound
    <3>2. PICK d \in Executed("pay") : call[d].hash = call[c].hash
      BY <3>1 DEF NodeInv, PaymentsAreMade
    <3>3. CallIsSound(d) /\ ExecutionIsSound(d) /\ call[d].op = "pay"
      BY <3>2 DEF Executed, NodeInv, TypeOK, CallsAreSound
    <3>4. ASSUME call[c].by = Merchant PROVE call[d].address \in told
      <4>1. IsInvoiceHash(call[d].hash)
        BY <3>1, <3>2, <3>4 DEF NodeInv, OwnersAreRightful
      <4>2. call[d].address \in Addresses
        BY <3>3, <4>1 DEF ExecutionIsSound
      <4> QED BY <3>3, <4>2, NodeAssumption DEF CallIsSound
    <3> QED BY <3>2, <3>4
  <2> QED BY <2>2, <2>3
<1> QED BY <1>1, NodeInvariant, PTL

-----------------------------------------------------------------------------
(* The ledger *)

\* Requested amounts that encode have a number of base units.
LEMMA SentAmounts ==
    ASSUME SpendInv, NEW c \in performed, c \in Calls, call[c].op \in Spending
    PROVE  call[c].amount \in WithDigits(Decimals) /\ BaseUnits(c) \in Nat
<1>1. call[c].amount \in DecimalAmounts /\ Encodes(call[c].amount, Decimals)
  BY RequestsAssumption DEF SpendInv, AmountIsSound
<1>2. call[c].amount \in WithDigits(Decimals)
  BY <1>1, LimitsAssumption, DigitsAssumption DEF DecimalAmounts, WithDigits, Encodes
<1>3. BaseUnits(c) \in 0..MaxBaseUnits
  BY <1>1 DEF BaseUnits, toBaseUnits, Encodes
<1> QED BY <1>2, <1>3, DigitsAssumption

\* A step that writes no total, leaves the charged calls charged with the
\* amounts they have, and charges another one only as a fault.
LEMMA TotalsStay ==
    ASSUME NodeInv, NodeInv', SpendInv, UNCHANGED ledger,
           faults' = 0 => faults = 0,
           IsFiniteSet(performed'),
           \A c \in performed : call'[c].op = call[c].op /\ call'[c].amount = call[c].amount,
           \A op \in Spending : /\ Charged(op) \subseteq Charged(op)'
                                /\ faults' = 0 => Charged(op)' = Charged(op),
           \A c \in Calls : AmountIsSound(c)'
    PROVE  SpendInv'
<1>1. performed \subseteq Calls /\ performed' \subseteq Calls
  BY DEF NodeInv, TypeOK
<1>2. ASSUME NEW op \in Spending PROVE LedgerFollows(op)'
  <2> DEFINE R == Charged(op)
             S == Charged(op)'
             f == [c \in R |-> BaseUnits(c)]
             g == [c \in S |-> BaseUnits(c)']
             total == toBaseUnits(ledger[op], Decimals)
  <2>1. IsFiniteSet(S) /\ IsFiniteSet(R) /\ R \subseteq S
    BY FS_Subset DEF Charged, Executed, SpendInv
  <2>2. ASSUME NEW c \in S PROVE g[c] \in Nat
    <3>1. c \in performed' /\ c \in Calls /\ call'[c].op \in Spending
      BY <1>1, <2>2 DEF Charged, Executed
    <3>2. call'[c].amount \in DecimalAmounts /\ Encodes(call[c].amount, Decimals)'
      BY <3>1, RequestsAssumption DEF AmountIsSound
    <3>3. BaseUnits(c)' \in 0..MaxBaseUnits
      BY <3>2 DEF BaseUnits, toBaseUnits, Encodes
    <3> QED BY <2>2, <3>3, DigitsAssumption
  <2>3. \A c \in R : f[c] = g[c]
    BY <1>1, <2>1 DEF Charged, Executed, BaseUnits, toBaseUnits, rescale
  <2>4. /\ LedgerFollows(op) <=> /\ total <= SumFunctionOnSet(f, R)
                                 /\ faults = 0 => total = SumFunctionOnSet(f, R)
        /\ LedgerFollows(op)' <=> /\ total <= SumFunctionOnSet(g, S)
                                  /\ faults' = 0 => total = SumFunctionOnSet(g, S)
    BY DEF LedgerFollows, BaseUnitsOf, toBaseUnits, rescale
  <2>5. LedgerFollows(op)
    BY DEF SpendInv
  <2>6. faults' = 0 => S = R
    OBVIOUS
  <2>7. total \in Nat
    <3>1. ledger[op] \in WithDigits(Decimals) /\ Decimals \in Nat
      BY LimitsAssumption, DigitsAssumption DEF SpendInv
    <3> QED BY <3>1, RescalingTwice DEF toBaseUnits
  <2> HIDE DEF R, S, f, g, total
  <2>8. SumFunctionOnSet(f, R) = SumFunctionOnSet(g, R)
    BY <2>1, <2>3, SumOfEqual
  <2>9. /\ SumFunctionOnSet(g, R) <= SumFunctionOnSet(g, S)
        /\ SumFunctionOnSet(g, R) \in Nat /\ SumFunctionOnSet(g, S) \in Nat
    BY <2>1, <2>2, SumOfSubset, SumType
  <2> QED BY <2>4, <2>5, <2>6, <2>7, <2>8, <2>9
<1> QED BY <1>2 DEF SpendInv

\* The same of a step of one call.
LEMMA OneCallKeepsTotals ==
    ASSUME NodeInv, NodeInv', SpendInv, UNCHANGED ledger, NEW c \in Calls, NEW n,
           call' = [call EXCEPT ![c] = n],
           faults' \in {faults, faults + 1}, performed' \in {performed, performed \cup {c}},
           c \in performed => n.op = call[c].op /\ n.amount = call[c].amount,
           \A op \in Spending : c \in Charged(op) => n.pc \notin {"executed", "addSpend"},
           faults' = faults /\ c \in performed' /\ n.op \in Spending
             /\ n.pc \notin {"executed", "addSpend"} => c \in Charged(n.op),
           AmountIsSound(c)'
    PROVE  SpendInv'
<1>1. call'[c] = n /\ (\A d \in Calls \ {c} : call'[d] = call[d])
      /\ performed \subseteq Calls /\ performed' \subseteq Calls
      /\ faults \in Nat /\ faults' \in Nat
  BY NodeAssumption DEF NodeInv, TypeOK
<1>2. faults' = 0 => faults = 0 /\ faults' = faults
  BY <1>1
<1>3. IsFiniteSet(performed')
  BY FS_AddElement DEF SpendInv
<1>4. ASSUME NEW d \in performed PROVE call'[d].op = call[d].op /\ call'[d].amount = call[d].amount
  BY <1>1
<1>5. ASSUME NEW op \in Spending
      PROVE  Charged(op) \subseteq Charged(op)' /\ (faults' = 0 => Charged(op)' = Charged(op))
  <2>1. ASSUME NEW d \in Charged(op) PROVE d \in Charged(op)'
    BY <1>1, <1>4, <2>1 DEF Charged, Executed
  <2>2. ASSUME faults' = 0, NEW d \in Charged(op)' PROVE d \in Charged(op)
    <3>1. d \in performed' /\ call'[d].op = op /\ call'[d].pc \notin {"executed", "addSpend"}
      BY DEF Charged, Executed
    <3>2. CASE d = c
      BY <1>1, <1>2, <2>2, <3>1, <3>2
    <3>3. CASE d # c
      BY <1>1, <3>1, <3>3 DEF Charged, Executed
    <3> QED BY <3>2, <3>3
  <2> QED BY <2>1, <2>2
<1>6. ASSUME NEW d \in Calls \ {c} PROVE AmountIsSound(d)'
  BY <1>1 DEF SpendInv, AmountIsSound, Encodes, Exceeds, rescale, CommonScale
<1> QED BY <1>2, <1>3, <1>4, <1>5, <1>6, TotalsStay

LEMMA RequestKeepsTotals ==
    ASSUME NodeInv, NodeInv', SpendInv, NEW c \in Calls, Request(c) PROVE SpendInv'
<1>1. c \notin performed
  BY FreshCallsAreNotExecuted DEF Request, Arrive
<1>2. ASSUME NEW session, NEW op, NEW amount, NEW address, NEW hash,
             op \in Spending => amount \in Requested,
             Arrive(c, session, op, amount, address, hash)
      PROVE  SpendInv'
  <2>1. PICK n : n = [by |-> session, op |-> op, amount |-> amount, address |-> address,
                      hash |-> hash, pc |-> "arrived", answer |-> "none"]
    OBVIOUS
  <2>2. /\ call' = [call EXCEPT ![c] = n] /\ n.op = op /\ n.amount = amount /\ n.pc = "arrived"
        /\ UNCHANGED <<ledger, performed, faults>>
    BY <1>2, <2>1 DEF Arrive
  <2>3. AmountIsSound(c)'
    BY <1>1, <1>2, <2>2 DEF AmountIsSound, NodeInv, TypeOK
  <2> QED BY <1>1, <2>2, <2>3, OneCallKeepsTotals DEF Charged, Executed
<1> QED BY <1>2 DEF Request, Spending

LEMMA DecideKeepsTotals ==
    ASSUME NodeInv, NodeInv', SpendInv, NEW c \in Calls, Decide(c) PROVE SpendInv'
<1>1. c \notin performed /\ call[c] \in Call /\ AmountIsSound(c)
  BY FreshCallsAreNotExecuted DEF Decide, NodeInv, TypeOK, SpendInv
<1>2. PICK n : n = IF Reason(c) = "none" THEN [call[c] EXCEPT !.pc = "forwarding"]
                   ELSE [call[c] EXCEPT !.pc = "replying", !.answer = Reason(c)]
  OBVIOUS
<1>3. /\ call' = [call EXCEPT ![c] = n] /\ n.op = call[c].op /\ n.amount = call[c].amount
      /\ n.pc = (IF Reason(c) = "none" THEN "forwarding" ELSE "replying")
      /\ UNCHANGED <<ledger, performed, faults>>
  BY <1>1, <1>2 DEF Decide, Goto, AnswerWith, Call
<1>4. call'[c] = n
  BY <1>3 DEF NodeInv, TypeOK
<1>5. Reason(c) = "none" /\ call[c].op \in Spending => ~Exceeds(call[c].amount, Cap[call[c].op])
  BY DEF Reason, Spending
<1>6. AmountIsSound(c)'
  BY <1>1, <1>3, <1>4, <1>5 DEF AmountIsSound, Exceeds, rescale, CommonScale
<1> QED BY <1>1, <1>3, <1>6, OneCallKeepsTotals DEF Charged, Executed

\* A call is turned away before its execution, or by a fault.
LEMMA RefusalKeepsTotals ==
    ASSUME NodeInv, NodeInv', SpendInv, NEW c \in Calls, NEW answer, AnswerWith(c, answer),
           UNCHANGED <<ledger, performed>>,
           \/ c \notin performed /\ UNCHANGED faults
           \/ faults' = faults + 1
           \/ call[c].op = "read" /\ UNCHANGED faults
    PROVE  SpendInv'
<1>1. call[c] \in Call /\ AmountIsSound(c) /\ faults \in Nat
  BY NodeAssumption DEF NodeInv, TypeOK, SpendInv
<1>2. PICK n : n = [call[c] EXCEPT !.pc = "replying", !.answer = answer]
  OBVIOUS
<1>3. /\ call' = [call EXCEPT ![c] = n] /\ n.op = call[c].op /\ n.amount = call[c].amount
      /\ n.pc = "replying"
  BY <1>1, <1>2 DEF AnswerWith, Call
<1>4. call'[c] = n
  BY <1>3 DEF NodeInv, TypeOK
<1>5. AmountIsSound(c)'
  BY <1>1, <1>3, <1>4 DEF AmountIsSound, Exceeds, Encodes, rescale, CommonScale
<1>6. faults' # faults \/ c \notin performed \/ n.op \notin Spending
  BY <1>1, <1>3 DEF Spending
<1> QED BY <1>1, <1>3, <1>5, <1>6, OneCallKeepsTotals DEF Charged, Executed

\* The node executes a call, which is not charged yet.
LEMMA ExecutionKeepsTotals ==
    ASSUME NodeInv, NodeInv', SpendInv, NEW c \in Calls, NEW op, Reaches(c, op), NEW n,
           call' = [call EXCEPT ![c] = n],
           n.op = call[c].op, n.amount = call[c].amount, n.pc = "executed",
           performed' = performed \cup {c}, UNCHANGED <<ledger, faults>>
    PROVE  SpendInv'
<1>1. c \notin performed /\ AmountIsSound(c) /\ call'[c] = n
  BY FreshCallsAreNotExecuted DEF Reaches, NodeInv, TypeOK, SpendInv
<1>2. AmountIsSound(c)'
  BY <1>1 DEF Reaches, AmountIsSound, Exceeds, Encodes, rescale, CommonScale
<1> QED BY <1>1, <1>2, OneCallKeepsTotals DEF Charged, Executed

LEMMA NewInvoiceKeepsTotals ==
    ASSUME NodeInv, NodeInv', SpendInv, NEW c \in Calls, NewInvoice(c) PROVE SpendInv'
<1>1. call[c] \in Call
  BY DEF NodeInv, TypeOK
<1>2. PICK address, hash :
        call' = [call EXCEPT ![c].pc = "executed", ![c].address = address, ![c].hash = hash]
  BY DEF NewInvoice
<1>3. PICK n : n = [call[c] EXCEPT !.pc = "executed", !.address = address, !.hash = hash]
  OBVIOUS
<1>4. call' = [call EXCEPT ![c] = n] /\ n.op = call[c].op /\ n.amount = call[c].amount
      /\ n.pc = "executed"
  BY <1>1, <1>2, <1>3 DEF Call
<1> QED BY <1>4, ExecutionKeepsTotals DEF NewInvoice

LEMMA SendPaymentKeepsTotals ==
    ASSUME NodeInv, NodeInv', SpendInv, NEW c \in Calls, SendPayment(c) PROVE SpendInv'
<1>1. call[c] \in Call
  BY DEF NodeInv, TypeOK
<1>2. PICK hash : call' = [call EXCEPT ![c].pc = "executed", ![c].hash = hash]
  BY DEF SendPayment
<1>3. PICK n : n = [call[c] EXCEPT !.pc = "executed", !.hash = hash]
  OBVIOUS
<1>4. call' = [call EXCEPT ![c] = n] /\ n.op = call[c].op /\ n.amount = call[c].amount
      /\ n.pc = "executed"
  BY <1>1, <1>2, <1>3 DEF Call
<1> QED BY <1>4, ExecutionKeepsTotals DEF SendPayment

LEMMA GetPaymentKeepsTotals ==
    ASSUME NodeInv, NodeInv', SpendInv, NEW c \in Calls, GetPayment(c) PROVE SpendInv'
<1>1. call[c] \in Call /\ call[c].op = "read"
  BY DEF NodeInv, TypeOK, GetPayment, Reaches
<1>2. CASE payments[call[c].hash] = NotPaid
  BY <1>1, <1>2, RefusalKeepsTotals DEF GetPayment
<1>3. CASE payments[call[c].hash] # NotPaid
  <2>1. PICK n : n = [call[c] EXCEPT !.pc = "executed"]
    OBVIOUS
  <2>2. call' = [call EXCEPT ![c] = n] /\ n.op = call[c].op /\ n.amount = call[c].amount
        /\ n.pc = "executed"
    BY <1>1, <1>3, <2>1 DEF GetPayment, Goto, Call
  <2> QED BY <1>3, <2>2, ExecutionKeepsTotals DEF GetPayment
<1> QED BY <1>2, <1>3

\* An executed call moves on; what it says of its own charge.
LEMMA GotoKeepsTotals ==
    ASSUME NodeInv, NodeInv', SpendInv, NEW c \in Calls, NEW n \in Call,
           call' = [call EXCEPT ![c] = n],
           n.op = call[c].op, n.amount = call[c].amount, n.pc # "forwarding",
           UNCHANGED <<ledger, performed>>, faults' \in {faults, faults + 1},
           \A op \in Spending : c \in Charged(op) => n.pc \notin {"executed", "addSpend"},
           \A op \in Spending : faults' = faults /\ c \in Executed(op)
             /\ n.pc \notin {"executed", "addSpend"} => c \in Charged(op)
    PROVE  SpendInv'
<1>1. AmountIsSound(c) /\ call'[c] = n
  BY DEF NodeInv, TypeOK, SpendInv
<1>2. AmountIsSound(c)'
  BY <1>1 DEF AmountIsSound, Exceeds, Encodes, rescale, CommonScale
<1> QED BY <1>2, OneCallKeepsTotals DEF Executed

LEMMA AnswerArrivesKeepsTotals ==
    ASSUME NodeInv, NodeInv', SpendInv, NEW c \in Calls, AnswerArrives(c) PROVE SpendInv'
<1>1. call[c] \in Call /\ call[c].pc = "executed" /\ c \notin Charged("pay") \cup Charged("create")
  BY DEF NodeInv, TypeOK, AnswerArrives, Charged
<1>2. CASE call[c].op = "read"
  BY <1>2, RefusalKeepsTotals DEF AnswerArrives
<1>3. CASE call[c].op # "read"
  <2>1. PICK n : n = [call[c] EXCEPT !.pc = "addSpend"]
    OBVIOUS
  <2>2. n \in Call /\ call' = [call EXCEPT ![c] = n] /\ n.op = call[c].op
        /\ n.amount = call[c].amount /\ n.pc = "addSpend"
    BY <1>1, <1>3, <2>1 DEF AnswerArrives, Goto, Call, Steps
  <2> QED BY <1>1, <2>2, GotoKeepsTotals DEF AnswerArrives, Spending
<1> QED BY <1>2, <1>3

LEMMA RecordOwnerKeepsTotals ==
    ASSUME NodeInv, NodeInv', SpendInv, NEW c \in Calls, RecordOwner(c) PROVE SpendInv'
<1>1. call[c] \in Call /\ call[c].pc = "recordOwner"
  BY DEF NodeInv, TypeOK, RecordOwner
<1>2. PICK n : n = [call[c] EXCEPT !.pc = "replying", !.answer = "forwarded"]
  OBVIOUS
<1>3. n \in Call /\ call' = [call EXCEPT ![c] = n] /\ n.op = call[c].op
      /\ n.amount = call[c].amount /\ n.pc = "replying"
  BY <1>1, <1>2 DEF RecordOwner, AnswerWith, Call, Steps, Answers
<1>4. \A op : c \in Executed(op) => c \in Charged(op)
  BY <1>1 DEF Charged
<1> QED BY <1>3, <1>4, GotoKeepsTotals DEF RecordOwner

LEMMA ReplyKeepsTotals ==
    ASSUME NodeInv, NodeInv', SpendInv, NEW c \in Calls, Reply(c) PROVE SpendInv'
<1>1. call[c] \in Call /\ call[c].pc = "replying"
  BY DEF NodeInv, TypeOK, Reply
<1>2. PICK n : n = [call[c] EXCEPT !.pc = "answered"]
  OBVIOUS
<1>3. n \in Call /\ call' = [call EXCEPT ![c] = n] /\ n.op = call[c].op
      /\ n.amount = call[c].amount /\ n.pc = "answered"
  BY <1>1, <1>2 DEF Reply, Goto, Call, Steps
<1>4. \A op : c \in Executed(op) => c \in Charged(op)
  BY <1>1 DEF Charged
<1> QED BY <1>3, <1>4, GotoKeepsTotals DEF Reply

LEMMA StorageFailsKeepsTotals ==
    ASSUME NodeInv, NodeInv', SpendInv, NEW c \in Calls, StorageFails(c) PROVE SpendInv'
<1>1. call[c] \in Call /\ faults' = faults + 1 /\ faults' # faults
  BY NodeAssumption DEF NodeInv, TypeOK, StorageFails, Fault
<1>2. PICK n : n = [call[c] EXCEPT !.pc = "failed"]
  OBVIOUS
<1>3. n \in Call /\ call' = [call EXCEPT ![c] = n] /\ n.op = call[c].op
      /\ n.amount = call[c].amount /\ n.pc = "failed"
  BY <1>1, <1>2 DEF StorageFails, Goto, Call, Steps
<1> QED BY <1>1, <1>3, GotoKeepsTotals DEF StorageFails

LEMMA CrashKeepsTotals ==
    ASSUME NodeInv, NodeInv', SpendInv, CrashAndRestart PROVE SpendInv'
<1>1. faults \in Nat /\ faults' = faults + 1 /\ UNCHANGED <<ledger, performed>>
      /\ performed \subseteq Calls
  BY NodeAssumption DEF NodeInv, TypeOK, CrashAndRestart, Fault
<1>2. ASSUME NEW c \in Calls
      PROVE  /\ call'[c].op = call[c].op /\ call'[c].amount = call[c].amount
             /\ call'[c].pc \in {call[c].pc, "crashed"}
  <2>1. call[c] \in Call
    BY DEF NodeInv, TypeOK
  <2>2. CASE c \in InFlight
    <3>1. call'[c] = [call[c] EXCEPT !.pc = "crashed"]
      BY <2>2 DEF CrashAndRestart
    <3> QED BY <2>1, <3>1 DEF Call
  <2>3. CASE c \notin InFlight
    BY <2>1, <2>3 DEF CrashAndRestart
  <2> QED BY <2>2, <2>3
<1>3. ASSUME NEW c \in Calls PROVE AmountIsSound(c)'
  BY <1>1, <1>2 DEF SpendInv, AmountIsSound, Exceeds, Encodes, rescale, CommonScale
<1>4. ASSUME NEW op \in Spending PROVE Charged(op) \subseteq Charged(op)'
  BY <1>1, <1>2 DEF Charged, Executed
<1>5. IsFiniteSet(performed') /\ faults' # 0
      /\ (\A c \in performed : call'[c].op = call[c].op /\ call'[c].amount = call[c].amount)
  BY <1>1, <1>2 DEF SpendInv
<1> QED BY <1>1, <1>3, <1>4, <1>5, TotalsStay

\* The one step that writes a total, and charges the call in the same step.
LEMMA AddSpendKeepsTotals ==
    ASSUME NodeInv, NodeInv', SpendInv, NEW c \in Calls, AddSpend(c) PROVE SpendInv'
<1> DEFINE mine == call[c].op
<1>1. call[c] \in Call /\ c \in performed /\ mine \in Spending /\ call[c].pc = "addSpend"
  BY DEF NodeInv, TypeOK, CallsAreSound, CallIsSound, AddSpend
<1>2. PICK n : n = [call[c] EXCEPT !.pc = "recordOwner"]
  OBVIOUS
<1>3. /\ call' = [call EXCEPT ![c] = n] /\ n.op = mine /\ n.amount = call[c].amount
      /\ n.pc = "recordOwner" /\ UNCHANGED <<performed, faults>>
      /\ ledger' = [ledger EXCEPT ![mine] = addAmounts(ledger[mine], call[c].amount)]
  BY <1>1, <1>2 DEF AddSpend, Goto, Call
<1>4. call'[c] = n /\ (\A d \in Calls \ {c} : call'[d] = call[d]) /\ performed \subseteq Calls
  BY <1>3 DEF NodeInv, TypeOK
<1>5. call[c].amount \in WithDigits(Decimals) /\ BaseUnits(c) \in Nat /\ Decimals \in Nat
  BY <1>1, SentAmounts, LimitsAssumption, DigitsAssumption
<1>6. ledger \in [Spending -> WithDigits(Decimals)]
  BY DEF SpendInv
<1>7. /\ ledger'[mine] \in WithDigits(Decimals)
      /\ toBaseUnits(ledger'[mine], Decimals) = toBaseUnits(ledger[mine], Decimals) + BaseUnits(c)
  BY <1>1, <1>3, <1>5, <1>6, AdditionIsExact DEF toBaseUnits, BaseUnits
<1>8. ledger' \in [Spending -> WithDigits(Decimals)] /\ IsFiniteSet(performed')
  BY <1>3, <1>6, <1>7 DEF SpendInv
<1>9. ASSUME NEW d \in Calls PROVE AmountIsSound(d)'
  BY <1>1, <1>3, <1>4 DEF SpendInv, AmountIsSound, Encodes, Exceeds, rescale, CommonScale
<1>10. ASSUME NEW op \in Spending PROVE LedgerFollows(op)'
  <2> DEFINE R == Charged(op)
             S == Charged(op)'
             f == [d \in R |-> BaseUnits(d)]
             g == [d \in S |-> BaseUnits(d)']
             total == toBaseUnits(ledger[op], Decimals)
             totalAfter == toBaseUnits(ledger'[op], Decimals)
  <2>1. IsFiniteSet(R) /\ R \subseteq performed
    BY FS_Subset DEF Charged, Executed, SpendInv
  <2>2. ASSUME NEW d \in S PROVE g[d] = BaseUnits(d) /\ g[d] \in Nat
    <3>1. d \in performed /\ d \in Calls /\ call'[d].op \in Spending
          /\ call'[d].amount = call[d].amount /\ call'[d].op = call[d].op
      BY <1>3, <1>4 DEF Charged, Executed
    <3>2. BaseUnits(d)' = BaseUnits(d)
      BY <3>1 DEF BaseUnits, toBaseUnits, rescale
    <3> QED BY <2>2, <3>1, <3>2, SentAmounts
  <2>3. /\ LedgerFollows(op) <=> /\ total <= SumFunctionOnSet(f, R)
                                 /\ faults = 0 => total = SumFunctionOnSet(f, R)
        /\ LedgerFollows(op)' <=> /\ totalAfter <= SumFunctionOnSet(g, S)
                                  /\ faults' = 0 => totalAfter = SumFunctionOnSet(g, S)
    BY DEF LedgerFollows, BaseUnitsOf, toBaseUnits, rescale
  <2>4. LedgerFollows(op) /\ faults' = faults
    BY <1>3 DEF SpendInv
  <2>5. total \in Nat
    BY <1>5, <1>6, RescalingTwice DEF toBaseUnits
  <2>6. CASE op = mine
    <3>1. S = R \cup {c} /\ c \notin R
      BY <1>1, <1>3, <1>4, <2>6 DEF Charged, Executed
    <3>2. \A d \in R : f[d] = g[d] /\ g[d] \in Nat
      BY <2>2, <3>1
    <3>3. g[c] = BaseUnits(c) /\ g[c] \in Nat
      BY <2>2, <3>1
    <3>4. totalAfter = total + BaseUnits(c)
      BY <1>7, <2>6
    <3> HIDE DEF R, S, f, g, total, totalAfter
    <3>5. SumFunctionOnSet(f, R) = SumFunctionOnSet(g, R) /\ SumFunctionOnSet(g, R) \in Nat
      BY <2>1, <3>2, SumOfEqual, SumType
    <3>6. SumFunctionOnSet(g, S) = g[c] + SumFunctionOnSet(g, R)
      BY <2>1, <3>1, <3>2, <3>3, SumWith
    <3> QED BY <1>5, <2>3, <2>4, <2>5, <3>3, <3>4, <3>5, <3>6
  <2>7. CASE op # mine
    <3>1. S = R
      BY <1>3, <1>4, <2>7 DEF Charged, Executed
    <3>2. \A d \in R : f[d] = g[d]
      BY <2>2, <3>1
    <3>3. totalAfter = total
      BY <1>3, <1>6, <2>7
    <3> HIDE DEF R, S, f, g, total, totalAfter
    <3>4. SumFunctionOnSet(f, R) = SumFunctionOnSet(g, R)
      BY <2>1, <3>2, SumOfEqual
    <3> QED BY <2>3, <2>4, <3>1, <3>3, <3>4
  <2> QED BY <2>6, <2>7
<1> QED BY <1>8, <1>9, <1>10 DEF SpendInv

LEMMA InitKeepsTotals == Init => SpendInv
<1> SUFFICES ASSUME Init PROVE SpendInv
  OBVIOUS
<1>1. IsFiniteSet(performed)
  BY FS_EmptySet DEF Init
<1>2. Decimals \in Nat
  BY LimitsAssumption, DigitsAssumption
<1>3. ledger \in [Spending -> WithDigits(Decimals)]
  BY <1>2 DEF Init, Zero, WithDigits
<1>4. \A c \in Calls : AmountIsSound(c)
  BY DEF Init, AmountIsSound, Spending
<1>5. ASSUME NEW op \in Spending PROVE LedgerFollows(op)
  <2>1. Charged(op) = {}
    BY DEF Init, Charged, Executed
  <2>2. BaseUnitsOf(Charged(op)) = 0
    BY <2>1, SumOfNone DEF BaseUnitsOf
  <2>3. toBaseUnits(ledger[op], Decimals) = 0
    <3>1. Decimals - 0 = Decimals /\ TenTo[Decimals] \in Nat
      BY <1>2, PowersOfTen
    <3> QED BY <3>1 DEF Init, toBaseUnits, rescale, Zero
  <2> QED BY <2>2, <2>3 DEF LedgerFollows
<1> QED BY <1>1, <1>3, <1>4, <1>5 DEF SpendInv

LEMMA StepsKeepTotals == NodeInv /\ SpendInv /\ [Next]_vars => SpendInv'
<1> SUFFICES ASSUME NodeInv, SpendInv, [Next]_vars PROVE SpendInv'
  OBVIOUS
<1>1. NodeInv'
  BY StepsKeep
<1>2. ASSUME NEW c \in Calls,
             \/ Request(c) \/ Decide(c) \/ AmountDoesNotEncode(c)
             \/ NewInvoice(c) \/ SendPayment(c) \/ GetPayment(c)
             \/ AnswerArrives(c) \/ UpstreamFails(c)
             \/ AddSpend(c) \/ RecordOwner(c) \/ StorageFails(c) \/ Reply(c)
      PROVE  SpendInv'
  <2>1. ASSUME AmountDoesNotEncode(c) PROVE SpendInv'
    BY <1>1, <2>1, FreshCallsAreNotExecuted, RefusalKeepsTotals DEF AmountDoesNotEncode
  <2>2. ASSUME UpstreamFails(c) PROVE SpendInv'
    BY <1>1, <2>2, RefusalKeepsTotals DEF UpstreamFails, Fault
  <2> QED BY <1>1, <1>2, <2>1, <2>2, RequestKeepsTotals, DecideKeepsTotals, NewInvoiceKeepsTotals,
             SendPaymentKeepsTotals, GetPaymentKeepsTotals, AnswerArrivesKeepsTotals,
             AddSpendKeepsTotals, RecordOwnerKeepsTotals, StorageFailsKeepsTotals, ReplyKeepsTotals
<1>3. CASE CrashAndRestart
  BY <1>1, <1>3, CrashKeepsTotals
<1>4. CASE UNCHANGED vars
  <2>1. \A op : Charged(op)' = Charged(op)
    BY <1>4 DEF vars, Charged, Executed
  <2>2. \A c \in Calls : AmountIsSound(c)'
    BY <1>4 DEF vars, SpendInv, AmountIsSound, Exceeds, Encodes, rescale, CommonScale
  <2> QED BY <1>1, <1>4, <2>1, <2>2, TotalsStay DEF vars, SpendInv
<1> QED BY <1>2, <1>3, <1>4 DEF Next

-----------------------------------------------------------------------------
(* Theorems about the amounts *)

\* Every executed call passed the decision and the client with the amount it
\* has, and every total is one the charged calls account for.
THEOREM SpendInvariant == Spec => []SpendInv
<1>1. Init => NodeInv /\ SpendInv
  BY InitIsSound, InitKeepsTotals
<1>2. (NodeInv /\ SpendInv) /\ [Next]_vars => (NodeInv /\ SpendInv)'
  BY StepsKeep, StepsKeepTotals
<1> QED BY <1>1, <1>2, PTL DEF Spec

\* The decimal totals of the ledger never gain or lose a base unit, whatever
\* the scales of the amounts and however the calls interleave.
THEOREM LedgerCountsBaseUnits == Spec => []LedgerIsExact
<1>1. SpendInv => LedgerIsExact
  <2> SUFFICES ASSUME SpendInv, NEW op \in Spending
               PROVE  ledger[op].scale <= Decimals /\ LedgerFollows(op)
    BY DEF LedgerIsExact
  <2>1. ledger[op] \in WithDigits(Decimals) /\ Decimals \in Nat
    BY LimitsAssumption, DigitsAssumption DEF SpendInv
  <2> QED BY <2>1 DEF SpendInv, WithDigits
<1> QED BY <1>1, SpendInvariant, PTL

\* What the node is sent for one call is within the cap, in base units, also
\* when the cap has more digits than the asset.
THEOREM NodeNeverGetsMoreThanTheCap == Spec => []CapHoldsInBaseUnits
<1>1. NodeInv /\ SpendInv => CapHoldsInBaseUnits
  <2> SUFFICES ASSUME NodeInv, SpendInv, NEW op \in Spending, NEW c \in Executed(op)
               PROVE  BaseUnits(c) * TenTo[Cap[op].scale] <= Cap[op].units * TenTo[Decimals]
    BY DEF CapHoldsInBaseUnits
  <2> DEFINE a == call[c].amount
             b == Cap[op]
             M == MaxFractionalDigits
             t == TenTo[Decimals - a.scale]
  <2>1. c \in performed /\ c \in Calls /\ call[c].op = op
    BY DEF Executed, NodeInv, TypeOK
  <2>2. a \in WithDigits(Decimals) /\ ~Exceeds(a, b)
    BY <2>1, SentAmounts DEF SpendInv, AmountIsSound
  <2>3. M \in Nat /\ Decimals \in 0..M /\ b \in WithDigits(M) /\ a \in WithDigits(M)
    BY <2>2, LimitsAssumption, DigitsAssumption DEF DecimalAmounts, WithDigits, Spending
  <2> HIDE DEF a, b, M
  <2>4. /\ a.units \in Nat /\ b.units \in Nat /\ a.scale \in Nat /\ b.scale \in Nat
        /\ Decimals - a.scale \in Nat /\ Decimals = a.scale + (Decimals - a.scale)
    BY <2>2, <2>3 DEF WithDigits
  <2>5. t \in Nat /\ t >= 1 /\ TenTo[a.scale] \in Nat /\ TenTo[b.scale] \in Nat
    BY <2>4, PowersOfTen
  <2>6. TenTo[Decimals] = TenTo[a.scale] * t
    BY <2>4, TenToOfSum
  <2>7. BaseUnits(c) = a.units * t
    BY DEF BaseUnits, toBaseUnits, rescale, a
  <2> HIDE DEF t
  <2> DEFINE x == a.units * TenTo[b.scale]
             y == b.units * TenTo[a.scale]
  <2>8. ~(x > y) /\ x \in Nat /\ y \in Nat
    BY <2>2, <2>3, <2>4, <2>5, ComparisonIsExact, Products
  <2>9. BaseUnits(c) * TenTo[b.scale] = x * t /\ b.units * TenTo[Decimals] = y * t
    <3>1. /\ (a.units * t) * TenTo[b.scale] = a.units * (t * TenTo[b.scale])
          /\ t * TenTo[b.scale] = TenTo[b.scale] * t
          /\ a.units * (TenTo[b.scale] * t) = (a.units * TenTo[b.scale]) * t
      BY <2>4, <2>5, Products
    <3>2. b.units * (TenTo[a.scale] * t) = (b.units * TenTo[a.scale]) * t
      BY <2>4, <2>5, Products
    <3> QED BY <2>6, <2>7, <3>1, <3>2
  <2> HIDE DEF x, y
  <2>10. ~(x * t > y * t) /\ x * t \in Nat /\ y * t \in Nat
    BY <2>5, <2>8, FactorKeepsOrder, Products
  <2> QED BY <2>9, <2>10 DEF b
<1> QED BY <1>1, SpendInvariant, NodeInvariant, PTL
=============================================================================
