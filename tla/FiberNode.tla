----------------------------- MODULE FiberNode -----------------------------
(***************************************************************************)
(* Invoices and payments from one session to another through the gateway:  *)
(* the client of the Fiber RPC (packages/gateway/src/upstream/fiber.ts),   *)
(* the node as packages/fiber-mock has it, the ledger and the ownership    *)
(* index, with amounts digit by digit (module Amounts).                    *)
(*                                                                         *)
(* A merchant's session creates invoices, an agent's session pays them,    *)
(* both read the state of payments.  What else the policy decides, and     *)
(* sessions that end, is module IntentPipeline's subject.                  *)
(***************************************************************************)
EXTENDS Amounts, FiniteSets, Functions

CONSTANTS
    Calls,
    Merchant, Payer, NoSession,
    Addresses,        \* invoices the node can mint
    ForeignInvoice,   \* an invoice the node has not minted
    NoAddress,
    Hashes, NoHash,
    Requested,        \* amounts the apps send
    Cap, DailyLimit,  \* of each spending action: max_amount_per_*, daily_limit
    Decimals,         \* of the asset
    MaxInFlight,      \* bound: calls in flight
    MaxFaults         \* bound: lost answers, refusals, failing files, crashes

ASSUME RequestsAssumption == \A a \in Requested : a \in DecimalAmounts /\ Valid(a) /\ ~IsZero(a)

\* The policy's amounts and decimals are those parsePolicy accepts.
ASSUME LimitsAssumption ==
    /\ Decimals \in 0..MaxFractionalDigits
    /\ Cap \in [{"pay", "create"} -> DecimalAmounts]
    /\ DailyLimit \in [{"pay", "create"} -> DecimalAmounts]

ASSUME NodeAssumption ==
    /\ Merchant # Payer /\ NoSession \notin {Merchant, Payer}
    /\ ForeignInvoice \notin Addresses /\ NoAddress \notin Addresses \cup {ForeignInvoice}
    /\ NoHash \notin Hashes
    /\ MaxFaults \in Nat

VARIABLES
    invoices,    \* the node's invoices, by address
    payments,    \* paymentsByHash: the amount settled under a hash
    ledger,      \* today's total of each spending action, as a decimal amount
    owner,       \* payment-ownership.json
    call,        \* the calls, with what each caller learns
    told,        \* invoice addresses the merchant got and passed on
    performed,   \* calls the node has executed
    faults

node == <<invoices, payments>>
vars == <<node, ledger, owner, call, told, performed, faults>>

-----------------------------------------------------------------------------
Sessions == {Merchant, Payer}
Spending == {"pay", "create"}

NotPaid == -1

Steps == {"idle", "arrived", "forwarding", "executed", "addSpend", "recordOwner", "replying",
          "answered", "failed", "crashed"}

Answers == {"none", "forwarded", "allowed", "AMOUNT_EXCEEDS_SESSION_LIMIT",
            "AMOUNT_EXCEEDS_DAILY_LIMIT", "PAYMENT_NOT_OWNED_BY_SESSION",
            "INVALID_REQUEST", "UPSTREAM_FIBER_ERROR"}

Invoice == [hash : Hashes \cup {NoHash}, amount : 0..MaxBaseUnits,
            status : {"none", "Open", "Paid"}]

Call == [by : Sessions \cup {NoSession}, op : Spending \cup {"read", "none"},
         amount : Requested \cup {Zero},
         address : Addresses \cup {ForeignInvoice, NoAddress}, hash : Hashes \cup {NoHash},
         pc : Steps, answer : Answers]

\* What the ledger holds is LedgerIsExact's subject.
TypeOK ==
    /\ invoices \in [Addresses -> Invoice]
    /\ payments \in [Hashes -> {NotPaid} \cup 0..MaxBaseUnits]
    /\ owner \in [Hashes -> Sessions \cup {NoSession}]
    /\ call \in [Calls -> Call]
    /\ told \subseteq Addresses
    /\ performed \subseteq Calls
    /\ faults \in 0..MaxFaults

Init ==
    /\ invoices = [a \in Addresses |-> [hash |-> NoHash, amount |-> 0, status |-> "none"]]
    /\ payments = [h \in Hashes |-> NotPaid]
    /\ ledger = [op \in Spending |-> Zero]
    /\ owner = [h \in Hashes |-> NoSession]
    /\ call = [c \in Calls |-> [by |-> NoSession, op |-> "none", amount |-> Zero,
                                address |-> NoAddress, hash |-> NoHash,
                                pc |-> "idle", answer |-> "none"]]
    /\ told = {}
    /\ performed = {}
    /\ faults = 0

InFlight == {c \in Calls : call[c].pc \notin {"idle", "answered", "failed", "crashed"}}

Goto(c, step) == call' = [call EXCEPT ![c].pc = step]

AnswerWith(c, answer) == call' = [call EXCEPT ![c].pc = "replying", ![c].answer = answer]

-----------------------------------------------------------------------------
(* The calls and their decision *)

\* What the hashes in the answers and the invoices make known.
UsedHashes == {invoices[a].hash : a \in Addresses} \cup {h \in Hashes : payments[h] # NotPaid}

Arrive(c, session, op, amount, address, hash) ==
    /\ call[c].pc = "idle"
    /\ Cardinality(InFlight) < MaxInFlight
    /\ call' = [call EXCEPT ![c] =
         [by |-> session, op |-> op, amount |-> amount, address |-> address, hash |-> hash,
          pc |-> "arrived", answer |-> "none"]]
    /\ UNCHANGED <<node, ledger, owner, told, performed, faults>>

\* An app asks for an invoice, pays one it was given or came across, or reads
\* a payment.
Request(c) ==
    \/ \E amount \in Requested : Arrive(c, Merchant, "create", amount, NoAddress, NoHash)
    \/ \E amount \in Requested, address \in told \cup {ForeignInvoice} :
         Arrive(c, Payer, "pay", amount, address, NoHash)
    \/ \E session \in Sessions, hash \in UsedHashes \ {NoHash} :
         Arrive(c, session, "read", Zero, NoAddress, hash)

\* evaluateIntent as far as amounts and ownership go.
Reason(c) ==
    IF call[c].op = "read"
      THEN IF owner[call[c].hash] # call[c].by THEN "PAYMENT_NOT_OWNED_BY_SESSION" ELSE "none"
      ELSE IF Exceeds(call[c].amount, Cap[call[c].op]) THEN "AMOUNT_EXCEEDS_SESSION_LIMIT"
      ELSE IF Exceeds(addAmounts(ledger[call[c].op], call[c].amount), DailyLimit[call[c].op])
        THEN "AMOUNT_EXCEEDS_DAILY_LIMIT"
      ELSE "none"

Decide(c) ==
    /\ call[c].pc = "arrived"
    /\ IF Reason(c) = "none" THEN Goto(c, "forwarding") ELSE AnswerWith(c, Reason(c))
    /\ UNCHANGED <<node, ledger, owner, told, performed, faults>>

-----------------------------------------------------------------------------
(* The RPC *)

BaseUnits(c) == toBaseUnits(call[c].amount, Decimals)

AmountDoesNotEncode(c) ==
    /\ call[c].pc = "forwarding"
    /\ call[c].op \in Spending
    /\ ~Encodes(call[c].amount, Decimals)
    /\ AnswerWith(c, "INVALID_REQUEST")
    /\ UNCHANGED <<node, ledger, owner, told, performed, faults>>

Reaches(c, op) ==
    /\ call[c].pc = "forwarding"
    /\ call[c].op = op
    /\ op \in Spending => Encodes(call[c].amount, Decimals)

\* Addresses and hashes are random: which of the free ones does not matter.
Fresh(ids) == IF ids = {} THEN {} ELSE {CHOOSE id \in ids : TRUE}
FreshHash  == Fresh(Hashes \ UsedHashes)

\* new_invoice
NewInvoice(c) ==
    /\ Reaches(c, "create")
    /\ \E address \in Fresh({a \in Addresses : invoices[a].status = "none"}), hash \in FreshHash :
         /\ invoices' = [invoices EXCEPT ![address] =
              [hash |-> hash, amount |-> BaseUnits(c), status |-> "Open"]]
         /\ call' = [call EXCEPT ![c].pc = "executed", ![c].address = address, ![c].hash = hash]
    /\ performed' = performed \cup {c}
    /\ UNCHANGED <<payments, ledger, owner, told, faults>>

\* Mutant: every payment gets a hash of its own.
SendPayment_OwnHash(c) ==
    /\ Reaches(c, "pay")
    /\ \E hash \in FreshHash :
         /\ payments' = [payments EXCEPT ![hash] = BaseUnits(c)]
         /\ call' = [call EXCEPT ![c].pc = "executed", ![c].hash = hash]
    /\ invoices' = [a \in Addresses |->
         IF a = call[c].address THEN [invoices[a] EXCEPT !.status = "Paid"] ELSE invoices[a]]
    /\ performed' = performed \cup {c}
    /\ UNCHANGED <<ledger, owner, told, faults>>

\* send_payment: a known invoice is settled under its own hash, any other one
\* under a new hash; the amount is the one that was sent.
SendPayment(c) ==
    /\ Reaches(c, "pay")
    /\ \E hash \in IF call[c].address \in Addresses
                     THEN {invoices[call[c].address].hash} ELSE FreshHash :
         /\ payments' = [payments EXCEPT ![hash] = BaseUnits(c)]
         /\ call' = [call EXCEPT ![c].pc = "executed", ![c].hash = hash]
    /\ invoices' = [a \in Addresses |->
         IF a = call[c].address THEN [invoices[a] EXCEPT !.status = "Paid"] ELSE invoices[a]]
    /\ performed' = performed \cup {c}
    /\ UNCHANGED <<ledger, owner, told, faults>>

\* get_payment: a payment, or an error while the invoice is not paid.
GetPayment(c) ==
    /\ Reaches(c, "read")
    /\ IF payments[call[c].hash] = NotPaid
         THEN AnswerWith(c, "UPSTREAM_FIBER_ERROR") /\ UNCHANGED performed
         ELSE Goto(c, "executed") /\ performed' = performed \cup {c}
    /\ UNCHANGED <<node, ledger, owner, told, faults>>

Fault == faults < MaxFaults /\ faults' = faults + 1

\* The node is down (nothing was executed), or its answer is lost.
UpstreamFails(c) ==
    /\ Fault
    /\ call[c].pc \in {"forwarding", "executed"}
    /\ AnswerWith(c, "UPSTREAM_FIBER_ERROR")
    /\ UNCHANGED <<node, ledger, owner, told, performed>>

AnswerArrives(c) ==
    /\ call[c].pc = "executed"
    /\ IF call[c].op = "read" THEN AnswerWith(c, "allowed") ELSE Goto(c, "addSpend")
    /\ UNCHANGED <<node, ledger, owner, told, performed, faults>>

-----------------------------------------------------------------------------
(* Bookkeeping and the reply *)

\* Mutant: the reply does not wait for the ownership index.
AddSpend_RepliesFirst(c) ==
    /\ call[c].pc = "addSpend"
    /\ ledger' = [ledger EXCEPT ![call[c].op] = addAmounts(@, call[c].amount)]
    /\ AnswerWith(c, "forwarded")
    /\ UNCHANGED <<node, owner, told, performed, faults>>

AddSpend(c) ==
    /\ call[c].pc = "addSpend"
    /\ ledger' = [ledger EXCEPT ![call[c].op] = addAmounts(@, call[c].amount)]
    /\ Goto(c, "recordOwner")
    /\ UNCHANGED <<node, owner, told, performed, faults>>

\* Mutant: the last writer wins.
RecordOwner_LastWriter(c) ==
    /\ call[c].pc = "recordOwner"
    /\ owner' = [owner EXCEPT ![call[c].hash] = call[c].by]
    /\ AnswerWith(c, "forwarded")
    /\ UNCHANGED <<node, ledger, told, performed, faults>>

\* First writer wins.
RecordOwner(c) ==
    /\ call[c].pc = "recordOwner"
    /\ owner' = [owner EXCEPT ![call[c].hash] = IF @ = NoSession THEN call[c].by ELSE @]
    /\ AnswerWith(c, "forwarded")
    /\ UNCHANGED <<node, ledger, told, performed, faults>>

\* The reply leaves; the merchant passes the invoice on.
Reply(c) ==
    /\ call[c].pc = "replying"
    /\ Goto(c, "answered")
    /\ told' = IF call[c].op = "create" /\ call[c].answer = "forwarded"
                 THEN told \cup {call[c].address} ELSE told
    /\ UNCHANGED <<node, ledger, owner, performed, faults>>

\* A store rejects: an internal error without an answer to the intent.
StorageFails(c) ==
    /\ Fault
    /\ call[c].pc \in {"addSpend", "recordOwner"}
    /\ Goto(c, "failed")
    /\ UNCHANGED <<node, ledger, owner, told, performed>>

\* The gateway dies and starts again; the node goes on.
CrashAndRestart ==
    /\ Fault
    /\ call' = [c \in Calls |-> IF c \in InFlight THEN [call[c] EXCEPT !.pc = "crashed"] ELSE call[c]]
    /\ UNCHANGED <<node, ledger, owner, told, performed>>

-----------------------------------------------------------------------------
Next ==
    \/ \E c \in Calls :
         \/ Request(c) \/ Decide(c)
         \/ AmountDoesNotEncode(c)
         \/ NewInvoice(c) \/ SendPayment(c) \/ GetPayment(c)
         \/ AnswerArrives(c) \/ UpstreamFails(c)
         \/ AddSpend(c) \/ RecordOwner(c) \/ StorageFails(c)
         \/ Reply(c)
    \/ CrashAndRestart

Spec == Init /\ [][Next]_vars

-----------------------------------------------------------------------------
Executed(op) == {c \in performed : call[c].op = op}

\* The calls that are past addSpend, one way or another.
Charged(op) == {c \in Executed(op) : call[c].pc \notin {"executed", "addSpend"}}

BaseUnitsOf(calls) == SumFunctionOnSet([c \in calls |-> BaseUnits(c)], calls)

LedgerFollows(op) ==
    /\ toBaseUnits(ledger[op], Decimals) <= BaseUnitsOf(Charged(op))
    /\ faults = 0 => toBaseUnits(ledger[op], Decimals) = BaseUnitsOf(Charged(op))

\* The decimal total of the ledger, converted, is the sum of the base units
\* the node was sent for the calls that were charged: no digit is lost or
\* added, whatever the scales of the amounts.  A fault can only make the total
\* fall behind.  A total that has grown too long to parse makes evaluateIntent
\* and addSpend throw, which is left to module IntentPipeline.
LedgerIsExact ==
    \A op \in Spending :
      ledger[op].scale <= Decimals /\ (Valid(ledger[op]) => LedgerFollows(op))

\* What the node was sent for one call never exceeds the cap, both taken in
\* units that are fine enough for both: the cap may have more digits than the
\* asset.
CapHoldsInBaseUnits ==
    \A op \in Spending : \A c \in Executed(op) :
      BaseUnits(c) * TenTo[Cap[op].scale] <= Cap[op].units * TenTo[Decimals]

\* An invoice that has left the gateway belongs to the session that created
\* it, for good: whoever pays it, and whatever fails, its creator can read
\* the payment and the payer cannot.
HandedOutInvoiceIsOwned == \A a \in told : owner[invoices[a].hash] = Merchant

\* A caller that is told of a success is told of a payment that was settled:
\* under the hash of the invoice it paid, which then is Paid, and owned by the
\* caller unless the invoice was somebody else's.
SuccessIsSettled ==
    \A c \in Calls :
      /\ call[c].answer = "forwarded" /\ call[c].op = "pay" =>
           /\ payments[call[c].hash] # NotPaid
           /\ IF call[c].address \in Addresses
                THEN invoices[call[c].address].hash = call[c].hash
                     /\ invoices[call[c].address].status = "Paid"
                ELSE owner[call[c].hash] = Payer
      /\ call[c].answer = "allowed" =>
           \E d \in Executed("pay") : /\ call[d].hash = call[c].hash
                                      /\ call[c].by = Merchant => call[d].address \in told

-----------------------------------------------------------------------------
(* The invariant behind the two *)

Minted(a) == invoices[a].status # "none"

IsInvoiceHash(h) == \E a \in Addresses : invoices[a].hash = h

\* What the merchant passes on exists; an invoice has a hash once it does.
InvoicesAreSound ==
    /\ \A a \in Addresses : Minted(a) <=> invoices[a].hash # NoHash
    /\ \A a \in told : Minted(a)

\* Who sends what, and what a call may rely on at each of its steps.
CallIsSound(c) ==
    /\ call[c].op = "create" => call[c].by = Merchant
    /\ call[c].op = "pay" => call[c].by = Payer /\ call[c].address \in told \cup {ForeignInvoice}
    /\ call[c].op = "read" => call[c].by \in Sessions /\ call[c].hash \in Hashes
    /\ call[c].pc \in {"executed", "addSpend", "recordOwner"} => c \in performed
    /\ call[c].pc \in {"addSpend", "recordOwner"} => call[c].op \in Spending
    /\ call[c].pc = "forwarding" /\ call[c].op = "read" => owner[call[c].hash] = call[c].by
    /\ call[c].answer = "forwarded" =>
         c \in performed /\ call[c].op \in Spending /\ owner[call[c].hash] # NoSession
    /\ call[c].answer = "allowed" => c \in performed /\ call[c].op = "read"

\* A call the node has executed left its mark there.
ExecutionIsSound(c) ==
    /\ call[c].pc \notin {"idle", "arrived", "forwarding"} /\ call[c].op # "none"
    /\ call[c].op = "create" =>
         /\ call[c].address \in Addresses
         /\ call[c].hash \in Hashes
         /\ invoices[call[c].address].hash = call[c].hash
    /\ call[c].op = "pay" =>
         /\ call[c].hash \in Hashes
         /\ payments[call[c].hash] # NotPaid
         /\ IF call[c].address \in Addresses
              THEN invoices[call[c].address].hash = call[c].hash
                   /\ invoices[call[c].address].status = "Paid"
              ELSE ~IsInvoiceHash(call[c].hash)
    /\ call[c].op = "read" =>
         payments[call[c].hash] # NotPaid /\ owner[call[c].hash] = call[c].by

CallsAreSound ==
    /\ \A c \in Calls : CallIsSound(c)
    /\ \A c \in performed : ExecutionIsSound(c)

\* A settled payment is one that a session sent.
PaymentsAreMade ==
    \A h \in Hashes : payments[h] # NotPaid => \E d \in Executed("pay") : call[d].hash = h

\* The merchant owns invoices, the payer only payments of foreign ones.
OwnersAreRightful ==
    \A h \in Hashes :
      /\ owner[h] = Merchant => IsInvoiceHash(h)
      /\ owner[h] = Payer => payments[h] # NotPaid /\ ~IsInvoiceHash(h)

NodeInv ==
    /\ TypeOK
    /\ InvoicesAreSound
    /\ CallsAreSound
    /\ PaymentsAreMade
    /\ OwnersAreRightful
    /\ HandedOutInvoiceIsOwned

(* and the one behind the amounts *)

\* What the decision and the client have made sure of by the time a call is
\* where it is.
AmountIsSound(c) ==
    call[c].op \in Spending =>
      /\ call[c].amount \in Requested
      /\ call[c].pc = "forwarding" \/ c \in performed =>
           ~Exceeds(call[c].amount, Cap[call[c].op])
      /\ c \in performed => Encodes(call[c].amount, Decimals)

SpendInv ==
    /\ IsFiniteSet(performed)
    /\ ledger \in [Spending -> WithDigits(Decimals)]
    /\ \A c \in Calls : AmountIsSound(c)
    /\ \A op \in Spending : LedgerFollows(op)
=============================================================================
