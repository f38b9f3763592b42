-------------------------- MODULE MCIntentPipeline --------------------------
(* Small instances of the decision pipeline for TLC. *)
EXTENDS IntentPipeline, TLC

CONSTANTS
    s1,         \* a session approved until it expires
    s2,         \* a one-shot session of the same app
    h1, h2      \* payment hashes

Permission(action, asset, payment, invoice, daily) ==
    [action |-> action, asset |-> asset, maxPerPayment |-> payment,
     maxPerInvoice |-> invoice, dailyLimit |-> daily]

Granted ==
    {Permission("payment.pay_invoice", "RUSD", Undefined, Undefined, 3),
     Permission("invoice.create", "RUSD", Undefined, Undefined, Undefined),
     Permission("payment.read_own", Undefined, Undefined, Undefined, Undefined)}

SessionTerms(type, lifetime, permissions) ==
    [app |-> "agent", origin |-> "http://agent", approvalType |-> type,
     lifetime |-> lifetime, permissions |-> permissions]

\* Both expire one tick after they are opened.
MCTerms == s1 :> SessionTerms("session", 1, Granted) @@ s2 :> SessionTerms("once", 1, Granted)

Pay(s, amount) ==
    [app |-> "agent", origin |-> "http://agent", session |-> s,
     action |-> "payment.pay_invoice", asset |-> "RUSD", amount |-> amount, hash |-> NoHash]

Invoice(s, amount) == [Pay(s, amount) EXCEPT !.action = "invoice.create"]

Read(s, h) ==
    [Pay(s, 0) EXCEPT !.action = "payment.read_own", !.asset = Undefined,
                      !.amount = Undefined, !.hash = h]

AppPolicy(allow, deny) ==
    "agent" :> [origins |-> {"http://agent"}, allow |-> allow, deny |-> deny]

FullPolicy == AppPolicy({p.action : p \in Granted}, {})
TightPolicy == AppPolicy({"payment.read_own", "invoice.create"}, {})

OnePolicy == {FullPolicy}
EditedPolicies == {FullPolicy, TightPolicy}

\* Calls that race on everything: both sessions, both spending actions, reads,
\* and an amount within the limits that is too large to encode.
MixedIntents ==
    {Pay(s1, 2), Pay(s1, 3), Pay(s2, 1), Invoice(s1, 1), Read(s1, h1), Read(s2, h1)}

\* Payments that fit the daily limit of 3 one by one and not together, and
\* invoices, which have no limit.
SpendingIntents == {Pay(s1, 1), Pay(s1, 2), Pay(s2, 2), Invoice(s1, 3)}
=============================================================================
