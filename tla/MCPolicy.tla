------------------------------ MODULE MCPolicy ------------------------------
(* Small policies, requests and intents for the policy engine. *)
EXTENDS PolicyEngine, TLC

Rule(assets, payment, invoice, daily, expiresIn, approval) ==
    [assets |-> assets, maxPerPayment |-> payment, maxPerInvoice |-> invoice,
     dailyLimit |-> daily, expiresIn |-> expiresIn, requireApproval |-> approval]

Unlimited(assets) == Rule(assets, Undefined, Undefined, Undefined, Undefined, FALSE)

Allow(action, rule) == [action |-> action, rule |-> rule]

FileWith(assets, rules, denied) ==
    [assets |-> assets,
     apps   |-> "agent" :> [origins |-> {"here"}, allow |-> rules, deny |-> denied]]

AllowRead == Allow("payment.read_own", Unlimited(Undefined))

\* An approval-gated payment rule beside free ones, a policy without caps and
\* without declared assets, and three that parsePolicy refuses: an asset nobody
\* declared, an action both allowed and denied, two rules for one action.
MCPolicyFiles ==
    {FileWith({"RUSD", "CKB"},
       <<Allow("payment.pay_invoice", Rule({"RUSD", "CKB"}, 2, Undefined, 3, 2, TRUE)),
         Allow("invoice.create", Rule({"RUSD"}, Undefined, 2, Undefined, 4, FALSE)),
         AllowRead>>, {}),
     FileWith({}, <<Allow("payment.pay_invoice", Unlimited({"RUSD"})), AllowRead>>,
       {"invoice.create"}),
     FileWith({"RUSD"}, <<Allow("payment.pay_invoice", Unlimited({"RUSD", "CKB"}))>>, {}),
     FileWith({"RUSD"}, <<AllowRead>>, {"payment.read_own"}),
     FileWith({"RUSD"},
       <<Allow("payment.pay_invoice", Rule({"RUSD"}, 1, Undefined, 1, Undefined, TRUE)),
         Allow("payment.pay_invoice", Unlimited({"RUSD"}))>>, {})}

MCAppPolicies == {parsePolicy(file) : file \in MCPolicyFiles} \ {Refused}

Ask(action, asset, payment, invoice, daily, expiresIn) ==
    [action |-> action, asset |-> asset, maxPerPayment |-> payment,
     maxPerInvoice |-> invoice, dailyLimit |-> daily, expiresIn |-> expiresIn]

AskPay(asset, payment, daily) ==
    Ask("payment.pay_invoice", asset, payment, Undefined, daily, Undefined)

AskInvoice(asset, invoice, expiresIn) ==
    Ask("invoice.create", asset, Undefined, invoice, Undefined, expiresIn)

AskRead(asset) == Ask("payment.read_own", asset, Undefined, Undefined, Undefined, Undefined)

Entries ==
    {AskPay(asset, payment, daily) :
       asset \in {Undefined, "RUSD", "CKB"}, payment, daily \in {Undefined, 1, 4}}
    \cup {AskInvoice(asset, invoice, expiresIn) :
       asset \in {Undefined, "RUSD", "CKB"}, invoice \in {Undefined, 1, 3},
       expiresIn \in {Undefined, 1}}
    \cup {AskRead(asset) : asset \in {Undefined, "RUSD"}}
    \cup {Ask("channel.open", Undefined, Undefined, Undefined, Undefined, Undefined)}

RequestBy(app, origin, entries) == [app |-> app, origin |-> origin, permissions |-> entries]

MCRequests ==
    {RequestBy("agent", "here", entries) :
       entries \in {<<e>> : e \in Entries} \cup (Entries \X Entries)}
    \cup {RequestBy("agent", "elsewhere", <<e>>) : e \in Entries}
    \cup {RequestBy("other", "here", <<e>>) : e \in Entries}

\* Bound: the requests whose sessions are used.  A grant for both assets, one
\* with tighter limits than the rule, one without limits.
MCOpenedRequests ==
    {RequestBy("agent", "here", entries) :
       entries \in {<<AskPay(Undefined, Undefined, Undefined), AskRead(Undefined)>>,
                    <<AskPay("CKB", 1, 1), AskInvoice("RUSD", 1, 1)>>,
                    <<AskPay("RUSD", Undefined, Undefined)>>}}

Callers == {<<"agent", "here">>, <<"agent", "elsewhere">>, <<"other", "here">>}

IntentBy(caller, action, asset, amount) ==
    [app |-> caller[1], origin |-> caller[2], action |-> action,
     asset |-> asset, amount |-> amount]

\* The routes send an asset and an amount with the spending actions and
\* neither with the others; the amount of a direct caller may be missing.
MCIntents ==
    {IntentBy(caller, action, asset, amount) :
       caller \in Callers, action \in {"payment.pay_invoice", "invoice.create"},
       asset \in {"RUSD", "CKB"}, amount \in {Undefined, 1, 3}}
    \cup {IntentBy(caller, "payment.read_own", Undefined, Undefined) : caller \in Callers}

MCAssets == {Undefined, "RUSD", "CKB"}

MCAmountRange == 0..4
=============================================================================
