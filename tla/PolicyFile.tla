----------------------------- MODULE PolicyFile -----------------------------
(***************************************************************************)
(* Loading fiberguard.yml: what parsePolicy (packages/policy/src/load.ts)  *)
(* refuses beyond the schema, and the policy the evaluations read, which   *)
(* look a rule up with `find` and so take an action's first one.           *)
(*                                                                         *)
(* A file is [assets, apps]: the declared assets and, by app id,           *)
(* [origins, allow, deny] with allow a sequence of [action, rule].         *)
(***************************************************************************)
EXTENDS IntentDecision, SequencesExt

ActionsOf(app) == {app.allow[k].action : k \in DOMAIN app.allow}

RepeatsAnAction(app) ==
    \E j, k \in DOMAIN app.allow : j < k /\ app.allow[j].action = app.allow[k].action

\* The assets section is optional: an empty one declares nothing to check.
AllowsUndeclaredAsset(app, assets) ==
    /\ assets # {}
    /\ \E k \in DOMAIN app.allow :
         app.allow[k].rule.assets # Undefined /\ ~(app.allow[k].rule.assets \subseteq assets)

AllowsAndDenies(app) == ActionsOf(app) \cap app.deny # {}

\* app.allow.find(candidate => candidate.action === action)
FindRule(app, action) == app.allow[SelectInSeq(app.allow, LAMBDA r : r.action = action)].rule

PolicyOf(file) ==
    [id \in DOMAIN file.apps |->
       LET app == file.apps[id] IN
         [origins |-> app.origins, deny |-> app.deny,
          allow |-> [action \in ActionsOf(app) |-> FindRule(app, action)]]]

\* The gateway does not start with a file that is refused.
Refused == [error |-> "PolicyError"]

\* Mutant: a second rule for an action is accepted.
parsePolicy_Repeats(file) ==
    IF \E id \in DOMAIN file.apps :
         LET app == file.apps[id] IN
           AllowsUndeclaredAsset(app, file.assets) \/ AllowsAndDenies(app)
      THEN Refused ELSE PolicyOf(file)

parsePolicy(file) ==
    IF \E id \in DOMAIN file.apps :
         LET app == file.apps[id] IN
           RepeatsAnAction(app) \/ AllowsUndeclaredAsset(app, file.assets) \/ AllowsAndDenies(app)
      THEN Refused ELSE PolicyOf(file)
=============================================================================
