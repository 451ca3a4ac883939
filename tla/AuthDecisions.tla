---------------------------- MODULE AuthDecisions ----------------------------
(* The decisions of the auth service on the policies in force: Evaluate on  *)
(* the evaluator's table, whatever the changes under way have made of it.   *)
(* The rules of a policy are a sequence of records [path, caps, conds].     *)
EXTENDS AuthPolicies, PolicyEvaluator

CONSTANT Queries   \* what is asked of EvaluatePolicy: records [names, path, action, context]

(* Policies are lists of rules, paths are texts; requests name policies.    *)
ASSUME DecisionAssumption ==
  /\ \A rules \in Rules : rules \in Seq({rules[k] : k \in DOMAIN rules})
  /\ \A rules \in Rules : \A k \in DOMAIN rules : rules[k].path \in Seq(STRING)
  /\ \A r \in Queries : r.names \in Seq(Names) /\ r.path \in Seq(STRING)

(* EvaluatePolicy(policies, resource, action, context) of the service.      *)
EvaluatePolicy(r) ==
  Evaluate(evaluator, NoRules, r.names, r.path, ActionToCapability(r.action), r.context)

(* The rules the i-th name of request r stands for.                         *)
RulesAt(r, i) == IF evaluator[r.names[i]] = NoRules THEN <<>> ELSE evaluator[r.names[i]]

(* A request is allowed when a rule of the policies it names grants it and  *)
(* no rule looked at before, in this or an earlier policy, denies it, and   *)
(* only then.  Names without a policy change nothing, and a rule whose      *)
(* conditions are not met neither grants nor denies.                        *)
GrantedUnlessDeniedBefore ==
  \A r \in Queries :
    EvaluatePolicy(r).allowed <=>
      \E i \in DOMAIN r.names : \E k \in DOMAIN RulesAt(r, i) :
        /\ Grants(RulesAt(r, i)[k], r.path, ActionToCapability(r.action), r.context)
        /\ \A j \in 1..i : \A l \in DOMAIN RulesAt(r, j) :
             j < i \/ l <= k => ~Denies(RulesAt(r, j)[l], r.path)
==============================================================================
