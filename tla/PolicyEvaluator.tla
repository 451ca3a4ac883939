--------------------------- MODULE PolicyEvaluator ---------------------------
(* The decisions of pkg/auth/policy: Evaluate goes through the policies of  *)
(* a request in the order they are named, and through the rules of each in  *)
(* order, until one of them decides.                                        *)
EXTENDS PolicyPaths

NoRule == [allowed |-> FALSE, rule |-> <<>>]

ActionToCapability(action) ==
  CASE action \in {"create", "post"} -> "create"
    [] action \in {"read", "get"} -> "read"
    [] action \in {"update", "put", "patch"} -> "update"
    [] OTHER -> action

(* Conditions and context are functions from keys to values.                *)
checkConditions(conditions, context) ==
  \A k \in DOMAIN conditions : k \in DOMAIN context /\ context[k] = conditions[k]

(* What one rule says of the request: nothing, or the result.               *)
Step(rule, path, capability, context) ==
  IF ~pathMatches(rule.path, path) THEN <<>>
  ELSE IF "deny" \in rule.caps THEN <<[allowed |-> FALSE, rule |-> rule.path]>>
  ELSE IF "sudo" \in rule.caps THEN <<[allowed |-> TRUE, rule |-> rule.path]>>
  ELSE IF capability \in rule.caps /\ checkConditions(rule.conds, context)
  THEN <<[allowed |-> TRUE, rule |-> rule.path]>>
  ELSE <<>>

(* A loop that returns at the first round with an outcome: found[i] is what *)
(* the first i rounds have found.                                           *)
FirstOutcome(outcomes) ==
  LET found[i \in 0..Len(outcomes)] ==
        IF i = 0 THEN <<>> ELSE LET before == found[i - 1] IN IF before # <<>> THEN before ELSE outcomes[i]
  IN  found[Len(outcomes)]

(* The loop over the rules of one policy.                                   *)
InPolicy(rules, path, capability, context) ==
  FirstOutcome([k \in 1..Len(rules) |-> Step(rules[k], path, capability, context)])

(* Faulty: the policies are gone through from the last to the first.        *)
EvaluateLastFirst(policies, none, names, path, capability, context) ==
  LET found == FirstOutcome([i \in 1..Len(names) |->
                 LET name == names[Len(names) + 1 - i]
                 IN  IF policies[name] = none THEN <<>> ELSE InPolicy(policies[name], path, capability, context)])
  IN  IF found = <<>> THEN NoRule ELSE found[1]

(* A name without a policy is passed over.                                  *)
Evaluate(policies, none, names, path, capability, context) ==
  LET found == FirstOutcome([i \in 1..Len(names) |->
                 IF policies[names[i]] = none THEN <<>>
                 ELSE InPolicy(policies[names[i]], path, capability, context)])
  IN  IF found = <<>> THEN NoRule ELSE found[1]

------------------------------------------------------------------------------
(* What a rule would grant or forbid on its own, by segments where the      *)
(* pattern has no trailing **.                                              *)
Matches(rule, path) ==
  IF HasSuffix(Trim(rule.path), TwoStars) THEN pathMatches(rule.path, path) ELSE CoversPath(rule.path, path)

Denies(rule, path) == "deny" \in rule.caps /\ Matches(rule, path)

Grants(rule, path, capability, context) ==
  /\ \/ "sudo" \in rule.caps
     \/ capability \in rule.caps /\ \A k \in DOMAIN rule.conds : <<k, rule.conds[k]>> \in
                                      {<<x, context[x]>> : x \in DOMAIN context}
  /\ Matches(rule, path)
==============================================================================
