---------------------------- MODULE AuthPolicies ----------------------------
(***************************************************************************)
(* services/auth: policies are kept twice, in the repository (what         *)
(* GetPolicy and ListPolicies show) and in the evaluator (what             *)
(* ValidateToken and EvaluatePolicy decide by).  CreatePolicy,             *)
(* UpdatePolicy and DeletePolicy change the one under its lock, then the   *)
(* other under its own, with no lock across the two.                       *)
(*                                                                         *)
(* The rules of a policy are one value.  The policy cache is never filled  *)
(* and deleting from it does nothing.                                      *)
(***************************************************************************)
CONSTANTS
  Names,        \* policy names
  BuiltIn,      \* "default" and "admin"
  Rules,        \* the rules a policy can have
  BuiltInRules, \* those of the built-in policies at the start
  NoRules,      \* in the place of the rules of a policy that is not there
  Editors       \* calls in progress that change policies

ASSUME PolicyAssumption == BuiltIn \subseteq Names /\ NoRules \notin Rules /\ BuiltInRules \in Rules

VARIABLES
  repo,         \* repo[n]: the rules stored for n
  evaluator,    \* evaluator[n]: the rules decided by
  change        \* change[c]: what call c does to the evaluator next, and
                \* whether no other call on the same name overlapped it so far

policyVars == <<repo, evaluator, change>>

NoChange == [at |-> "idle"]

Change == {NoChange} \cup [at : {"evaluator"}, name : Names, rules : Rules \cup {NoRules}, alone : BOOLEAN]

PolicyTypeOK ==
  /\ repo \in [Names -> Rules \cup {NoRules}]
  /\ evaluator \in [Names -> Rules \cup {NoRules}]
  /\ change \in [Editors -> Change]

Initial == [n \in Names |-> IF n \in BuiltIn THEN BuiltInRules ELSE NoRules]

(* NewAuthService loads what is in the repository: the built-in policies.  *)
PolicyInit ==
  /\ repo = Initial
  /\ evaluator = repo
  /\ change = [c \in Editors |-> NoChange]
-----------------------------------------------------------------------------
Busy(n) == {c \in Editors : change[c] # NoChange /\ change[c].name = n}

(* The repository has accepted c's change of n to r. *)
Stored(c, n, r) ==
  /\ repo' = [repo EXCEPT ![n] = r]
  /\ change' = [d \in Editors |->
       IF d = c THEN [at |-> "evaluator", name |-> n, rules |-> r, alone |-> Busy(n) = {}]
       ELSE IF d \in Busy(n) THEN [change[d] EXCEPT !.alone = FALSE]
       ELSE change[d]]
  /\ UNCHANGED evaluator

CreatePolicy(c, n, r) == change[c] = NoChange /\ repo[n] = NoRules /\ Stored(c, n, r)

UpdatePolicy(c, n, r) == change[c] = NoChange /\ repo[n] # NoRules /\ Stored(c, n, r)

(* Faulty: built-in policies can be deleted. *)
DeletePolicyAny(c, n) == change[c] = NoChange /\ repo[n] # NoRules /\ Stored(c, n, NoRules)

DeletePolicy(c, n) ==
  change[c] = NoChange /\ repo[n] # NoRules /\ n \notin BuiltIn /\ Stored(c, n, NoRules)

(* Faulty: a policy that is there is kept. *)
ApplyFirstOnly(c) ==
  /\ change[c] # NoChange
  /\ evaluator' = [evaluator EXCEPT ![change[c].name] = IF @ = NoRules THEN change[c].rules ELSE @]
  /\ change' = [change EXCEPT ![c] = NoChange]
  /\ UNCHANGED repo

(* AddPolicy or RemovePolicy of the evaluator; the call is answered. *)
Apply(c) ==
  /\ change[c] # NoChange
  /\ evaluator' = [evaluator EXCEPT ![change[c].name] = change[c].rules]
  /\ change' = [change EXCEPT ![c] = NoChange]
  /\ UNCHANGED repo

(* The process dies and starts again with new tables. *)
PolicyCrash ==
  /\ repo' = Initial
  /\ evaluator' = repo'
  /\ change' = [c \in Editors |-> NoChange]

PolicyNext ==
  \/ \E c \in Editors, n \in Names :
       \/ \E r \in Rules : CreatePolicy(c, n, r) \/ UpdatePolicy(c, n, r)
       \/ DeletePolicy(c, n)
  \/ \E c \in Editors : Apply(c)
  \/ PolicyCrash

PolicySpec == PolicyInit /\ [][PolicyNext]_policyVars
-----------------------------------------------------------------------------
(* A change that no other change of the same policy overlapped is in force *)
(* when it is answered: both tables agree on the policy, whatever earlier  *)
(* races had left behind.                                                  *)
LoneChangeApplies ==
  [][\A c \in Editors : change[c] # NoChange /\ change[c].alone /\ Apply(c) =>
       evaluator'[change[c].name] = repo'[change[c].name]]_policyVars

(* The built-in policies are always in force, with some rules: a delete    *)
(* of one is refused before it reaches the evaluator, and no late          *)
(* AddPolicy or RemovePolicy of another call takes one away.               *)
BuiltInsInForce == \A n \in BuiltIn : evaluator[n] # NoRules
==============================================================================
