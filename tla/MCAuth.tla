------------------------------- MODULE MCAuth -------------------------------
(* A small instance of the auth service.  Tokens, policies and API keys     *)
(* share no state: a behaviour exercises one of them, the part, while the   *)
(* others stay as they were at the start.                                   *)
EXTENDS AuthTokens, AuthDecisions, APIKeys

CONSTANTS default, p1

VARIABLE part

allVars == <<vars, policyVars, keyVars, part>>

AuthInit ==
  /\ part \in {"tokens", "policies", "keys"}
  /\ Init /\ PolicyInit /\ KeyInit

AuthNext ==
  /\ \/ part = "tokens" /\ Next /\ UNCHANGED <<policyVars, keyVars>>
     \/ part = "policies" /\ PolicyNext /\ UNCHANGED <<vars, keyVars>>
     \/ part = "keys" /\ KeyNext /\ UNCHANGED <<vars, policyVars>>
  /\ UNCHANGED part

AuthSpec ==
  /\ AuthInit /\ [][AuthNext]_allVars
  /\ part = "tokens" => Fairness

(* Negative (or overflown), the default, and one beyond the maximum.       *)
AskedTTLs == {-1, 0, 3}

AskedKeyTTLs == {-1, 1, 2}

Rule(path, caps, conds) == [path |-> path, caps |-> caps, conds |-> conds]

(* One segment below a; a denial before sudo on everything; everything      *)
(* below a, under a condition.                                              *)
ReadOne == <<Rule(<<"a", "/", "*">>, {"read"}, <<>>)>>
DenyThenSudo == <<Rule(<<"/", "a", "/", "b">>, {"deny", "read"}, <<>>), Rule(<<"*", "*">>, {"sudo"}, <<>>)>>
ReadHere == <<Rule(<<"a", "/", "*", "*">>, {"read", "update"}, [zone |-> "here"])>>

PolicyRules == {ReadOne, DenyThenSudo, ReadHere}

PolicyRequests ==
  [names : {<<default, p1>>, <<p1, default>>},
   path : {<<"a", "/", "b">>, <<"a", "/", "b", "/", "b">>, <<"b", "/">>},
   action : {"get"},
   context : {<<>>, [zone |-> "here"]}]
  \cup [names : {<<default, p1>>, <<p1, default>>}, path : {<<"a", "/", "b">>}, action : {"patch"},
        context : {<<>>, [zone |-> "here"]}]
==============================================================================
