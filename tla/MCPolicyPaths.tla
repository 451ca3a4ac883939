---------------------------- MODULE MCPolicyPaths ----------------------------
(* Rules on everything under a path, x/**, asked about paths.               *)
EXTENDS PolicyPaths, SequencesExt

CONSTANT MaxPath   \* bound: characters of a path

VARIABLES pattern, target

Init == pattern = <<>> /\ target = <<>>

Ask(p, t) == pattern' = p /\ target' = t

Next ==
  /\ target = <<>>
  /\ \E p, t \in BoundedSeq({"a", "b", "/"}, MaxPath) :
       p # <<>> /\ t # <<>> /\ Ask(p \o <<"/">> \o TwoStars, t)

Spec == Init /\ [][Next]_<<pattern, target>>

(* pathMatches does what its comments say: "** matches any segments", "**   *)
(* (matches everything under this path)".                                   *)
StarsMatchSegments == pathMatches(pattern, target) <=> CoversPath(pattern, target)
==============================================================================
