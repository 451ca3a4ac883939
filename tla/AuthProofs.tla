----------------------------- MODULE AuthProofs ------------------------------
(***************************************************************************)
(* Proofs about the auth service: the policies and what they decide, the   *)
(* tokens and the API keys; for any policies, rules, paths and requests,   *)
(* any number of tokens, keys and concurrent calls, and any lifetimes.     *)
(***************************************************************************)
EXTENDS AuthTokens, AuthDecisions, APIKeys, SequenceTheorems, WellFoundedInduction, TLAPS

-----------------------------------------------------------------------------
(***************************************************************************)
(* The two policy tables.                                                  *)
(***************************************************************************)
(* The built-in policies are in both tables, and no call is about to take  *)
(* one out of the evaluator.                                               *)
BuiltInsSafe ==
  /\ \A n \in BuiltIn : repo[n] # NoRules /\ evaluator[n] # NoRules
  /\ \A c \in Editors : change[c] # NoChange /\ change[c].name \in BuiltIn => change[c].rules # NoRules

(* A call that nobody overlapped carries what the repository has.          *)
AloneIsStored ==
  \A c \in Editors : change[c] # NoChange /\ change[c].alone => repo[change[c].name] = change[c].rules

PolicyInv == PolicyTypeOK /\ BuiltInsSafe /\ AloneIsStored
-----------------------------------------------------------------------------
(* A call is idle or has its fields, of their types. *)
LEMMA BusyCall ==
  ASSUME PolicyTypeOK, NEW c \in Editors, change[c] # NoChange
  PROVE  /\ change[c] \in [at : {"evaluator"}, name : Names, rules : Rules \cup {NoRules}, alone : BOOLEAN]
         /\ change[c].name \in Names
         /\ change[c].rules \in Rules \cup {NoRules}
         /\ change[c].alone \in BOOLEAN
BY DEF PolicyTypeOK, Change

(* What Stored does to the calls: c carries the change, the others keep    *)
(* name and rules, and none of the same name counts as alone any more.     *)
LEMMA StoredCalls ==
  ASSUME PolicyTypeOK,
         NEW c \in Editors, NEW n \in Names, NEW r \in Rules \cup {NoRules},
         change[c] = NoChange, Stored(c, n, r)
  PROVE  /\ change' \in [Editors -> Change]
         /\ change'[c] # NoChange /\ change'[c].name = n /\ change'[c].rules = r
         /\ \A d \in Editors \ {c} : change'[d] # NoChange =>
              /\ change[d] # NoChange
              /\ change'[d].name = change[d].name /\ change'[d].rules = change[d].rules
              /\ change'[d].alone => change[d].alone /\ change[d].name # n
<1> DEFINE New == [at |-> "evaluator", name |-> n, rules |-> r, alone |-> Busy(n) = {}]
<1>1. New \in Change /\ New # NoChange
  BY DEF Change, NoChange
<1>2. change'[c] = New /\ c \in DOMAIN change'
  BY DEF Stored
<1>3. ASSUME NEW d \in Editors \ {c}
      PROVE  /\ change'[d] \in Change
             /\ change'[d] # NoChange =>
                  /\ change[d] # NoChange
                  /\ change'[d].name = change[d].name /\ change'[d].rules = change[d].rules
                  /\ change'[d].alone => change[d].alone /\ change[d].name # n
  <2>1. CASE d \in Busy(n)
    <3>1. change'[d] = [change[d] EXCEPT !.alone = FALSE]
      BY <2>1 DEF Stored
    <3>2. change[d] # NoChange
      BY <2>1 DEF Busy
    <3>3. change[d] \in [at : {"evaluator"}, name : Names, rules : Rules \cup {NoRules}, alone : BOOLEAN]
      BY <3>2, BusyCall
    <3> QED
      BY <3>1, <3>2, <3>3, Zenon DEF Change
  <2>2. CASE d \notin Busy(n)
    <3>1. change'[d] = change[d]
      BY <2>2 DEF Stored
    <3> QED
      BY <2>2, <3>1 DEF Busy, PolicyTypeOK
  <2> QED
    BY <2>1, <2>2
<1>4. change' \in [Editors -> Change]
  <2>1. change' = [d \in Editors |-> change'[d]]
    BY DEF Stored
  <2>2. \A d \in Editors : change'[d] \in Change
    BY <1>1, <1>2, <1>3
  <2> QED
    BY <2>1, <2>2
<1> QED
  BY <1>1, <1>2, <1>3, <1>4

(* A stored change preserves the invariant, if it takes out no built-in.   *)
LEMMA StoredInv ==
  ASSUME PolicyInv,
         NEW c \in Editors, NEW n \in Names, NEW r \in Rules \cup {NoRules},
         change[c] = NoChange, Stored(c, n, r), n \in BuiltIn => r # NoRules
  PROVE  PolicyInv'
<1> USE DEF PolicyInv
<1>1. repo' = [repo EXCEPT ![n] = r] /\ evaluator' = evaluator
  BY DEF Stored
<1>2. PolicyTypeOK'
  BY <1>1, StoredCalls DEF PolicyTypeOK
<1>3. BuiltInsSafe'
  <2>1. \A m \in BuiltIn : repo'[m] # NoRules /\ evaluator'[m] # NoRules
    BY <1>1, PolicyAssumption DEF BuiltInsSafe, PolicyTypeOK
  <2>2. ASSUME NEW d \in Editors, change'[d] # NoChange, change'[d].name \in BuiltIn
        PROVE  change'[d].rules # NoRules
    <3>1. CASE d = c
      BY <2>2, <3>1, StoredCalls
    <3>2. CASE d # c
      <4>1. change[d] # NoChange /\ change[d].name \in BuiltIn /\ change'[d].rules = change[d].rules
        BY <2>2, <3>2, StoredCalls
      <4> QED
        BY <4>1 DEF BuiltInsSafe
    <3> QED
      BY <3>1, <3>2
  <2> QED
    BY <2>1, <2>2 DEF BuiltInsSafe
<1>4. AloneIsStored'
  <2>1. ASSUME NEW d \in Editors, change'[d] # NoChange, change'[d].alone
        PROVE  repo'[change'[d].name] = change'[d].rules
    <3>1. CASE d = c
      <4>1. change'[d].name = n /\ change'[d].rules = r
        BY <3>1, StoredCalls
      <4> QED
        BY <4>1, <1>1 DEF PolicyTypeOK
    <3>2. CASE d # c
      <4>1. /\ change[d] # NoChange /\ change[d].alone /\ change[d].name # n
            /\ change'[d].name = change[d].name /\ change'[d].rules = change[d].rules
        BY <2>1, <3>2, StoredCalls
      <4>2. change[d].name \in Names /\ repo[change[d].name] = change[d].rules
        BY <4>1, BusyCall DEF AloneIsStored
      <4> QED
        BY <4>1, <4>2, <1>1 DEF PolicyTypeOK
    <3> QED
      BY <3>1, <3>2
  <2> QED
    BY <2>1 DEF AloneIsStored
<1> QED
  BY <1>2, <1>3, <1>4

(* Init establishes the invariant. *)
LEMMA PolicyInitInv == PolicyInit => PolicyInv
<1> SUFFICES ASSUME PolicyInit PROVE PolicyInv
  OBVIOUS
<1>1. PolicyTypeOK
  BY PolicyAssumption DEF PolicyInit, Initial, PolicyTypeOK, Change
<1>2. BuiltInsSafe
  BY PolicyAssumption DEF PolicyInit, Initial, BuiltInsSafe
<1>3. AloneIsStored
  BY DEF PolicyInit, AloneIsStored
<1> QED
  BY <1>1, <1>2, <1>3 DEF PolicyInv

(* Every step preserves it. *)
LEMMA PolicyNextInv == PolicyInv /\ [PolicyNext]_policyVars => PolicyInv'
<1> SUFFICES ASSUME PolicyInv, [PolicyNext]_policyVars PROVE PolicyInv'
  OBVIOUS
<1>1. ASSUME NEW c \in Editors, NEW n \in Names, NEW r \in Rules, CreatePolicy(c, n, r)
      PROVE  PolicyInv'
  BY <1>1, StoredInv, PolicyAssumption DEF CreatePolicy
<1>2. ASSUME NEW c \in Editors, NEW n \in Names, NEW r \in Rules, UpdatePolicy(c, n, r)
      PROVE  PolicyInv'
  BY <1>2, StoredInv, PolicyAssumption DEF UpdatePolicy
<1>3. ASSUME NEW c \in Editors, NEW n \in Names, DeletePolicy(c, n)
      PROVE  PolicyInv'
  BY <1>3, StoredInv DEF DeletePolicy
<1>4. ASSUME NEW c \in Editors, Apply(c)
      PROVE  PolicyInv'
  <2> USE DEF PolicyInv
  <2>1. change[c].name \in Names /\ change[c].rules \in Rules \cup {NoRules}
    BY <1>4, BusyCall DEF Apply
  <2>2. PolicyTypeOK'
    BY <1>4, <2>1 DEF Apply, PolicyTypeOK, Change
  <2>3. BuiltInsSafe'
    BY <1>4, <2>1, PolicyAssumption DEF Apply, PolicyTypeOK, BuiltInsSafe
  <2>4. AloneIsStored'
    BY <1>4 DEF Apply, PolicyTypeOK, AloneIsStored
  <2> QED
    BY <2>2, <2>3, <2>4
<1>5. CASE PolicyCrash
  <2>1. PolicyTypeOK'
    BY <1>5, PolicyAssumption DEF PolicyCrash, Initial, PolicyTypeOK, Change
  <2>2. BuiltInsSafe'
    BY <1>5, PolicyAssumption DEF PolicyCrash, Initial, BuiltInsSafe
  <2>3. AloneIsStored'
    BY <1>5 DEF PolicyCrash, AloneIsStored
  <2> QED
    BY <2>1, <2>2, <2>3 DEF PolicyInv
<1>6. CASE UNCHANGED policyVars
  BY <1>6 DEF policyVars, PolicyInv, PolicyTypeOK, BuiltInsSafe, AloneIsStored
<1> QED
  BY <1>1, <1>2, <1>3, <1>4, <1>5, <1>6 DEF PolicyNext

(* The tables are well typed and the built-in policies always in force     *)
(* (DeletePolicy refuses them before the evaluator hears of it), whatever  *)
(* calls pass each other between the two tables.                           *)
THEOREM PoliciesCorrect == PolicySpec => [](PolicyTypeOK /\ BuiltInsInForce)
<1>1. PolicyInv => PolicyTypeOK /\ BuiltInsInForce
  BY DEF PolicyInv, BuiltInsSafe, BuiltInsInForce
<1> QED
  BY <1>1, PolicyInitInv, PolicyNextInv, PTL DEF PolicySpec

(* A change of a policy that no other change of it overlapped is in force  *)
(* when CreatePolicy, UpdatePolicy or DeletePolicy answers.                *)
THEOREM LoneChangesApply == PolicySpec => LoneChangeApplies
<1>1. ASSUME PolicyInv, NEW c \in Editors, change[c] # NoChange, change[c].alone, Apply(c)
      PROVE  evaluator'[change[c].name] = repo'[change[c].name]
  <2>1. change[c].name \in Names /\ repo[change[c].name] = change[c].rules
    BY <1>1, BusyCall DEF PolicyInv, AloneIsStored
  <2> QED
    BY <1>1, <2>1 DEF Apply, PolicyInv, PolicyTypeOK
<1>2. PolicyInv =>
        [\A c \in Editors : change[c] # NoChange /\ change[c].alone /\ Apply(c) =>
           evaluator'[change[c].name] = repo'[change[c].name]]_policyVars
  BY <1>1
<1> QED
  BY <1>2, PolicyInitInv, PolicyNextInv, PTL DEF PolicySpec, LoneChangeApplies
-----------------------------------------------------------------------------
(***************************************************************************)
(* What the policies grant.  Evaluate and Split are loops, and the model   *)
(* has them as functions by recursion over the rounds.  Induction over the *)
(* rounds comes from the well-foundedness of the natural numbers: a set of *)
(* rounds at which something fails would have a least one.                 *)
(***************************************************************************)
(* A nonempty set of natural numbers has a least element.                  *)
LEMMA LeastExists ==
  ASSUME NEW T, T \subseteq Nat, T # {}
  PROVE  \E n \in T : \A m \in T : n <= m
<1>1. PICK n \in T : \A m \in T : ~(<<m, n>> \in OpToRel(<, Nat))
  BY NatLessThanWellFounded, WFMin
<1>2. ASSUME NEW m \in T PROVE n <= m
  <2>1. <<m, n>> \in Nat \X Nat /\ <<m, n>>[1] = m /\ <<m, n>>[2] = n
    OBVIOUS
  <2>2. ~(m < n)
    BY <1>1, <2>1 DEF OpToRel
  <2> QED BY <2>2
<1> QED
  BY <1>2

(* Induction up to n, for a set.                                           *)
LEMMA Induction ==
  ASSUME NEW T, NEW n \in Nat, 0 \in T,
         \A i \in 0..n-1 : i \in T => i + 1 \in T
  PROVE  \A i \in 0..n : i \in T
<1> DEFINE Bad == {i \in 0..n : i \notin T}
<1> SUFFICES ASSUME Bad # {} PROVE FALSE
  OBVIOUS
<1>1. PICK i \in Bad : \A j \in Bad : i <= j
  <2>1. Bad \subseteq Nat
    OBVIOUS
  <2> HIDE DEF Bad
  <2> QED BY <2>1, LeastExists
<1>2. i \in 1..n /\ i - 1 \in 0..n-1 /\ i - 1 \notin Bad
  BY <1>1
<1> QED
  BY <1>1, <1>2

(* A loop has a run: the states after 0, 1, ... n rounds, G[i] being what round i does. *)
IsLoop(f, n, V, start, G) == f \in [0..n -> V] /\ f[0] = start /\ \A i \in 1..n : f[i] = G[i][f[i - 1]]

(* Every loop whose rounds take values of V to values of V has a run: what *)
(* is defined by recursion over the rounds can be unfolded.                *)
LEMMA LoopRuns ==
  ASSUME NEW n \in Nat, NEW V, NEW start \in V, NEW G \in [1..n -> [V -> V]]
  PROVE  \E f : IsLoop(f, n, V, start, G)
<1> DEFINE T == {k \in 0..n : \E f : IsLoop(f, k, V, start, G)}
<1>1. 0 \in T
  <2>1. IsLoop([i \in 0..0 |-> start], 0, V, start, G)
    BY DEF IsLoop
  <2> QED BY <2>1
<1>2. ASSUME NEW k \in 0..(n - 1), k \in T PROVE k + 1 \in T
  <2>1. PICK f : IsLoop(f, k, V, start, G)
    BY <1>2
  <2> DEFINE g == [i \in 0..(k + 1) |-> IF i = k + 1 THEN G[k + 1][f[k]] ELSE f[i]]
  <2>2. IsLoop(g, k + 1, V, start, G)
    BY <2>1 DEF IsLoop
  <2> HIDE DEF g
  <2> QED BY <2>2
<1>3. \A k \in 0..n : k \in T
  <2> HIDE DEF T
  <2> QED BY <1>1, <1>2, Induction
<1> QED
  BY <1>3

(* The loops of Evaluate return the first outcome there is, if there is    *)
(* one.                                                                    *)
LEMMA FirstOutcomeFound ==
  ASSUME NEW S, NEW outcomes \in Seq(S)
  PROVE  \/ /\ FirstOutcome(outcomes) = <<>>
            /\ \A i \in 1..Len(outcomes) : outcomes[i] = <<>>
         \/ \E i \in 1..Len(outcomes) :
              /\ outcomes[i] # <<>>
              /\ FirstOutcome(outcomes) = outcomes[i]
              /\ \A j \in 1..(i - 1) : outcomes[j] = <<>>
<1> DEFINE n == Len(outcomes)
           V == S \cup {<<>>}
           Round(before, i) == IF before # <<>> THEN before ELSE outcomes[i]
           IsRun(f) == f = [i \in 0..n |-> IF i = 0 THEN <<>> ELSE Round(f[i - 1], i)]
           found == CHOOSE f : IsRun(f)
<1>1. n \in Nat /\ \A i \in 1..n : outcomes[i] \in S
  OBVIOUS
<1>2. IsRun(found)
  <2> DEFINE G == [i \in 1..n |-> [v \in V |-> Round(v, i)]]
  <2>1. G \in [1..n -> [V -> V]]
    BY <1>1
  <2>2. n \in Nat /\ <<>> \in V
    OBVIOUS
  <2>3. PICK f : IsLoop(f, n, V, <<>>, G)
    <3> HIDE DEF G, V, n
    <3> QED BY <2>1, <2>2, LoopRuns
  <2>4. \A i \in 1..n : f[i] = Round(f[i - 1], i)
    BY <1>1, <2>3 DEF IsLoop
  <2>5. IsRun(f)
    BY <1>1, <2>3, <2>4 DEF IsLoop
  <2> QED
    BY <2>5
<1>3. FirstOutcome(outcomes) = found[n]
  BY DEF FirstOutcome
<1> DEFINE Found(i) == \/ found[i] = <<>> /\ \A j \in 1..i : outcomes[j] = <<>>
                       \/ \E k \in 1..i : /\ outcomes[k] # <<>> /\ found[i] = outcomes[k]
                                         /\ \A j \in 1..(k - 1) : outcomes[j] = <<>>
           T == {i \in 0..n : Found(i)}
<1> HIDE DEF found
<1>4. 0 \in T
  BY <1>1, <1>2
<1>5. ASSUME NEW i \in 0..(n - 1), i \in T PROVE i + 1 \in T
  <2>1. found[i + 1] = Round(found[i], i + 1)
    BY <1>1, <1>2
  <2>2. Found(i) /\ outcomes[i + 1] \in S
    BY <1>5, <1>1
  <2>3. Found(i + 1)
    BY <2>1, <2>2
  <2> QED
    BY <2>3, <1>1
<1>6. \A i \in 0..n : i \in T
  <2> HIDE DEF T, n
  <2> QED BY <1>1, <1>4, <1>5, Induction
<1>7. Found(n)
  BY <1>1, <1>6
<1> QED
  BY <1>3, <1>7

-----------------------------------------------------------------------------
(***************************************************************************)
(* Paths.  The segments of a text, built character by character as Split   *)
(* builds them.                                                            *)
(***************************************************************************)
NoSegments == <<<<>>>>

Extended(before, c) ==
  IF c = "/" THEN Append(before, <<>>)
  ELSE Append(SubSeq(before, 1, Len(before) - 1), Append(before[Len(before)], c))

IsSplitting(f, s) == f = [n \in 0..Len(s) |-> IF n = 0 THEN NoSegments ELSE Extended(f[n - 1], s[n])]

Segments(s) == CHOOSE f : IsSplitting(f, s)

Segmented(C) == {a \in Seq(Seq(C)) : a # <<>>}

(* A character "/" begins a new segment, any other lengthens the last one. *)
LEMMA ExtendedType ==
  ASSUME NEW C, NEW a \in Segmented(C), NEW c \in C
  PROVE  /\ Extended(a, c) \in Segmented(C)
         /\ c = "/" => /\ Len(Extended(a, c)) = Len(a) + 1
                       /\ Extended(a, c)[Len(a) + 1] = <<>>
                       /\ \A k \in 1..Len(a) : Extended(a, c)[k] = a[k]
         /\ c # "/" => /\ Len(Extended(a, c)) = Len(a)
                       /\ Extended(a, c)[Len(a)] = Append(a[Len(a)], c)
                       /\ \A k \in 1..(Len(a) - 1) : Extended(a, c)[k] = a[k]
<1> DEFINE D == Seq(C)
<1>1. a \in Seq(D) /\ Len(a) \in Nat \ {0} /\ \A k \in 1..Len(a) : a[k] \in D
  BY DEF Segmented
<1>2. CASE c = "/"
  <2> DEFINE e == <<>>
  <2>1. Extended(a, c) = Append(a, e)
    BY <1>2 DEF Extended
  <2>2. e \in D
    OBVIOUS
  <2>3. /\ Append(a, e) \in Seq(D) /\ Append(a, e) # <<>> /\ Len(Append(a, e)) = Len(a) + 1
        /\ Append(a, e)[Len(a) + 1] = e /\ \A k \in 1..Len(a) : Append(a, e)[k] = a[k]
    <3> HIDE DEF D, e
    <3> QED BY <1>1, <2>2, AppendProperties
  <2> QED
    BY <1>2, <2>1, <2>3 DEF Segmented
<1>3. CASE c # "/"
  <2> DEFINE b == SubSeq(a, 1, Len(a) - 1)
             l == Append(a[Len(a)], c)
  <2>1. Extended(a, c) = Append(b, l)
    BY <1>3 DEF Extended
  <2>2. b \in Seq(D) /\ Len(b) = Len(a) - 1 /\ \A k \in 1..(Len(a) - 1) : b[k] = a[k]
    <3> DEFINE m == Len(a) - 1
    <3>1. m \in Nat /\ \A i \in 1..m : a[i] \in D
      BY <1>1
    <3> HIDE DEF D, m
    <3>2. /\ SubSeq(a, 1, m) \in Seq(D) /\ Len(SubSeq(a, 1, m)) = IF 1 <= m THEN m - 1 + 1 ELSE 0
          /\ \A i \in 1..(m - 1 + 1) : SubSeq(a, 1, m)[i] = a[1 + i - 1]
      BY <3>1, SubSeqProperties
    <3>3. SubSeq(a, 1, m) \in Seq(D) /\ Len(SubSeq(a, 1, m)) = m /\ \A i \in 1..m : SubSeq(a, 1, m)[i] = a[i]
      BY <3>1, <3>2
    <3> QED BY <3>3 DEF m
  <2>3. l \in D
    BY <1>1
  <2>4. /\ Append(b, l) \in Seq(D) /\ Append(b, l) # <<>> /\ Len(Append(b, l)) = Len(a)
        /\ Append(b, l)[Len(a)] = l /\ \A k \in 1..(Len(a) - 1) : Append(b, l)[k] = a[k]
    <3> HIDE DEF b, l, D
    <3> QED BY <1>1, <2>2, <2>3, AppendProperties
  <2> HIDE DEF b
  <2> QED
    BY <1>3, <2>1, <2>4 DEF Segmented
<1> QED
  BY <1>2, <1>3

(* Split unfolds, and its parts are sequences of segments.                 *)
LEMMA SplitRuns ==
  ASSUME NEW C, NEW s \in Seq(C)
  PROVE  /\ Split(s) = Segments(s)[Len(s)]
         /\ Segments(s) \in [0..Len(s) -> Segmented(C)]
         /\ Segments(s)[0] = NoSegments
         /\ \A n \in 1..Len(s) : Segments(s)[n] = Extended(Segments(s)[n - 1], s[n])
<1> DEFINE V == Segmented(C)
           l == Len(s)
           G == [n \in 1..l |-> [a \in V |-> Extended(a, s[n])]]
<1>1. l \in Nat /\ \A n \in 1..l : s[n] \in C
  OBVIOUS
<1>2. \A n \in 1..l, a \in V : Extended(a, s[n]) \in V
  BY <1>1, ExtendedType
<1>3. NoSegments \in V
  BY DEF Segmented, NoSegments
<1> HIDE DEF V
<1>4. PICK f : IsLoop(f, l, V, NoSegments, G)
  <2>1. G \in [1..l -> [V -> V]]
    BY <1>2
  <2>2. l \in Nat
    OBVIOUS
  <2> HIDE DEF l, G
  <2> QED BY <2>1, <2>2, <1>3, LoopRuns
<1>5. \A n \in 1..l : f[n] = Extended(f[n - 1], s[n])
  <2> SUFFICES ASSUME NEW n \in 1..l PROVE f[n] = Extended(f[n - 1], s[n])
    OBVIOUS
  <2>1. n - 1 \in 0..l
    BY <1>1
  <2>2. f[n - 1] \in V /\ f[n] = G[n][f[n - 1]]
    BY <2>1, <1>4 DEF IsLoop
  <2> QED
    BY <2>2
<1>6. IsSplitting(f, s)
  BY <1>1, <1>4, <1>5 DEF IsSplitting, IsLoop
<1>7. IsSplitting(Segments(s), s)
  BY <1>6 DEF Segments
<1> DEFINE h == Segments(s)
<1>8. Split(s) = h[l]
  BY DEF Split, Segments, IsSplitting, Extended, NoSegments
<1> HIDE DEF h
<1>9. h = [n \in 0..l |-> IF n = 0 THEN NoSegments ELSE Extended(h[n - 1], s[n])]
  BY <1>7 DEF IsSplitting, h
<1>10. h[0] = NoSegments /\ \A n \in 1..l : h[n] = Extended(h[n - 1], s[n])
  BY <1>1, <1>9
<1> DEFINE T == {n \in 0..l : h[n] \in V}
<1>11. 0 \in T
  BY <1>1, <1>3, <1>10
<1>12. ASSUME NEW n \in 0..(l - 1), n \in T PROVE n + 1 \in T
  <2>1. h[n + 1] = Extended(h[n], s[n + 1]) /\ h[n] \in V /\ n + 1 \in 1..l
    BY <1>1, <1>10, <1>12
  <2>2. h[n + 1] \in V
    BY <2>1, <1>2
  <2> QED
    BY <1>1, <2>2
<1>13. \A n \in 0..l : n \in T
  <2> HIDE DEF T, l
  <2> QED BY <1>1, <1>11, <1>12, Induction
<1>14. h \in [0..l -> V]
  BY <1>9, <1>13
<1> QED
  BY <1>8, <1>10, <1>14 DEF h, V

(* The segments tell the last character and what was before it.            *)
LEMMA ExtendedInjective ==
  ASSUME NEW C, NEW a \in Segmented(C), NEW b \in Segmented(C), NEW c \in C, NEW d \in C,
         Extended(a, c) = Extended(b, d)
  PROVE  a = b /\ c = d
<1> DEFINE D == Seq(C)
<1>1. /\ a \in Seq(D) /\ Len(a) \in Nat \ {0} /\ a[Len(a)] \in D
      /\ b \in Seq(D) /\ Len(b) \in Nat \ {0} /\ b[Len(b)] \in D
  BY DEF Segmented
<1>2. PICK x \in D, y \in D : x = a[Len(a)] /\ y = b[Len(b)]
  BY <1>1
<1>3. PICK e : e = Extended(a, c)
  OBVIOUS
<1>4. /\ c = "/" => /\ Len(e) = Len(a) + 1 /\ e[Len(a) + 1] = <<>>
                    /\ \A k \in 1..Len(a) : e[k] = a[k]
      /\ c # "/" => /\ Len(e) = Len(a) /\ e[Len(a)] = Append(x, c)
                    /\ \A k \in 1..(Len(a) - 1) : e[k] = a[k]
  BY ONLY <1>2, <1>3, ExtendedType, a \in Segmented(C), c \in C
<1>5. /\ d = "/" => /\ Len(e) = Len(b) + 1 /\ e[Len(b) + 1] = <<>>
                    /\ \A k \in 1..Len(b) : e[k] = b[k]
      /\ d # "/" => /\ Len(e) = Len(b) /\ e[Len(b)] = Append(y, d)
                    /\ \A k \in 1..(Len(b) - 1) : e[k] = b[k]
  <2>1. e = Extended(b, d)
    BY <1>3
  <2> QED
    BY ONLY <1>2, <2>1, ExtendedType, b \in Segmented(C), d \in C
<1>6. Append(x, c) # <<>> /\ Append(y, d) # <<>>
  <2>1. x \in Seq(C) /\ y \in Seq(C)
    BY <1>2
  <2> QED
    BY ONLY <2>1, c \in C, d \in C, AppendProperties
<1>7. c = "/" <=> d = "/"
  <2>1. ASSUME c = "/", d # "/" PROVE FALSE
    <3>1. Len(a) + 1 = Len(b) /\ e[Len(a) + 1] = <<>> /\ e[Len(b)] = Append(y, d)
      BY <1>4, <1>5, <2>1
    <3> QED
      BY <1>6, <3>1
  <2>2. ASSUME c # "/", d = "/" PROVE FALSE
    <3>1. Len(b) + 1 = Len(a) /\ e[Len(b) + 1] = <<>> /\ e[Len(a)] = Append(x, c)
      BY <1>4, <1>5, <2>2
    <3> QED
      BY <1>6, <3>1
  <2> QED
    BY <2>1, <2>2
<1>8. CASE c = "/"
  <2>1. Len(a) = Len(b) /\ \A k \in 1..Len(a) : a[k] = b[k]
    BY <1>1, <1>4, <1>5, <1>7, <1>8
  <2>2. a = b
    <3> HIDE DEF D
    <3> QED BY <1>1, <2>1, SeqEqual
  <2> QED
    BY <1>7, <1>8, <2>2
<1>9. CASE c # "/"
  <2>1. Len(a) = Len(b) /\ \A k \in 1..(Len(a) - 1) : a[k] = b[k]
    BY <1>1, <1>4, <1>5, <1>7, <1>9
  <2>2. Append(x, c) = Append(y, d)
    BY <1>1, <1>4, <1>5, <1>7, <1>9, <2>1
  <2>3. x = y /\ c = d
    <3>1. x \in Seq(C) /\ y \in Seq(C)
      BY <1>2
    <3> QED
      BY ONLY <3>1, c \in C, d \in C, <2>2, AppendInjective
  <2>4. \A k \in 1..Len(a) : a[k] = b[k]
    BY <1>1, <1>2, <2>1, <2>3
  <2>5. a = b
    <3> HIDE DEF D
    <3> QED BY <1>1, <2>1, <2>4, SeqEqual
  <2> QED
    BY <2>3, <2>5
<1> QED
  BY <1>8, <1>9

(* Only the empty text has one empty segment.                              *)
LEMMA ExtendedIsMore ==
  ASSUME NEW C, NEW a \in Segmented(C), NEW c \in C
  PROVE  Extended(a, c) # NoSegments
<1>1. Len(a) \in Nat \ {0} /\ a[Len(a)] \in Seq(C)
  BY DEF Segmented
<1>2. Len(NoSegments) = 1 /\ NoSegments[1] = <<>>
  BY DEF NoSegments
<1>3. CASE c = "/"
  BY <1>1, <1>2, <1>3, ExtendedType
<1>4. CASE c # "/"
  <2>1. Append(a[Len(a)], c) # <<>>
    BY <1>1
  <2> QED
    BY <1>1, <1>2, <1>4, <2>1, ExtendedType
<1> QED
  BY <1>3, <1>4

(* Two texts with the same segments are the same: comparing a pattern      *)
(* without * to a path as a whole compares them segment by segment.        *)
LEMMA SplitInjective ==
  ASSUME NEW C, NEW s \in Seq(C), NEW t \in Seq(C), Split(s) = Split(t)
  PROVE  s = t
<1> DEFINE f == Segments(s)
           g == Segments(t)
           V == Segmented(C)
           l == Len(s)
           Same(n, m) == n = m /\ \A k \in 1..n : s[k] = t[k]
           T == {n \in 0..l : \A m \in 0..Len(t) : f[n] = g[m] => Same(n, m)}
<1>1. /\ f[l] = g[Len(t)]
      /\ f \in [0..l -> V] /\ f[0] = NoSegments /\ \A n \in 1..l : f[n] = Extended(f[n - 1], s[n])
      /\ g \in [0..Len(t) -> V] /\ g[0] = NoSegments /\ \A n \in 1..Len(t) : g[n] = Extended(g[n - 1], t[n])
  BY SplitRuns
<1>2. /\ l \in Nat /\ Len(t) \in Nat
      /\ \A n \in 1..l : s[n] \in C
      /\ \A n \in 1..Len(t) : t[n] \in C
  OBVIOUS
<1> HIDE DEF f, g, V
<1>3. \A n \in 1..l : f[n - 1] \in V /\ f[n] # NoSegments
  <2> SUFFICES ASSUME NEW n \in 1..l PROVE f[n - 1] \in V /\ f[n] # NoSegments
    OBVIOUS
  <2>1. f[n - 1] \in V /\ f[n] = Extended(f[n - 1], s[n]) /\ s[n] \in C
    <3>1. n - 1 \in 0..l
      BY <1>2
    <3> HIDE DEF l
    <3> QED BY ONLY <1>1, <1>2, <3>1, n \in 1..l
  <2> QED
    BY ONLY <2>1, ExtendedIsMore, Zenon DEF V
<1>4. \A n \in 1..Len(t) : g[n - 1] \in V /\ g[n] # NoSegments
  <2> SUFFICES ASSUME NEW n \in 1..Len(t) PROVE g[n - 1] \in V /\ g[n] # NoSegments
    OBVIOUS
  <2>1. g[n - 1] \in V /\ g[n] = Extended(g[n - 1], t[n]) /\ t[n] \in C
    BY <1>1, <1>2
  <2> QED
    BY ONLY <2>1, ExtendedIsMore, Zenon DEF V
<1>5. 0 \in T
  BY <1>1, <1>2, <1>4
<1>6. ASSUME NEW n \in 0..(l - 1), n \in T PROVE n + 1 \in T
  <2> SUFFICES ASSUME NEW m \in 0..Len(t), f[n + 1] = g[m] PROVE Same(n + 1, m)
    BY <1>2
  <2>1. n + 1 \in 1..l
    BY <1>2
  <2>2. m \in 1..Len(t) /\ m - 1 \in 0..Len(t)
    BY <2>1, <1>1, <1>2, <1>3
  <2>3. f[n + 1] = Extended(f[n], s[n + 1]) /\ f[n] \in V /\ s[n + 1] \in C
    BY <2>1, <1>1, <1>2, <1>3
  <2>4. g[m] = Extended(g[m - 1], t[m]) /\ g[m - 1] \in V /\ t[m] \in C
    BY <2>2, <1>1, <1>2, <1>4
  <2>5. f[n] = g[m - 1] /\ s[n + 1] = t[m]
    <3>1. PICK a, b, c, d : a = f[n] /\ b = g[m - 1] /\ c = s[n + 1] /\ d = t[m]
      OBVIOUS
    <3>2. a \in Segmented(C) /\ b \in Segmented(C) /\ c \in C /\ d \in C /\ Extended(a, c) = Extended(b, d)
      BY ONLY <2>3, <2>4, f[n + 1] = g[m], <3>1, Zenon DEF V
    <3>3. a = b /\ c = d
      BY ONLY <3>2, ExtendedInjective
    <3> QED
      BY <3>1, <3>3
  <2>6. Same(n, m - 1)
    BY <1>6, <2>2, <2>5
  <2> QED
    BY <2>2, <2>5, <2>6
<1>7. \A n \in 0..l : n \in T
  <2> HIDE DEF T, l
  <2> QED BY <1>2, <1>5, <1>6, Induction
<1>8. Same(l, Len(t))
  BY <1>1, <1>2, <1>7
<1> QED
  BY <1>8, SeqEqual

(* Without ** the only way to lay a pattern along a path is segment by     *)
(* segment, which is what pathMatches does.                                *)
LEMMA CoversBySegments ==
  ASSUME NEW S, NEW ps \in Seq(S), NEW ts \in Seq(S),
         \A i \in 1..Len(ps) : ps[i] # TwoStars
  PROVE  Covers(ps, ts) <=> SegmentsMatch(ps, ts)
<1> DEFINE l == Len(ps)
           Laid(at) == /\ at \in [0..l -> 0..Len(ts)]
                       /\ at[0] = 0 /\ at[l] = Len(ts)
                       /\ \A i \in 1..l : at[i] = at[i - 1] + 1 /\ ps[i] \in {Star, ts[at[i]]}
<1>1. l \in Nat /\ Len(ts) \in Nat /\ DOMAIN ps = 1..l
  OBVIOUS
<1>2. Covers(ps, ts) <=> \E at : Laid(at)
  BY <1>1 DEF Covers
<1>3. ASSUME NEW at, Laid(at) PROVE SegmentsMatch(ps, ts)
  <2> DEFINE T == {i \in 0..l : at[i] = i}
  <2>1. 0 \in T
    BY <1>1, <1>3
  <2>2. ASSUME NEW i \in 0..(l - 1), i \in T PROVE i + 1 \in T
    BY <1>1, <1>3, <2>2
  <2>3. \A i \in 0..l : i \in T
    <3> HIDE DEF T, l
    <3> QED BY <1>1, <2>1, <2>2, Induction
  <2> QED
    BY <1>1, <1>3, <2>3 DEF SegmentsMatch
<1>4. ASSUME SegmentsMatch(ps, ts) PROVE Laid([i \in 0..l |-> i])
  BY <1>1, <1>4 DEF SegmentsMatch
<1> QED
  BY <1>2, <1>3, <1>4

(* Split gives a sequence of texts over the same characters.               *)
LEMMA SplitType ==
  ASSUME NEW C, NEW s \in Seq(C)
  PROVE  Split(s) \in Seq(Seq(C))
<1>1. Len(s) \in 0..Len(s)
  OBVIOUS
<1>2. Split(s) \in Segmented(C)
  BY <1>1, SplitRuns
<1> QED
  BY <1>2 DEF Segmented

(* A text without the character * has neither * nor ** among its segments. *)
LEMMA SplitPlain ==
  ASSUME NEW C, NEW s \in Seq(C), "*" \notin C
  PROVE  \A i \in 1..Len(Split(s)) : Split(s)[i] # Star /\ Split(s)[i] # TwoStars
<1> DEFINE D == Seq(C)
<1>1. PICK a : a = Split(s)
  OBVIOUS
<1>2. a \in Seq(D)
  BY <1>1, SplitType
<1>3. \A i \in 1..Len(a) : a[i] \in D
  <2> HIDE DEF D
  <2> QED BY <1>2
<1>4. ASSUME NEW x \in D PROVE x # Star /\ x # TwoStars
  <2>1. Len(x) > 0 => x[1] # "*"
    OBVIOUS
  <2> QED
    BY <2>1 DEF Star, TwoStars
<1> QED
  BY <1>1, <1>3, <1>4

(* A nonempty set of numbers up to n has a greatest element.               *)
LEMMA GreatestExists ==
  ASSUME NEW n \in Nat, NEW T, T \subseteq 1..n, T # {}
  PROVE  \E i \in T : \A j \in T : j <= i
<1> DEFINE Below == {m \in 0..n : n - m \in T}
<1>1. PICK k \in T : TRUE
  OBVIOUS
<1>2. k \in 1..n /\ n - k \in 0..n /\ n - (n - k) = k
  BY <1>1
<1>3. Below \subseteq Nat /\ Below # {}
  <2>1. n - k \in Below
    BY <1>1, <1>2
  <2>2. Below \subseteq Nat
    OBVIOUS
  <2> HIDE DEF Below
  <2> QED
    BY <2>1, <2>2
<1>4. PICK m \in Below : \A j \in Below : m <= j
  <2> HIDE DEF Below
  <2> QED BY <1>3, LeastExists
<1>5. ASSUME NEW j \in T PROVE j <= n - m
  <2>1. j \in 1..n /\ n - j \in 0..n /\ n - (n - j) = j
    OBVIOUS
  <2>2. n - j \in Below
    BY <2>1
  <2>3. m \in 0..n /\ m <= n - j
    BY <1>4, <2>2
  <2> HIDE DEF Below
  <2> QED
    BY ONLY <2>1, <2>3, n \in Nat
<1>6. n - m \in T
  BY <1>4
<1> QED
  BY <1>5, <1>6

(* Trim takes characters away and adds none.                               *)
LEMMA TrimType ==
  ASSUME NEW C, NEW s \in Seq(C)
  PROVE  Trim(s) \in Seq(C)
<1> DEFINE kept == {i \in DOMAIN s : s[i] # "/"}
<1>1. CASE kept = {}
  BY <1>1 DEF Trim
<1>2. CASE kept # {}
  <2>1. Len(s) \in Nat /\ kept \subseteq 1..Len(s)
    OBVIOUS
  <2>2. Min(kept) \in kept
    <3> HIDE DEF kept
    <3>1. \E i \in kept : \A j \in kept : i <= j
      <4>1. kept \subseteq Nat
        BY <2>1
      <4> QED BY <1>2, <4>1, LeastExists
    <3> QED BY <3>1 DEF Min
  <2>3. Max(kept) \in kept
    <3> HIDE DEF kept
    <3>1. \E i \in kept : \A j \in kept : j <= i
      BY <1>2, <2>1, GreatestExists
    <3>2. \E i \in kept : \A j \in kept : i >= j
      BY <3>1, <2>1
    <3> QED BY <3>2 DEF Max
  <2>4. Trim(s) = SubSeq(s, Min(kept), Max(kept))
    BY <1>2 DEF Trim
  <2> HIDE DEF kept
  <2>5. PICK m \in 1..Len(s), n \in 1..Len(s) : Trim(s) = SubSeq(s, m, n)
    BY <2>1, <2>2, <2>3, <2>4
  <2>6. SubSeq(s, m, n) \in Seq(C)
    BY <2>1, <2>5, SubSeqProperties
  <2> QED
    BY <2>5, <2>6
<1> QED
  BY <1>1, <1>2

(* A pattern that ends in **, or has no segment **.                        *)
StarsLast(pattern) ==
  LET p == Trim(pattern)
  IN  HasSuffix(p, TwoStars) \/ \A i \in 1..Len(Split(p)) : Split(p)[i] # TwoStars

(* The rules of all policies have such patterns.                           *)
StarsOnlyLast == \A rules \in Rules : \A k \in DOMAIN rules : StarsLast(rules[k].path)

(* pathMatches on the texts is the question asked segment by segment, for  *)
(* every path and every pattern that has ** at its end or not at all.      *)
LEMMA MatchesIsPathMatches ==
  ASSUME NEW rule, NEW path \in Seq(STRING), rule.path \in Seq(STRING), StarsLast(rule.path)
  PROVE  Matches(rule, path) <=> pathMatches(rule.path, path)
<1> DEFINE S == Seq(STRING)
<1>1. PICK p \in S, t \in S : p = Trim(rule.path) /\ t = Trim(path)
  BY TrimType
<1>2. PICK ps, ts : ps = Split(p) /\ ts = Split(t)
  OBVIOUS
<1>3. ps \in Seq(S) /\ ts \in Seq(S)
  BY <1>1, <1>2, SplitType
<1> HIDE DEF S
<1>4. CASE HasSuffix(p, TwoStars)
  BY <1>1, <1>4 DEF Matches
<1>5. CASE ~HasSuffix(p, TwoStars)
  <2>1. \A i \in 1..Len(ps) : ps[i] # TwoStars
    BY <1>1, <1>2, <1>5 DEF StarsLast
  <2>2. Matches(rule, path) <=> Covers(ps, ts)
    BY <1>1, <1>2, <1>5 DEF Matches, CoversPath
  <2>3. Covers(ps, ts) <=> SegmentsMatch(ps, ts)
    BY ONLY <1>3, <2>1, CoversBySegments
  <2>4. CASE \E i \in DOMAIN p : p[i] = "*"
    BY <1>1, <1>2, <1>5, <2>2, <2>3, <2>4 DEF pathMatches
  <2>5. CASE ~\E i \in DOMAIN p : p[i] = "*"
    <3>1. pathMatches(rule.path, path) <=> p = t
      BY <1>1, <1>5, <2>5 DEF pathMatches
    <3>2. p \in Seq(STRING \ {"*"})
      BY <1>1, <2>5 DEF S
    <3>3. \A i \in 1..Len(ps) : ps[i] # Star
      BY <1>2, <3>2, SplitPlain
    <3>4. SegmentsMatch(ps, ts) <=> ps = ts
      BY <1>3, <3>3, SeqEqual DEF SegmentsMatch
    <3>5. ps = ts <=> p = t
      BY <1>1, <1>2, SplitInjective DEF S
    <3> QED
      BY <2>2, <2>3, <3>1, <3>4, <3>5
  <2> QED
    BY <2>4, <2>5
<1> QED
  BY <1>4, <1>5

-----------------------------------------------------------------------------
(***************************************************************************)
(* Decisions.                                                              *)
(***************************************************************************)
(* What the k-th rule of the i-th policy says of request r. *)
Said(r, i, k) == Step(RulesAt(r, i)[k], r.path, ActionToCapability(r.action), r.context)

(* No rule looked at before the k-th of the i-th policy says anything. *)
SilentBefore(r, i, k) ==
  \A j \in 1..i : \A l \in 1..Len(RulesAt(r, j)) : j < i \/ l < k => Said(r, j, l) = <<>>

(* o is what the first of the rules to say anything says. *)
FirstSaid(o, rules, path, capability, context) ==
  LET says(k) == Step(rules[k], path, capability, context)
  IN  \/ o = <<>> /\ \A k \in 1..Len(rules) : says(k) = <<>>
      \/ \E k \in 1..Len(rules) : says(k) # <<>> /\ o = says(k) /\ \A l \in 1..(k - 1) : says(l) = <<>>

(* The loop over the rules of a policy stops at the first that decides.    *)
LEMMA InPolicyFinds ==
  ASSUME NEW rules, Len(rules) \in Nat, NEW path, NEW capability, NEW context
  PROVE  FirstSaid(InPolicy(rules, path, capability, context), rules, path, capability, context)
<1> DEFINE n == Len(rules)
           outcomes == [k \in 1..n |-> Step(rules[k], path, capability, context)]
           S == {outcomes[k] : k \in 1..n}
<1>1. \A k \in 1..n : outcomes[k] = Step(rules[k], path, capability, context)
  OBVIOUS
<1>2. outcomes \in Seq(S) /\ Len(outcomes) = n
  OBVIOUS
<1>3. InPolicy(rules, path, capability, context) = FirstOutcome(outcomes)
  BY DEF InPolicy
<1> HIDE DEF outcomes, S
<1>4. \/ FirstOutcome(outcomes) = <<>> /\ \A i \in 1..Len(outcomes) : outcomes[i] = <<>>
      \/ \E i \in 1..Len(outcomes) : /\ outcomes[i] # <<>> /\ FirstOutcome(outcomes) = outcomes[i]
                                     /\ \A j \in 1..(i - 1) : outcomes[j] = <<>>
  BY ONLY <1>2, FirstOutcomeFound
<1>5. ASSUME NEW k \in 1..n, NEW l \in 1..(k - 1) PROVE l \in 1..n
  OBVIOUS
<1> QED
  BY <1>1, <1>2, <1>3, <1>4, <1>5 DEF FirstSaid

(* The decision on r is that of the first rule to say anything, if one does. *)
DecidedByFirst(r) ==
  \/ /\ EvaluatePolicy(r) = NoRule
     /\ \A i \in 1..Len(r.names) : \A k \in 1..Len(RulesAt(r, i)) : Said(r, i, k) = <<>>
  \/ \E i \in 1..Len(r.names) : \E k \in 1..Len(RulesAt(r, i)) :
       /\ Said(r, i, k) # <<>> /\ EvaluatePolicy(r) = Said(r, i, k)[1]
       /\ SilentBefore(r, i, k)

(* The two loops of Evaluate together stop at the first rule that decides, *)
(* in the order of the names and of the rules under each; names without a  *)
(* policy are passed over.                                                 *)
LEMMA EvaluateFinds ==
  ASSUME NEW r, Len(r.names) \in Nat, \A i \in 1..Len(r.names) : Len(RulesAt(r, i)) \in Nat
  PROVE  DecidedByFirst(r)
<1> DEFINE n == Len(r.names)
           cap == ActionToCapability(r.action)
           Outcome(i) == IF evaluator[r.names[i]] = NoRules THEN <<>>
                         ELSE InPolicy(evaluator[r.names[i]], r.path, cap, r.context)
           outcomes == [i \in 1..n |-> Outcome(i)]
           S == {outcomes[i] : i \in 1..n}
           Size(i) == Len(RulesAt(r, i))
<1>1. \A i \in 1..n : outcomes[i] = Outcome(i)
  OBVIOUS
<1>2. outcomes \in Seq(S) /\ Len(outcomes) = n
  OBVIOUS
<1>3. EvaluatePolicy(r) = IF FirstOutcome(outcomes) = <<>> THEN NoRule ELSE FirstOutcome(outcomes)[1]
  BY DEF EvaluatePolicy, Evaluate
<1>4. ASSUME NEW i \in 1..n
      PROVE  \/ Outcome(i) = <<>> /\ \A k \in 1..Size(i) : Said(r, i, k) = <<>>
             \/ \E k \in 1..Size(i) : /\ Said(r, i, k) # <<>> /\ Outcome(i) = Said(r, i, k)
                                      /\ \A l \in 1..(k - 1) : Said(r, i, l) = <<>>
  <2>1. CASE evaluator[r.names[i]] = NoRules
    BY <2>1 DEF RulesAt
  <2>2. CASE evaluator[r.names[i]] # NoRules
    <3>1. RulesAt(r, i) = evaluator[r.names[i]] /\ Len(RulesAt(r, i)) \in Nat
      BY <2>2 DEF RulesAt
    <3>2. PICK rules : rules = RulesAt(r, i) /\ Len(rules) \in Nat
      BY <3>1
    <3>3. FirstSaid(InPolicy(rules, r.path, cap, r.context), rules, r.path, cap, r.context)
      BY ONLY <3>2, InPolicyFinds
    <3>4. PICK o : o = InPolicy(rules, r.path, cap, r.context)
      OBVIOUS
    <3>5. Outcome(i) = o
      BY <2>2, <3>1, <3>2, <3>4
    <3>6. \A k : Said(r, i, k) = Step(rules[k], r.path, cap, r.context)
      BY <3>2 DEF Said
    <3>7. FirstSaid(o, rules, r.path, cap, r.context)
      BY <3>3, <3>4
    <3> HIDE DEF Outcome, cap
    <3> QED
      BY ONLY <3>2, <3>5, <3>6, <3>7 DEF FirstSaid
  <2> QED
    BY <2>1, <2>2
<1> HIDE DEF outcomes, S, Outcome
<1>5. \/ FirstOutcome(outcomes) = <<>> /\ \A i \in 1..Len(outcomes) : outcomes[i] = <<>>
      \/ \E i \in 1..Len(outcomes) : /\ outcomes[i] # <<>> /\ FirstOutcome(outcomes) = outcomes[i]
                                     /\ \A j \in 1..(i - 1) : outcomes[j] = <<>>
  BY ONLY <1>2, FirstOutcomeFound
<1>6. CASE FirstOutcome(outcomes) = <<>> /\ \A i \in 1..Len(outcomes) : outcomes[i] = <<>>
  BY <1>1, <1>2, <1>3, <1>4, <1>6 DEF DecidedByFirst
<1>7. CASE \E i \in 1..Len(outcomes) : /\ outcomes[i] # <<>> /\ FirstOutcome(outcomes) = outcomes[i]
                                       /\ \A j \in 1..(i - 1) : outcomes[j] = <<>>
  <2>1. PICK i \in 1..n : /\ outcomes[i] # <<>> /\ FirstOutcome(outcomes) = outcomes[i]
                          /\ \A j \in 1..(i - 1) : outcomes[j] = <<>>
    BY <1>2, <1>7
  <2>2. PICK k \in 1..Size(i) : /\ Said(r, i, k) # <<>> /\ outcomes[i] = Said(r, i, k)
                                /\ \A l \in 1..(k - 1) : Said(r, i, l) = <<>>
    BY <1>1, <1>4, <2>1
  <2>3. EvaluatePolicy(r) = Said(r, i, k)[1]
    BY <1>3, <2>1, <2>2
  <2>4. ASSUME NEW j \in 1..i, NEW l \in 1..Size(j), j < i \/ l < k PROVE Said(r, j, l) = <<>>
    <3>1. CASE j < i
      <4>1. j \in 1..(i - 1) /\ j \in 1..n
        BY <3>1
      <4>2. outcomes[j] = <<>> /\ outcomes[j] = Outcome(j)
        BY <2>1, <4>1, <1>1
      <4> QED
        BY <1>4, <4>1, <4>2
    <3>2. CASE j = i /\ l < k
      <4>1. l \in 1..(k - 1)
        BY <3>2
      <4> QED
        BY <2>2, <3>2, <4>1
    <3> QED
      BY <2>4, <3>1, <3>2
  <2>5. SilentBefore(r, i, k)
    BY <2>4 DEF SilentBefore
  <2> QED
    BY <2>2, <2>3, <2>5 DEF DecidedByFirst
<1> QED
  BY <1>5, <1>6, <1>7

(* checkConditions: the context has every condition, with its value.       *)
LEMMA ConditionsMet ==
  ASSUME NEW conds, NEW context
  PROVE  (\A k \in DOMAIN conds : <<k, conds[k]>> \in {<<x, context[x]>> : x \in DOMAIN context})
           <=> checkConditions(conds, context)
<1>1. ASSUME NEW k, NEW v
      PROVE  <<k, v>> \in {<<x, context[x]>> : x \in DOMAIN context} <=> k \in DOMAIN context /\ context[k] = v
  OBVIOUS
<1> QED
  BY <1>1 DEF checkConditions

(* What the loop makes of a rule is what the rule grants or forbids on its own. *)
SaysWhatItGrants(rule, path, capability, context) ==
  LET o == Step(rule, path, capability, context)
  IN  /\ Denies(rule, path) => o # <<>> /\ o[1].allowed = FALSE
      /\ ~Denies(rule, path) /\ Grants(rule, path, capability, context) => o # <<>> /\ o[1].allowed = TRUE
      /\ ~Denies(rule, path) /\ ~Grants(rule, path, capability, context) => o = <<>>

(* One round of the loop over the rules: a denial counts before a grant of *)
(* the same rule, and a rule that neither grants nor denies says nothing.  *)
LEMMA StepSays ==
  ASSUME NEW rule, NEW path \in Seq(STRING), rule.path \in Seq(STRING), StarsLast(rule.path),
         NEW capability, NEW context
  PROVE  SaysWhatItGrants(rule, path, capability, context)
<1>1. Matches(rule, path) <=> pathMatches(rule.path, path)
  BY MatchesIsPathMatches
<1>2. Grants(rule, path, capability, context) <=>
        /\ pathMatches(rule.path, path)
        /\ "sudo" \in rule.caps \/ (capability \in rule.caps /\ checkConditions(rule.conds, context))
  BY <1>1, ConditionsMet DEF Grants
<1>3. Denies(rule, path) <=> pathMatches(rule.path, path) /\ "deny" \in rule.caps
  BY <1>1 DEF Denies
<1>4. ASSUME NEW b, NEW p
      PROVE  <<[allowed |-> b, rule |-> p]>> # <<>> /\ <<[allowed |-> b, rule |-> p]>>[1].allowed = b
  OBVIOUS
<1> QED
  BY <1>2, <1>3, <1>4 DEF Step, SaysWhatItGrants

(* The decision on one request, on whatever rules the evaluator has.  If   *)
(* it is allowed, the rule that decided grants it and no earlier one       *)
(* denies; and if a rule grants it with no denial up to it, the rule that  *)
(* decided is that one or an earlier one, and does not deny.               *)
LEMMA DecisionOnRules ==
  ASSUME NEW r, r.names \in Seq(Names), r.path \in Seq(STRING), PolicyTypeOK,
         StarsOnlyLast
  PROVE  EvaluatePolicy(r).allowed <=>
           \E i \in DOMAIN r.names : \E k \in DOMAIN RulesAt(r, i) :
             /\ Grants(RulesAt(r, i)[k], r.path, ActionToCapability(r.action), r.context)
             /\ \A j \in 1..i : \A l \in DOMAIN RulesAt(r, j) :
                  j < i \/ l <= k => ~Denies(RulesAt(r, j)[l], r.path)
<1> DEFINE n == Len(r.names)
           Size(i) == Len(RulesAt(r, i))
           D(i, k) == Denies(RulesAt(r, i)[k], r.path)
           G(i, k) == Grants(RulesAt(r, i)[k], r.path, ActionToCapability(r.action), r.context)
<1>1. n \in Nat /\ DOMAIN r.names = 1..n
  OBVIOUS
<1>2. ASSUME NEW i \in 1..n
      PROVE  /\ Size(i) \in Nat /\ DOMAIN RulesAt(r, i) = 1..Size(i)
             /\ \A k \in 1..Size(i) : /\ RulesAt(r, i)[k].path \in Seq(STRING)
                                      /\ StarsLast(RulesAt(r, i)[k].path)
  <2>1. r.names[i] \in Names
    BY <1>1
  <2>2. evaluator[r.names[i]] \in Rules \cup {NoRules}
    BY <2>1 DEF PolicyTypeOK
  <2>3. CASE RulesAt(r, i) = <<>>
    BY <2>3
  <2>4. CASE RulesAt(r, i) \in Rules
    <3>1. PICK rules \in Rules : rules = RulesAt(r, i)
      BY <2>4
    <3>2. PICK S : rules \in Seq(S)
      BY <3>1, DecisionAssumption
    <3>3. Len(rules) \in Nat /\ DOMAIN rules = 1..Len(rules)
      BY <3>2
    <3> QED
      BY <3>1, <3>3, DecisionAssumption DEF StarsOnlyLast
  <2> QED
    BY <2>2, <2>3, <2>4 DEF RulesAt
<1>3. ASSUME NEW i \in 1..n, NEW k \in 1..Size(i)
      PROVE  /\ D(i, k) => Said(r, i, k) # <<>> /\ Said(r, i, k)[1].allowed = FALSE
             /\ ~D(i, k) /\ G(i, k) => Said(r, i, k) # <<>> /\ Said(r, i, k)[1].allowed = TRUE
             /\ ~D(i, k) /\ ~G(i, k) => Said(r, i, k) = <<>>
  <2>1. PICK rule, cap : rule = RulesAt(r, i)[k] /\ cap = ActionToCapability(r.action)
    OBVIOUS
  <2>2. rule.path \in Seq(STRING) /\ StarsLast(rule.path)
    BY <1>2, <2>1
  <2>3. PICK path : path = r.path /\ path \in Seq(STRING)
    OBVIOUS
  <2>4. SaysWhatItGrants(rule, path, cap, r.context)
    BY ONLY <2>2, <2>3, StepSays
  <2>5. Said(r, i, k) = Step(rule, path, cap, r.context)
    BY <2>1, <2>3 DEF Said
  <2> QED
    BY <2>1, <2>3, <2>4, <2>5 DEF SaysWhatItGrants
<1>4. \/ /\ EvaluatePolicy(r) = NoRule
         /\ \A i \in 1..n : \A k \in 1..Size(i) : Said(r, i, k) = <<>>
      \/ \E i \in 1..n : \E k \in 1..Size(i) :
           Said(r, i, k) # <<>> /\ EvaluatePolicy(r) = Said(r, i, k)[1] /\ SilentBefore(r, i, k)
  <2>1. \A i \in 1..n : Len(RulesAt(r, i)) \in Nat
    BY <1>2
  <2>2. DecidedByFirst(r)
    BY ONLY <1>1, <2>1, EvaluateFinds
  <2> QED
    BY ONLY <2>2 DEF DecidedByFirst
<1> DEFINE Undenied(i, k) == \A j \in 1..i : \A l \in 1..Size(j) : j < i \/ l <= k => ~D(j, l)
<1>5. SUFFICES EvaluatePolicy(r).allowed <=> \E i \in 1..n : \E k \in 1..Size(i) : G(i, k) /\ Undenied(i, k)
  <2>1. \A i \in 1..n : DOMAIN RulesAt(r, i) = 1..Size(i)
    BY ONLY <1>2, Zenon
  <2>2. \A i \in 1..n : \A j \in 1..i : j \in 1..n
    BY <1>1
  <2>3. \A i \in 1..n : \A k : Undenied(i, k) <=> \A j \in 1..i : \A l \in DOMAIN RulesAt(r, j) :
                                                  j < i \/ l <= k => ~D(j, l)
    BY ONLY <2>1, <2>2, Zenon
  <2> HIDE DEF Undenied
  <2>4. ASSUME NEW i \in 1..n
        PROVE  (\E k \in DOMAIN RulesAt(r, i) :
                  G(i, k) /\ \A j \in 1..i : \A l \in DOMAIN RulesAt(r, j) : j < i \/ l <= k => ~D(j, l))
                <=> \E k \in 1..Size(i) : G(i, k) /\ Undenied(i, k)
    <3> HIDE DEF G, D, Size
    <3> QED BY ONLY <2>1, <2>3, i \in 1..n
  <2> HIDE DEF n
  <2>5. DOMAIN r.names = 1..n
    BY <1>1
  <2>6. (\E i \in DOMAIN r.names : \E k \in DOMAIN RulesAt(r, i) :
           G(i, k) /\ \A j \in 1..i : \A l \in DOMAIN RulesAt(r, j) : j < i \/ l <= k => ~D(j, l))
        <=> \E i \in 1..n : \E k \in 1..Size(i) : G(i, k) /\ Undenied(i, k)
    <3> HIDE DEF G, D, Size
    <3> QED BY ONLY <2>4, <2>5
  <2> QED
    BY ONLY <1>5, <2>6
<1> HIDE DEF D, G, Size
<1>6. NoRule.allowed = FALSE
  BY DEF NoRule
<1>7. CASE /\ EvaluatePolicy(r) = NoRule
           /\ \A i \in 1..n : \A k \in 1..Size(i) : Said(r, i, k) = <<>>
  <2>1. ASSUME NEW i \in 1..n, NEW k \in 1..Size(i), G(i, k), Undenied(i, k) PROVE FALSE
    <3>1. ~D(i, k)
      BY <2>1, <1>1, <1>2
    <3> QED
      BY <1>3, <1>7, <2>1, <3>1
  <2> QED
    BY <1>6, <1>7, <2>1
<1>8. CASE \E i \in 1..n : \E k \in 1..Size(i) :
             Said(r, i, k) # <<>> /\ EvaluatePolicy(r) = Said(r, i, k)[1] /\ SilentBefore(r, i, k)
  <2>0. PICK i \in 1..n : \E k \in 1..Size(i) :
          Said(r, i, k) # <<>> /\ EvaluatePolicy(r) = Said(r, i, k)[1] /\ SilentBefore(r, i, k)
    BY <1>8
  <2>1. PICK k \in 1..Size(i) :
          Said(r, i, k) # <<>> /\ EvaluatePolicy(r) = Said(r, i, k)[1] /\ SilentBefore(r, i, k)
    BY <2>0
  <2>2. Size(i) \in Nat
    BY <1>2
  <2>3. ASSUME EvaluatePolicy(r).allowed PROVE G(i, k) /\ Undenied(i, k)
    <3>1. ~D(i, k) /\ G(i, k)
      BY <1>3, <2>1, <2>3
    <3>2. ASSUME NEW j \in 1..i, NEW l \in 1..Size(j), j < i \/ l <= k PROVE ~D(j, l)
      <4>1. j \in 1..n /\ Size(j) \in Nat
        BY <1>1, <1>2
      <4>2. CASE j < i \/ l < k
        <5>1. Said(r, j, l) = <<>>
          BY <2>1, <4>2 DEF SilentBefore, Size
        <5> QED
          BY <1>3, <4>1, <5>1
      <4>3. CASE j = i /\ l = k
        BY <3>1, <4>3
      <4> QED
        BY <2>2, <3>2, <4>1, <4>2, <4>3
    <3> QED
      BY <3>1, <3>2
  <2>4. ASSUME NEW a \in 1..n, NEW b \in 1..Size(a), G(a, b), Undenied(a, b)
        PROVE  EvaluatePolicy(r).allowed
    <3>1. Size(a) \in Nat
      BY <1>2
    <3>2. ~D(a, b) /\ Said(r, a, b) # <<>>
      <4>1. ~D(a, b)
        BY <2>4, <3>1, <1>1
      <4> QED
        BY <4>1, <1>3, <2>4
    <3>3. ~(a < i \/ (a = i /\ b < k))
      <4>1. a \in 1..i => (a < i \/ b < k => Said(r, a, b) = <<>>)
        BY <2>1 DEF SilentBefore, Size
      <4> QED
        BY <1>1, <2>2, <3>1, <3>2, <4>1
    <3>4. i < a \/ (i = a /\ k <= b)
      BY <1>1, <2>2, <3>1, <3>3
    <3>5. ~D(i, k)
      BY <1>1, <2>1, <2>4, <3>4
    <3> QED
      BY <1>3, <2>1, <3>5
  <2> QED
    BY <2>1, <2>3, <2>4
<1> QED
  BY <1>4, <1>7, <1>8

(* In every state of the policy tables, whatever changes are half done:    *)
(* EvaluatePolicy allows a request exactly when a rule of the policies it  *)
(* names grants it and no rule looked at before denies it, where a pattern *)
(* is read segment by segment.  For any requests, and any policies without *)
(* ** in the middle of a pattern.                                          *)
THEOREM DecisionsInOrder == StarsOnlyLast => (PolicySpec => []GrantedUnlessDeniedBefore)
<1> SUFFICES ASSUME StarsOnlyLast PROVE PolicySpec => []GrantedUnlessDeniedBefore
  OBVIOUS
<1>1. PolicyInv => GrantedUnlessDeniedBefore
  <2> SUFFICES ASSUME PolicyInv, NEW r \in Queries
               PROVE  EvaluatePolicy(r).allowed <=>
                        \E i \in DOMAIN r.names : \E k \in DOMAIN RulesAt(r, i) :
                          /\ Grants(RulesAt(r, i)[k], r.path, ActionToCapability(r.action), r.context)
                          /\ \A j \in 1..i : \A l \in DOMAIN RulesAt(r, j) :
                               j < i \/ l <= k => ~Denies(RulesAt(r, j)[l], r.path)
    BY DEF GrantedUnlessDeniedBefore
  <2>1. r.names \in Seq(Names) /\ r.path \in Seq(STRING) /\ PolicyTypeOK
    BY DecisionAssumption DEF PolicyInv
  <2> QED
    BY ONLY <2>1, StarsOnlyLast, DecisionOnRules
<1> QED
  BY <1>1, PolicyInitInv, PolicyNextInv, PTL DEF PolicySpec
-----------------------------------------------------------------------------
(***************************************************************************)
(* Tokens.  The invariant types the claims cache: each of its entries is a *)
(* token the service signed itself, whatever is evicted, touched or added  *)
(* by the calls in between.                                                *)
(***************************************************************************)
(* The entries the claims cache may hold. *)
OwnEntry == [k : own, info : 0..CacheTTL]

LEMMA RemoveTyped ==
  ASSUME NEW E, NEW cache \in Seq(E), NEW k
  PROVE  /\ CacheRemove(cache, k) \in Seq(E) /\ Len(CacheRemove(cache, k)) <= Len(cache)
         /\ CacheHas(cache, k) => Len(CacheRemove(cache, k)) + 1 = Len(cache)
<1> DEFINE i == CachePlace(cache, k)
           s == SubSeq(cache, 1, i - 1)
           t == SubSeq(cache, i + 1, Len(cache))
<1>1. CASE ~CacheHas(cache, k)
  BY <1>1 DEF CacheRemove
<1>2. CASE CacheHas(cache, k)
  <2>1. i \in 1..Len(cache) /\ Len(cache) \in Nat
    BY <1>2 DEF CacheHas, CachePlace
  <2>2. CacheRemove(cache, k) = s \o t
    BY <1>2, Zenon DEF CacheRemove
  <2> HIDE DEF i
  <2>3. s \in Seq(E) /\ Len(s) = i - 1 /\ t \in Seq(E) /\ Len(t) = Len(cache) - i
    BY <2>1
  <2> HIDE DEF s, t
  <2>4. s \o t \in Seq(E) /\ Len(s \o t) = Len(s) + Len(t)
    BY <2>3
  <2> QED
    BY <2>1, <2>2, <2>3, <2>4
<1> QED
  BY <1>1, <1>2

LEMMA AddTyped ==
  ASSUME NEW E, NEW cache \in Seq(E), NEW k, NEW info, [k |-> k, info |-> info] \in E,
         NEW size \in Nat, Len(cache) <= size
  PROVE  CacheAdd(cache, k, info, size) \in Seq(E) /\ Len(CacheAdd(cache, k, info, size)) <= size
<1> DEFINE e == [k |-> k, info |-> info]
           rest == CacheRemove(cache, k)
           added == Append(rest, e)
<1>1. rest \in Seq(E) /\ Len(rest) <= Len(cache) /\ Len(rest) \in Nat /\ Len(cache) \in Nat
  BY RemoveTyped
<1>2. CacheAdd(cache, k, info, size) = IF Len(added) > size THEN Tail(added) ELSE added
  BY DEF CacheAdd
<1>5. e \in E
  OBVIOUS
<1> HIDE DEF rest, e
<1>3. added \in Seq(E) /\ Len(added) = Len(rest) + 1
  BY <1>1, <1>5
<1> HIDE DEF added
<1>6. added # <<>>
  BY <1>1, <1>3
<1>4. Tail(added) \in Seq(E) /\ Len(Tail(added)) = Len(added) - 1
  BY <1>1, <1>3, <1>6
<1> QED
  BY <1>1, <1>2, <1>3, <1>4

LEMMA TouchTyped ==
  ASSUME NEW E, NEW cache \in Seq(E), NEW k, CacheHas(cache, k), \A e \in E : e = [k |-> e.k, info |-> e.info]
  PROVE  CacheTouch(cache, k) \in Seq(E) /\ Len(CacheTouch(cache, k)) = Len(cache)
<1> DEFINE i == CachePlace(cache, k)
           rest == CacheRemove(cache, k)
<1>1. i \in 1..Len(cache) /\ cache[i].k = k /\ cache[i] \in E
  BY DEF CacheHas, CachePlace
<1>2. CacheTouch(cache, k) = Append(rest, cache[i])
  BY <1>1 DEF CacheTouch, CacheInfo
<1>3. rest \in Seq(E) /\ Len(rest) + 1 = Len(cache)
  BY RemoveTyped
<1> HIDE DEF i, rest
<1> QED
  BY <1>1, <1>2, <1>3

(* A busy call has its fields, and going on changes its place only. *)
LEMMA BusyToken ==
  ASSUME NEW r \in Call, r.at # "idle"
  PROVE  /\ r \in [at : {"parse", "check", "cache", "claims"}, op : {"validate", "refresh"}, token : Tokens]
         /\ r.token \in Tokens
  BY DEF Call, Idle

LEMMA GotoTyped ==
  ASSUME call \in [Callers -> Call], NEW c \in Callers, call[c].at # "idle",
         NEW place \in {"check", "cache", "claims"}, Goto(c, place)
  PROVE  /\ call' \in [Callers -> Call]
         /\ call'[c].token = call[c].token
         /\ \A d \in Callers \ {c} : call'[d] = call[d]
<1> DEFINE r == call[c]
<1>1. r \in [at : {"parse", "check", "cache", "claims"}, op : {"validate", "refresh"}, token : Tokens]
  BY BusyToken
<1>2. call' = [call EXCEPT ![c] = [r EXCEPT !.at = place]]
  BY DEF Goto
<1> HIDE DEF r
<1>3. [r EXCEPT !.at = place] \in Call /\ [r EXCEPT !.at = place].token = r.token
  BY <1>1 DEF Call
<1> QED
  BY <1>2, <1>3 DEF r

LEMMA EndTyped ==
  ASSUME call \in [Callers -> Call], NEW c \in Callers, End(c)
  PROVE  /\ call' \in [Callers -> Call]
         /\ call'[c].at = "idle"
         /\ \A d \in Callers \ {c} : call'[d] = call[d]
  BY DEF End, Call, Idle

(* The claims cache and the calls behind the signature check hold tokens   *)
(* of this process only; the cache is a sequence of entries about them.    *)
TokenInv == TokenTypeOK /\ tokenCache \in Seq(OwnEntry) /\ OwnTokensOnly

LEMMA SeqGrows ==
  ASSUME NEW A, NEW B, A \subseteq B, NEW s \in Seq(A)
  PROVE  s \in Seq(B)
  OBVIOUS

LEMMA LifetimeBounded ==
  ASSUME NEW ttl \in Int
  PROVE  Lifetime(ttl) \in 0..MaxTTL
  BY TokenAssumption DEF Lifetime

LEMMA TokenInitInv == Init => TokenInv
<1> SUFFICES ASSUME Init
             PROVE  TokenInv
  OBVIOUS
<1>1. tokenCache = <<>> /\ <<>> \in Seq(OwnEntry) /\ Len(<<>>) = 0
  BY DEF Init
<1>2. left \in [Tokens -> 0..MaxTTL] /\ issued \in 0..MaxTokens
  BY TokenAssumption DEF Init
<1>3. call \in [Callers -> Call] /\ \A c \in Callers : call[c].at = "idle"
  BY DEF Init, Call, Idle
<1> QED
  BY <1>1, <1>2, <1>3, TokenAssumption DEF Init, TokenInv, TokenTypeOK, OwnTokensOnly

(* What the cache's type says of its entries. *)
LEMMA EntriesOwn ==
  ASSUME NEW n \in 0..MaxTokens, NEW owned \in SUBSET (1..n), NEW s \in Seq([k : owned, info : 0..CacheTTL])
  PROVE  \A i \in 1..Len(s) : s[i].k \in owned /\ s[i].k \in Tokens /\ s[i].info \in 0..CacheTTL
<1>1. owned \subseteq Tokens
  BY TokenAssumption DEF Tokens
<1>2. ASSUME NEW E, s \in Seq(E) PROVE \A i \in 1..Len(s) : s[i] \in E
  BY <1>2
<1>3. \A i \in 1..Len(s) : s[i] \in [k : owned, info : 0..CacheTTL]
  BY <1>2, Zenon
<1> QED
  BY <1>1, <1>3, Zenon

(* The invariant after a step, from the cache as a sequence and the calls. *)
LEMMA TokenInvAfter ==
  ASSUME /\ issued' \in 0..MaxTokens /\ left' \in [Tokens -> 0..MaxTTL]
         /\ own' \subseteq 1..issued' /\ revoked' \subseteq own'
         /\ tokenCache' \in Seq(OwnEntry') /\ Len(tokenCache') <= CacheSize
         /\ call' \in [Callers -> Call]
         /\ \A c \in Callers : call'[c].at \in {"check", "cache", "claims"} => call'[c].token \in own'
  PROVE  TokenInv'
<1>1. \A i \in 1..Len(tokenCache') :
        /\ tokenCache'[i].k \in own' /\ tokenCache'[i].k \in Tokens
        /\ tokenCache'[i].info \in 0..CacheTTL
  BY EntriesOwn DEF OwnEntry
<1> QED
  BY <1>1 DEF TokenInv, TokenTypeOK, OwnTokensOnly

(* A new token is this process's own, and the others stay so. *)
LEMMA IssueKeeps ==
  ASSUME TokenInv, NEW ttl \in Int, Issue(ttl)
  PROVE  /\ issued' \in 0..MaxTokens /\ left' \in [Tokens -> 0..MaxTTL]
         /\ own' \subseteq 1..issued' /\ own \subseteq own'
         /\ tokenCache \in Seq(OwnEntry')
<1>1. issued \in 0..MaxTokens /\ issued < MaxTokens /\ issued' = issued + 1 /\ MaxTokens \in Nat
  BY TokenAssumption DEF TokenInv, TokenTypeOK, Issue
<1>2. left' \in [Tokens -> 0..MaxTTL]
  BY LifetimeBounded, Zenon DEF TokenInv, TokenTypeOK, Issue
<1>3. own' = own \cup {issued'} /\ own \subseteq 1..issued
  BY DEF TokenInv, TokenTypeOK, Issue
<1>4. own' \subseteq 1..issued' /\ own \subseteq own'
  BY <1>1, <1>3
<1>5. OwnEntry \subseteq OwnEntry'
  BY <1>4, Zenon DEF OwnEntry
<1>6. tokenCache \in Seq(OwnEntry')
  BY <1>5, SeqGrows DEF TokenInv
<1> QED
  BY <1>1, <1>2, <1>4, <1>6

(* A call that goes on, with the cache as it is, past a check that its     *)
(* token has passed.                                                       *)
LEMMA GoesOnInv ==
  ASSUME TokenInv, NEW c \in Callers, call[c].at # "idle", NEW place \in {"check", "cache", "claims"},
         Goto(c, place), call[c].token \in own,
         UNCHANGED <<issued, left, own, revoked>>, tokenCache' \in Seq(OwnEntry), Len(tokenCache') <= CacheSize
  PROVE  TokenInv'
<1>1. /\ call' \in [Callers -> Call] /\ call'[c].token = call[c].token
      /\ \A d \in Callers \ {c} : call'[d] = call[d]
  BY GotoTyped DEF TokenInv, TokenTypeOK
<1>2. \A d \in Callers : call'[d].at \in {"check", "cache", "claims"} => call'[d].token \in own'
  BY <1>1 DEF TokenInv, OwnTokensOnly
<1>3. OwnEntry' = OwnEntry
  BY DEF OwnEntry
<1> QED
  BY <1>1, <1>2, <1>3, TokenInvAfter DEF TokenInv, TokenTypeOK

(* A call that ends. *)
LEMMA EndsInv ==
  ASSUME TokenInv, NEW c \in Callers, End(c), own \subseteq own', revoked' = revoked, tokenCache' = tokenCache,
         issued' \in 0..MaxTokens, left' \in [Tokens -> 0..MaxTTL], own' \subseteq 1..issued',
         tokenCache \in Seq(OwnEntry')
  PROVE  TokenInv'
<1>1. /\ call' \in [Callers -> Call] /\ call'[c].at = "idle"
      /\ \A d \in Callers \ {c} : call'[d] = call[d]
  BY EndTyped DEF TokenInv, TokenTypeOK
<1>2. \A d \in Callers : call'[d].at \in {"check", "cache", "claims"} => call'[d].token \in own'
  BY <1>1, Zenon DEF TokenInv, OwnTokensOnly
<1> QED
  BY <1>1, <1>2, TokenInvAfter DEF TokenInv, TokenTypeOK

(* LRUCache.Get answers with claims of this process. *)
LEMMA StartKeepsInv ==
  ASSUME TokenInv, NEW c \in Callers, NEW op \in {"validate", "refresh"}, NEW i \in Tokens, Start(c, op, i)
  PROVE  TokenInv'
<1> DEFINE place == IF Fresh(i) THEN "claims" ELSE "parse"
           r == [at |-> place, op |-> op, token |-> i]
<1>1. /\ call' = [call EXCEPT ![c] = r]
      /\ tokenCache' = IF Fresh(i) THEN CacheTouch(tokenCache, i) ELSE CacheRemove(tokenCache, i)
      /\ UNCHANGED <<issued, left, own, revoked>>
  BY DEF Start
<1>2. place \in {"claims", "parse"} /\ (place = "claims" => Fresh(i))
  OBVIOUS
<1>3. \A e \in OwnEntry : e = [k |-> e.k, info |-> e.info]
  BY DEF OwnEntry
<1>4. tokenCache \in Seq(OwnEntry) /\ Len(tokenCache) <= CacheSize
  BY DEF TokenInv, TokenTypeOK
<1> HIDE DEF place
<1>5. r \in Call /\ r.at = place /\ r.token = i
  BY <1>2 DEF Call
<1>6. tokenCache' \in Seq(OwnEntry) /\ Len(tokenCache') <= CacheSize
  <2>1. CASE Fresh(i)
    <3>1. CacheHas(tokenCache, i)
      BY <2>1 DEF Fresh
    <3>2. CacheTouch(tokenCache, i) \in Seq(OwnEntry) /\ Len(CacheTouch(tokenCache, i)) = Len(tokenCache)
      BY <1>3, <1>4, <3>1, TouchTyped
    <3> QED
      BY <1>1, <1>4, <2>1, <3>2
  <2>2. CASE ~Fresh(i)
    <3>1. CacheRemove(tokenCache, i) \in Seq(OwnEntry) /\ Len(CacheRemove(tokenCache, i)) <= Len(tokenCache)
      BY <1>4, RemoveTyped
    <3>2. Len(CacheRemove(tokenCache, i)) \in Nat /\ Len(tokenCache) \in Nat /\ CacheSize \in Nat
      BY <1>4, <3>1, TokenAssumption
    <3>3. Len(CacheRemove(tokenCache, i)) <= CacheSize
      BY <1>4, <3>1, <3>2
    <3> QED
      BY <1>1, <2>2, <3>1, <3>3
  <2> QED
    BY <2>1, <2>2
<1>7. place = "claims" => i \in own
  <2> SUFFICES ASSUME place = "claims" PROVE i \in own
    OBVIOUS
  <2>1. CacheHas(tokenCache, i)
    BY <1>2 DEF Fresh
  <2> QED
    BY <2>1 DEF CacheHas, TokenInv, OwnTokensOnly
<1> HIDE DEF r
<1>8. /\ call' \in [Callers -> Call] /\ call'[c] = r
      /\ \A d \in Callers \ {c} : call'[d] = call[d]
  BY <1>1, <1>5 DEF TokenInv, TokenTypeOK
<1>9. \A d \in Callers : call'[d].at \in {"check", "cache", "claims"} => call'[d].token \in own'
  BY <1>1, <1>2, <1>5, <1>7, <1>8 DEF TokenInv, OwnTokensOnly
<1>10. OwnEntry' = OwnEntry
  BY <1>1 DEF OwnEntry
<1> QED
  BY <1>1, <1>6, <1>8, <1>9, <1>10, TokenInvAfter DEF TokenInv, TokenTypeOK

LEMMA TickKeepsInv ==
  ASSUME TokenInv, Tick
  PROVE  TokenInv'
<1> DEFINE Aged(e) == [e EXCEPT !.info = IF @ > 0 THEN @ - 1 ELSE 0]
<1>1. /\ tokenCache \in Seq(OwnEntry) /\ DOMAIN tokenCache = 1..Len(tokenCache) /\ Len(tokenCache) \in Nat
      /\ \A j \in 1..Len(tokenCache) : tokenCache[j] \in OwnEntry
  BY DEF TokenInv
<1>2. ASSUME NEW e \in OwnEntry PROVE Aged(e) \in OwnEntry
  <2> DEFINE x == IF e.info > 0 THEN e.info - 1 ELSE 0
  <2>1. e.info \in 0..CacheTTL /\ e.k \in own
    BY DEF OwnEntry
  <2>2. x \in 0..CacheTTL
    BY <2>1, TokenAssumption
  <2>3. Aged(e) = [e EXCEPT !.info = x]
    OBVIOUS
  <2> HIDE DEF x
  <2>4. [e EXCEPT !.info = x] \in OwnEntry
    BY <2>1, <2>2 DEF OwnEntry
  <2> QED
    BY <2>3, <2>4
<1>3. tokenCache' = [j \in 1..Len(tokenCache) |-> Aged(tokenCache[j])]
  BY <1>1 DEF Tick
<1> HIDE DEF Aged
<1>4. tokenCache' \in Seq(OwnEntry) /\ Len(tokenCache') = Len(tokenCache)
  BY <1>1, <1>2, <1>3
<1>5. left' \in [Tokens -> 0..MaxTTL]
  BY TokenAssumption DEF Tick, TokenInv, TokenTypeOK
<1>6. issued' = issued /\ own' = own /\ revoked' = revoked /\ call' = call /\ OwnEntry' = OwnEntry
  BY DEF Tick, OwnEntry
<1> QED
  BY <1>4, <1>5, <1>6, TokenInvAfter DEF TokenInv, TokenTypeOK, OwnTokensOnly

LEMMA RestartKeepsInv ==
  ASSUME TokenInv, Restart
  PROVE  TokenInv'
<1>1. tokenCache' = <<>> /\ <<>> \in Seq(OwnEntry') /\ Len(<<>>) = 0 /\ 0 <= CacheSize
  BY TokenAssumption DEF Restart
<1>2. call' \in [Callers -> Call] /\ \A c \in Callers : call'[c].at = "idle"
  BY DEF Restart, Call, Idle
<1> QED
  BY <1>1, <1>2, TokenInvAfter DEF Restart, TokenInv, TokenTypeOK

LEMMA TokenStepInv == TokenInv /\ [Next]_vars => TokenInv'
<1> SUFFICES ASSUME TokenInv, [Next]_vars
             PROVE  TokenInv'
  OBVIOUS
<1>t. /\ tokenCache \in Seq(OwnEntry) /\ Len(tokenCache) <= CacheSize
      /\ issued \in 0..MaxTokens /\ left \in [Tokens -> 0..MaxTTL] /\ own \subseteq 1..issued
      /\ call \in [Callers -> Call] /\ revoked \subseteq own
  BY DEF TokenInv, TokenTypeOK
<1>o. \A c \in Callers : call[c].at \in {"check", "cache", "claims"} => call[c].token \in own
  BY DEF TokenInv, OwnTokensOnly
<1>1. ASSUME NEW ttl \in TTLs, CreateToken(ttl)
      PROVE  TokenInv'
  <2>1. ttl \in Int /\ Issue(ttl) /\ revoked' = revoked /\ tokenCache' = tokenCache /\ call' = call
    BY <1>1, TokenAssumption DEF CreateToken
  <2>2. /\ issued' \in 0..MaxTokens /\ left' \in [Tokens -> 0..MaxTTL]
        /\ own' \subseteq 1..issued' /\ own \subseteq own' /\ tokenCache \in Seq(OwnEntry')
    BY <2>1, IssueKeeps
  <2> QED
    BY <1>t, <1>o, <2>1, <2>2, TokenInvAfter, Zenon
<1>2. ASSUME NEW ttl \in TTLs, NEW c \in Callers, Refresh(c, ttl)
      PROVE  TokenInv'
  <2> DEFINE asked == IF ttl = 0 THEN RefreshTTL ELSE ttl
  <2>1. asked \in Int
    BY TokenAssumption
  <2>2. End(c) /\ revoked' = revoked /\ tokenCache' = tokenCache
    BY <1>2 DEF Refresh
  <2>3. Issue(asked) \/ UNCHANGED <<issued, left, own>>
    BY <1>2 DEF Refresh
  <2> HIDE DEF asked
  <2>4. CASE Issue(asked)
    <3>1. /\ issued' \in 0..MaxTokens /\ left' \in [Tokens -> 0..MaxTTL]
          /\ own' \subseteq 1..issued' /\ own \subseteq own' /\ tokenCache \in Seq(OwnEntry')
      BY <2>1, <2>4, IssueKeeps
    <3> QED
      BY <2>2, <3>1, EndsInv
  <2>5. CASE UNCHANGED <<issued, left, own>>
    <3>1. OwnEntry' = OwnEntry
      BY <2>5 DEF OwnEntry
    <3> QED
      BY <1>t, <2>2, <2>5, <3>1, EndsInv
  <2> QED
    BY <2>3, <2>4, <2>5
<1>3. ASSUME NEW i \in Tokens, RevokeToken(i)
      PROVE  TokenInv'
  <2>1. /\ i \in own /\ revoked' = revoked \cup {i}
        /\ issued' = issued /\ left' = left /\ own' = own /\ tokenCache' = tokenCache /\ call' = call
    BY <1>3 DEF RevokeToken
  <2>2. OwnEntry' = OwnEntry
    BY <2>1 DEF OwnEntry
  <2> QED
    BY <1>t, <1>o, <2>1, <2>2, TokenInvAfter
<1>4. ASSUME NEW c \in Callers, NEW op \in {"validate", "refresh"}, NEW i \in Tokens, Start(c, op, i)
      PROVE  TokenInv'
  BY <1>4, StartKeepsInv
<1>e. ASSUME NEW c \in Callers, End(c), UNCHANGED <<issued, left, own, revoked, tokenCache>>
      PROVE  TokenInv'
  <2>1. OwnEntry' = OwnEntry
    BY <1>e DEF OwnEntry
  <2> QED
    BY <1>t, <1>e, <2>1, EndsInv
<1>5. ASSUME NEW c \in Callers, Parse(c) \/ GetToken(c) \/ Denied(c)
      PROVE  TokenInv'
  <2>1. UNCHANGED <<issued, left, own, revoked, tokenCache>>
    BY <1>5 DEF Parse, GetToken, Denied
  <2>2. End(c) \/ \E place \in {"check", "cache", "claims"} : Goto(c, place) /\ call[c].at # "idle" /\ call[c].token \in own
    BY <1>o, <1>5 DEF Parse, GetToken, Denied
  <2> QED
    BY <1>t, <1>e, <2>1, <2>2, GoesOnInv
<1>6. ASSUME NEW c \in Callers, Cache(c)
      PROVE  TokenInv'
  <2>1. /\ tokenCache' = CacheAdd(tokenCache, call[c].token, CacheTTL, CacheSize) /\ Goto(c, "claims")
        /\ UNCHANGED <<issued, left, own, revoked>> /\ call[c].at # "idle" /\ call[c].token \in own
    BY <1>o, <1>6 DEF Cache
  <2>2. [k |-> call[c].token, info |-> CacheTTL] \in OwnEntry /\ CacheSize \in Nat
    BY <2>1, TokenAssumption DEF OwnEntry
  <2>3. tokenCache' \in Seq(OwnEntry) /\ Len(tokenCache') <= CacheSize
    BY <1>t, <2>1, <2>2, AddTyped
  <2> QED
    BY <2>1, <2>3, GoesOnInv
<1>7. CASE (\E c \in Callers : Panic(c)) \/ Crash
  BY <1>7, RestartKeepsInv DEF Panic, Crash
<1>8. CASE Tick
  BY <1>8, TickKeepsInv
<1>9. CASE UNCHANGED vars
  BY <1>9 DEF vars, TokenInv, TokenTypeOK, OwnTokensOnly, OwnEntry
<1> QED
  BY <1>1, <1>2, <1>3, <1>4, <1>5, <1>6, <1>7, <1>8, <1>9 DEF Next

(* The claims cache, which is trusted without any check, and the calls     *)
(* that have passed the signature check know tokens of this process only,  *)
(* for any number of calls, tokens and restarts and any lifetimes.         *)
THEOREM TokensCorrect == Spec => [](TokenTypeOK /\ OwnTokensOnly)
<1>1. TokenInv => TokenTypeOK /\ OwnTokensOnly
  BY DEF TokenInv
<1> QED
  BY <1>1, TokenInitInv, TokenStepInv, PTL DEF Spec
-----------------------------------------------------------------------------
(***************************************************************************)
(* A refused API key stays refused.  That the clock does not go back, and  *)
(* that a key is never created under the number of an earlier one, are     *)
(* facts of the type invariant.                                            *)
(***************************************************************************)
LEMMA KeyInitType == KeyInit => KeyTypeOK
  BY APIKeyAssumption DEF KeyInit, KeyTypeOK, NoKey, Never, APIKey

(* The note of a use changes nothing that GetByHash looks at.               *)
LEMMA UseKeepsRest ==
  ASSUME KeyTypeOK, NEW k \in APIKey, UpdateLastUsed(k)
  PROVE  /\ keys' \in [APIKey -> [expires : Int, revoked : BOOLEAN, used : BOOLEAN]]
         /\ \A i \in APIKey : keys'[i].revoked = keys[i].revoked /\ keys'[i].expires = keys[i].expires
  BY Zenon DEF KeyTypeOK, UpdateLastUsed

(* A revocation leaves the other keys alone, and all the expiries.          *)
LEMMA RevokeKeepsRest ==
  ASSUME KeyTypeOK, NEW k \in APIKey, RevokeAPIKey(k)
  PROVE  /\ keys' \in [APIKey -> [expires : Int, revoked : BOOLEAN, used : BOOLEAN]]
         /\ \A i \in APIKey : (keys[i].revoked => keys'[i].revoked) /\ keys'[i].expires = keys[i].expires
  BY Zenon DEF KeyTypeOK, RevokeAPIKey

LEMMA CreateKeepsRest ==
  ASSUME KeyTypeOK, NEW ttl \in KeyTTLs, CreateAPIKey(ttl)
  PROVE  /\ keys' \in [APIKey -> [expires : Int, revoked : BOOLEAN, used : BOOLEAN]]
         /\ created' \in 1..MaxKeys /\ created' = created + 1
         /\ \A i \in 1..created : keys'[i] = keys[i]
<1> DEFINE expiry == IF ttl > 0 THEN clock + ttl ELSE Never
           new == [expires |-> expiry, revoked |-> FALSE, used |-> FALSE]
<1>1. created' \in 1..MaxKeys /\ created' = created + 1 /\ created \in Nat
  BY APIKeyAssumption DEF KeyTypeOK, CreateAPIKey
<1>2. ttl \in Int /\ clock \in Int
  BY APIKeyAssumption DEF KeyTypeOK
<1>3. new \in [expires : Int, revoked : BOOLEAN, used : BOOLEAN]
  <2>1. expiry \in Int
    BY <1>2 DEF Never
  <2> HIDE DEF expiry
  <2> QED
    BY <2>1
<1> HIDE DEF new
<1>4. keys' = [keys EXCEPT ![created'] = new]
  BY DEF CreateAPIKey, new
<1> QED
  BY <1>1, <1>3, <1>4 DEF KeyTypeOK, APIKey

LEMMA KeyStepType == KeyTypeOK /\ [KeyNext]_keyVars => KeyTypeOK'
<1> SUFFICES ASSUME KeyTypeOK, [KeyNext]_keyVars
             PROVE  KeyTypeOK'
  OBVIOUS
<1>1. ASSUME NEW ttl \in KeyTTLs, CreateAPIKey(ttl)
      PROVE  KeyTypeOK'
  <2>1. created \in Nat /\ byHash \subseteq 1..created /\ byHash' = byHash \cup {created'}
    BY <1>1, APIKeyAssumption DEF KeyTypeOK, CreateAPIKey
  <2>2. created' \in 1..MaxKeys /\ created' = created + 1
    BY <1>1, CreateKeepsRest
  <2>3. byHash' \subseteq 1..created' /\ created' \in 0..MaxKeys
    BY <2>1, <2>2, APIKeyAssumption
  <2> QED
    BY <1>1, <2>1, <2>3, CreateKeepsRest, Zenon DEF KeyTypeOK, CreateAPIKey
<1>2. ASSUME NEW k \in APIKey, ValidateAPIKey(k)
      PROVE  KeyTypeOK'
  BY <1>2 DEF KeyTypeOK, ValidateAPIKey, GetByHash
<1>3. ASSUME NEW k \in APIKey, UpdateLastUsed(k)
      PROVE  KeyTypeOK'
  BY <1>3, UseKeepsRest, Zenon DEF KeyTypeOK, UpdateLastUsed
<1>4. ASSUME NEW k \in APIKey, RevokeAPIKey(k)
      PROVE  KeyTypeOK'
  BY <1>4, RevokeKeepsRest, Zenon DEF KeyTypeOK, RevokeAPIKey
<1>5. CASE KeyTick
  BY <1>5, APIKeyAssumption DEF KeyTypeOK, KeyTick
<1>6. CASE KeyCrash
  BY <1>6 DEF KeyTypeOK, KeyCrash, NoKey, Never
<1>7. CASE UNCHANGED keyVars
  BY <1>7 DEF KeyTypeOK, keyVars
<1> QED
  BY <1>1, <1>2, <1>3, <1>4, <1>5, <1>6, <1>7 DEF KeyNext

LEMMA KeyStepRefuses ==
  ASSUME KeyTypeOK, [KeyNext]_keyVars, NEW i \in 1..created, GetByHash(i)'
  PROVE  GetByHash(i)
<1>1. i \in APIKey /\ clock \in Int
  BY APIKeyAssumption DEF KeyTypeOK, APIKey
<1>2. i \in byHash' /\ ~keys'[i].revoked /\ (keys'[i].expires # Never => clock' <= keys'[i].expires)
  BY DEF GetByHash
<1>3. ASSUME NEW ttl \in KeyTTLs, CreateAPIKey(ttl)
      PROVE  GetByHash(i)
  <2>1. i \in byHash /\ clock' = clock
    BY <1>2, <1>3, CreateKeepsRest DEF CreateAPIKey, KeyTypeOK
  <2> QED
    BY <1>2, <1>3, <2>1, CreateKeepsRest DEF GetByHash
<1>4. ASSUME NEW k \in APIKey, ValidateAPIKey(k)
      PROVE  GetByHash(i)
  BY <1>2, <1>4 DEF ValidateAPIKey, GetByHash
<1>5. ASSUME NEW k \in APIKey, UpdateLastUsed(k)
      PROVE  GetByHash(i)
  <2>1. i \in byHash /\ clock' = clock
    BY <1>2, <1>5 DEF UpdateLastUsed
  <2> QED
    BY <1>1, <1>2, <1>5, <2>1, UseKeepsRest DEF GetByHash
<1>6. ASSUME NEW k \in APIKey, RevokeAPIKey(k)
      PROVE  GetByHash(i)
  <2>1. i \in byHash /\ clock' = clock
    BY <1>2, <1>6 DEF RevokeAPIKey
  <2> QED
    BY <1>1, <1>2, <1>6, <2>1, RevokeKeepsRest DEF GetByHash
<1>7. CASE KeyTick
  <2>1. i \in byHash /\ keys' = keys /\ clock' = clock + 1 /\ keys[i].expires \in Int
    BY <1>1, <1>2, <1>7 DEF KeyTick, KeyTypeOK
  <2> QED
    BY <1>1, <1>2, <2>1 DEF GetByHash
<1>8. CASE KeyCrash
  BY <1>2, <1>8 DEF KeyCrash
<1>9. CASE UNCHANGED keyVars
  BY <1>2, <1>9 DEF keyVars, GetByHash
<1> QED
  BY <1>3, <1>4, <1>5, <1>6, <1>7, <1>8, <1>9 DEF KeyNext

(* An API key that ValidateAPIKey refuses, revoked, expired or unknown to   *)
(* the process, is refused for good.                                        *)
THEOREM RefusedKeysStayRefused == KeySpec => RefusedForGood
<1>1. KeyTypeOK /\ [KeyNext]_keyVars => [\A k \in 1..created : ~GetByHash(k) => ~GetByHash(k)']_keyVars
  BY KeyStepRefuses
<1> QED
  BY <1>1, KeyInitType, KeyStepType, PTL DEF KeySpec, RefusedForGood
==============================================================================
