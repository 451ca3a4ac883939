----------------------------- MODULE PolicyPaths -----------------------------
(* pathMatches of pkg/auth/policy: does the pattern of a rule cover the     *)
(* path of a request?  It works on the text, so paths are sequences of      *)
(* characters here.  ?, [ and \, which path.Match also gives a meaning, are *)
(* not in the alphabet: on what is left path.Match is equality.             *)
EXTENDS Integers, Sequences, FiniteSetsExt

Star == <<"*">>
TwoStars == <<"*", "*">>

(* strings.Trim(s, "/") *)
Trim(s) ==
  LET kept == {i \in DOMAIN s : s[i] # "/"}
  IN  IF kept = {} THEN <<>> ELSE SubSeq(s, Min(kept), Max(kept))

HasPrefix(s, t) == Len(s) >= Len(t) /\ SubSeq(s, 1, Len(t)) = t

HasSuffix(s, t) == Len(s) >= Len(t) /\ SubSeq(s, Len(s) - Len(t) + 1, Len(s)) = t

TrimSuffix(s, t) == IF HasSuffix(s, t) THEN SubSeq(s, 1, Len(s) - Len(t)) ELSE s

(* strings.Split(s, "/"): segments[n] are those of the first n characters.  *)
Split(s) ==
  LET Extended(before, c) ==
        IF c = "/" THEN Append(before, <<>>)
        ELSE Append(SubSeq(before, 1, Len(before) - 1), Append(before[Len(before)], c))
      segments[n \in 0..Len(s)] == IF n = 0 THEN <<<<>>>> ELSE Extended(segments[n - 1], s[n])
  IN  segments[Len(s)]

SegmentsMatch(ps, ts) ==
  Len(ps) = Len(ts) /\ \A i \in DOMAIN ps : ps[i] = Star \/ ps[i] = ts[i]

pathMatches(pattern, target) ==
  LET p == Trim(pattern)
      t == Trim(target)
  IN  IF HasSuffix(p, TwoStars) THEN HasPrefix(t, TrimSuffix(TrimSuffix(p, TwoStars), <<"/">>))
      ELSE IF \E i \in DOMAIN p : p[i] = "*" THEN SegmentsMatch(Split(p), Split(t))
      ELSE p = t

------------------------------------------------------------------------------
(* The same question segment by segment: * stands for one segment, ** for   *)
(* any number of them, any other segment for itself.  The segments of the   *)
(* pattern are laid along those of the path: at[i] is how many of the       *)
(* path's the first i of the pattern stand for.                             *)
Covers(ps, ts) ==
  \E at \in [0..Len(ps) -> 0..Len(ts)] :
    /\ at[0] = 0 /\ at[Len(ps)] = Len(ts)
    /\ \A i \in DOMAIN ps :
         IF ps[i] = TwoStars THEN at[i - 1] <= at[i]
         ELSE at[i] = at[i - 1] + 1 /\ ps[i] \in {Star, ts[at[i]]}

CoversPath(pattern, target) == Covers(Split(Trim(pattern)), Split(Trim(target)))
==============================================================================
