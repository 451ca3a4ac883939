------------------------------- MODULE Masking -------------------------------
(***************************************************************************)
(* services/tokenize: Mask and MaskBatch, which keep the first and the     *)
(* last bytes of a value and put a mask in place of the others.            *)
(*                                                                         *)
(* They are pure, but they slice the value by numbers from the request     *)
(* that nothing checks: a slice out of range panics, and the panic ends    *)
(* the process for every request in it.  A value is the sequence of its    *)
(* bytes, the mask one more byte.  Mask is MaskBatch with one item, except *)
(* that it refuses an empty value.                                         *)
(***************************************************************************)
EXTENDS TokenizeService, Integers

CONSTANTS
  Values,       \* the values sent, the empty one included
  Preserve,     \* MaskPattern.preserve_first and preserve_last
  MaskChar

(* The bytes of the values. *)
Bytes == UNION {{v[i] : i \in DOMAIN v} : v \in Values}

ASSUME MaskAssumption == Preserve \subseteq Int /\ \A v \in Values : v \in Seq(Bytes)

VARIABLE masked \* the request being answered, with its results

NoMasked == [first |-> 0, last |-> 0, values |-> <<>>, results |-> <<>>]

MaskInit == TokenizeInit /\ masked = NoMasked

(* The bytes between are masked and the ends attached. *)
Attach(value, first, last) ==
  (IF first > 0 THEN SubSeq(value, 1, first) ELSE <<>>)
    \o [i \in 1..(Len(value) - (first + last)) |-> MaskChar]
    \o (IF last > 0 THEN SubSeq(value, Len(value) - last + 1, Len(value)) ELSE <<>>)

(* Faulty: only one end that covers the value is noticed. *)
MaskOverlaps(value, first, last) ==
  IF first >= Len(value) \/ last >= Len(value) THEN {value}
  ELSE {Attach(value, first, last)}

(* The masked value; none when a slice is out of range.  An empty value is *)
(* an error of its item, with an empty result.                             *)
Mask(value, first, last) ==
  IF value = <<>> \/ first + last >= Len(value) THEN {value}
  ELSE IF first > Len(value) \/ last > Len(value) THEN {}
  ELSE {Attach(value, first, last)}

MaskBatch(first, last, values) ==
  /\ masked = NoMasked
  /\ \/ /\ \A i \in DOMAIN values : Mask(values[i], first, last) # {}
        /\ masked' = [first |-> first, last |-> last, values |-> values,
             results |-> [i \in DOMAIN values |-> CHOOSE m \in Mask(values[i], first, last) : TRUE]]
        /\ UNCHANGED allVars
     \/ /\ \E i \in DOMAIN values : Mask(values[i], first, last) = {}
        /\ masked' = NoMasked
        /\ TokenizeCrash

(* The answer is sent. *)
MaskAnswered == masked # NoMasked /\ masked' = NoMasked /\ UNCHANGED allVars

MaskNext ==
  \/ \E first, last \in Preserve, v \in Values, w \in Values :
       MaskBatch(first, last, <<v>>) \/ MaskBatch(first, last, <<v, w>>)
  \/ MaskAnswered

(* Masking beside the requests of the service. *)
MaskSpec ==
  MaskInit /\ [][(TokenizeNext /\ UNCHANGED masked) \/ MaskNext]_<<allVars, masked>>
-----------------------------------------------------------------------------
(* Mask shows what it was asked to show: byte by byte, an answer has the   *)
(* value's own byte where the preserved ends reach, overlapping or beyond  *)
(* the value, and the mask elsewhere.  A negative length may lengthen the  *)
(* mask; it uncovers nothing.                                              *)
MaskShowsAsked ==
  LET p == masked.first
      q == masked.last
      Asked(n) == {i \in 1..n : i <= p \/ i > n - q}
  IN \A k \in DOMAIN masked.values :
       LET v == masked.values[k]
           n == Len(v)
           r == masked.results[k]
       IN /\ p >= 0 /\ q >= 0 =>
               r = [i \in 1..n |-> IF i \in Asked(n) THEN v[i] ELSE MaskChar]
          /\ \A i \in DOMAIN r : r[i] # MaskChar => \E j \in Asked(n) : r[i] = v[j]
==============================================================================
