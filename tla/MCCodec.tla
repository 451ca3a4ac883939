------------------------------- MODULE MCCodec -------------------------------
(* Messages with at most two fields set, each to values at its edges.       *)
EXTENDS Codec

Double == <<0, 0, 0, 0, 0, 0, 240, 63>>

RECURSIVE Typical(_)
Typical(T) ==
  [n \in DOMAIN New(T) |->
     IF n = "unknownFields" THEN <<>>
     ELSE LET f == CHOOSE x \in ToSet(T) : x.name = n
          IN  CASE f.kind = "bytes" -> <<7>>
                [] f.kind \in {"int32", "int64"} -> -2
                [] f.kind = "bool" -> TRUE
                [] f.kind = "double" -> Double
                [] f.kind = "strings" -> <<<<8>>>>
                [] f.kind = "packed" -> <<3>>
                [] f.kind \in {"message", "messages"} -> <<Typical(f.of)>>
                [] f.kind = "map" -> <<9>> :> <<>>
                [] f.kind = "mapint" -> <<>> :> 1]

Edges(f) ==
  CASE f.kind = "bytes" -> {<<7>>, [i \in 1..128 |-> 7]}
    [] f.kind = "int32" -> {1, -1, 2^(Bits32 - 1) - 1}
    [] f.kind = "int64" -> {128, -1, -(2^(Bits64 - 1))}
    [] f.kind = "bool" -> {TRUE}
    [] f.kind = "double" -> {Double}
    [] f.kind = "strings" -> {<<<<8>>, <<>>>>}
    [] f.kind = "packed" -> {<<3, -1, 127>>}
    [] f.kind = "message" -> {<<New(f.of)>>, <<Typical(f.of)>>}
    [] f.kind = "messages" -> {<<New(f.of), Typical(f.of)>>}
    [] f.kind = "map" -> {(<<9>> :> <<>>) @@ (<<>> :> <<5>>)}
    [] f.kind = "mapint" -> {(<<9>> :> -1) @@ (<<>> :> 0)}

MCSamples(T) ==
  {New(T)} \cup
  UNION {{[New(T) EXCEPT ![T[i].name] = v, ![T[j].name] = w] : v \in Edges(T[i]), w \in Edges(T[j])} :
           <<i, j>> \in {p \in (1..Len(T)) \X (1..Len(T)) : p[1] <= p[2]}}
==============================================================================
