-------------------------------- MODULE Wire --------------------------------
(* The generated protobuf code of the requests and answers of the system:   *)
(* the codec of pkg/grpcutil/codec hands each message to its MarshalVT and  *)
(* UnmarshalVT (gen/go/<package>/v1/<package>_vtproto.pb.go).               *)
(* The generator repeats the same statements for each field; the operators  *)
(* here are those statements, once per kind of field.  What differs from    *)
(* message to message is in three tables, read off three functions:         *)
(* MarshalToSizedBufferVT (the fields in the order they are written, which  *)
(* is from the last byte of the buffer to the first, with their tag bytes), *)
(* SizeVT (the length counted for the tag) and UnmarshalVT (the case        *)
(* numbers).  The tables are in LockWire, CryptoWire, ...                   *)
(*                                                                          *)
(* A message is a function from field names to values, with its             *)
(* unknownFields.  A string or bytes value is a sequence of bytes, a nested *)
(* message a sequence of at most one message (nil is <<>>), a double its    *)
(* eight bytes, a map a function.  A Go byte slice being filled from its    *)
(* end is the sequence of the bytes filled so far.                          *)
EXTENDS Integers, SequencesExt

CONSTANTS
  Bits64,   \* width of int64, uint64 and int: 64 in the code
  Bits32    \* width of int32 and enums: 32 in the code

ASSUME WidthsAssumption == Bits32 \in Nat /\ Bits64 \in Nat /\ 7 < Bits32 /\ Bits32 < Bits64

------------------------------------------------------------------------------
(* The kinds of field.  t is what the table says of the tag, f the field's  *)
(* name, T the table of the nested message.                                 *)
Field(t, f, k, T) == [tag |-> t, name |-> f, kind |-> k, of |-> T]

Str(t, f) == Field(t, f, "bytes", <<>>)
Bytes(t, f) == Field(t, f, "bytes", <<>>)
Bool(t, f) == Field(t, f, "bool", <<>>)
I32(t, f) == Field(t, f, "int32", <<>>)
Enum(t, f) == Field(t, f, "int32", <<>>)
I64(t, f) == Field(t, f, "int64", <<>>)
F64(t, f) == Field(t, f, "double", <<>>)
Strs(t, f) == Field(t, f, "strings", <<>>)
Packed(t, f) == Field(t, f, "packed", <<>>)
Msg(t, f, T) == Field(t, f, "message", T)
Msgs(t, f, T) == Field(t, f, "messages", T)
MapStr(t, f) == Field(t, f, "map", <<>>)
MapBytes(t, f) == Field(t, f, "map", <<>>)
MapI64(t, f) == Field(t, f, "mapint", <<>>)

NoDouble == [i \in 1..8 |-> 0]

(* The doubles that equal 0 in Go: 0.0 and -0.0. *)
ZeroDoubles == {NoDouble, [NoDouble EXCEPT ![8] = 128]}

(* The value a Go struct field has before anything is assigned to it.       *)
Zero(k) ==
  CASE k \in {"int32", "int64"} -> 0
    [] k = "bool" -> FALSE
    [] k = "double" -> NoDouble
    [] OTHER -> <<>>

New(T) ==
  [n \in {T[i].name : i \in DOMAIN T} \cup {"unknownFields"} |->
     IF n = "unknownFields" THEN <<>> ELSE Zero((CHOOSE f \in ToSet(T) : f.name = n).kind)]

------------------------------------------------------------------------------
(* The helpers of vtprotobuf and Go's conversions between integers.         *)
Groups == (Bits64 + 6) \div 7

Uint64(v) == v % 2^Bits64

Signed(v, w) ==
  LET u == v % 2^w
  IN  IF u < 2^(w - 1) THEN u ELSE u - 2^w

SizeOfVarint(u) == CHOOSE n \in 1..Groups : u < 128^n /\ (n > 1 => u >= 128^(n - 1))

EncodeVarint(u) ==
  LET n == SizeOfVarint(u)
  IN  [i \in 1..n |-> ((u \div 128^(i - 1)) % 128) + (IF i < n THEN 128 ELSE 0)]

SumOf(s) == FoldLeft(+, 0, s)

Skipped(d, n) == SubSeq(d, n + 1, Len(d))

------------------------------------------------------------------------------
(* SizeVT.  A length-delimited field contributes one payload per element:   *)
(* PayloadSizes are their lengths.                                          *)
RECURSIVE SizeVT(_, _)
SizeVT(T, m) ==
  LET EntrySize(f, k, v) ==
        1 + Len(k) + SizeOfVarint(Len(k)) + 1
          + (IF f.kind = "mapint" THEN SizeOfVarint(Uint64(v)) ELSE Len(v) + SizeOfVarint(Len(v)))
      PayloadSizes(f, v) ==
        CASE f.kind = "bytes" -> IF v = <<>> THEN <<>> ELSE <<Len(v)>>
          [] f.kind = "strings" -> [i \in DOMAIN v |-> Len(v[i])]
          [] f.kind \in {"message", "messages"} -> [i \in DOMAIN v |-> SizeVT(f.of, v[i])]
          [] f.kind = "packed" ->
               IF v = <<>> THEN <<>> ELSE <<SumOf([i \in DOMAIN v |-> SizeOfVarint(Uint64(v[i]))])>>
          [] f.kind \in {"map", "mapint"} ->
               LET ks == SetToSeq(DOMAIN v) IN [i \in DOMAIN ks |-> EntrySize(f, ks[i], v[ks[i]])]
      FieldSize(f, v) ==
        CASE f.kind \in {"int32", "int64"} -> IF v = 0 THEN 0 ELSE f.tag + SizeOfVarint(Uint64(v))
          [] f.kind = "bool" -> IF v THEN f.tag + 1 ELSE 0
          [] f.kind = "double" -> IF v \in ZeroDoubles THEN 0 ELSE f.tag + 8
          [] OTHER ->
               LET ls == PayloadSizes(f, v)
               IN  SumOf([i \in DOMAIN ls |-> f.tag + ls[i] + SizeOfVarint(ls[i])])
  IN  SumOf([i \in DOMAIN T |-> FieldSize(T[i], m[T[i].name])]) + Len(m.unknownFields)

------------------------------------------------------------------------------
(* MarshalToSizedBufferVT: the set of the byte sequences it may write, for  *)
(* a map is written in the order Go's range happens to visit it.            *)
Delimited(tag, b) == tag \o EncodeVarint(Len(b)) \o b

RECURSIVE MarshalToSizedBufferVT(_, _)
MarshalToSizedBufferVT(T, m) ==
  LET Entry(f, k, v) ==
        Delimited(<<\h0a>>, k)
          \o (IF f.kind = "mapint" THEN <<\h10>> \o EncodeVarint(Uint64(v)) ELSE Delimited(<<\h12>>, v))
      Payloads(f, v) ==
        CASE f.kind = "bytes" -> {IF v = <<>> THEN <<>> ELSE <<v>>}
          [] f.kind = "strings" -> {v}
          [] f.kind \in {"message", "messages"} ->
               LET alts == [i \in DOMAIN v |-> MarshalToSizedBufferVT(f.of, v[i])]
               IN  {s \in [DOMAIN v -> UNION Range(alts)] : \A i \in DOMAIN v : s[i] \in alts[i]}
          [] f.kind = "packed" ->
               {IF v = <<>> THEN <<>> ELSE <<FlattenSeq([i \in DOMAIN v |-> EncodeVarint(Uint64(v[i]))])>>}
          [] f.kind \in {"map", "mapint"} ->
               {[i \in DOMAIN ks |-> Entry(f, ks[i], v[ks[i]])] : ks \in SetToSeqs(DOMAIN v)}
      Written(f, v) ==
        CASE f.kind \in {"int32", "int64"} -> {IF v = 0 THEN <<>> ELSE f.tag \o EncodeVarint(Uint64(v))}
          [] f.kind = "bool" -> {IF v THEN f.tag \o <<1>> ELSE <<>>}
          [] f.kind = "double" -> {IF v \in ZeroDoubles THEN <<>> ELSE f.tag \o v}
          [] OTHER -> {FlattenSeq([i \in DOMAIN ps |-> Delimited(f.tag, ps[i])]) : ps \in Payloads(f, v)}
  IN  FoldLeft(LAMBDA tails, f : {b \o t : b \in Written(f, m[f.name]), t \in tails},
               {m.unknownFields}, T)

(* MarshalVT fills a buffer of SizeVT bytes from its end and returns its    *)
(* first n bytes, n being the number of bytes filled.  Filling more than    *)
(* there is room for panics: no outcome.  Filling less leaves zeros in      *)
(* front, which are returned in place of the last bytes.                    *)
MarshalVT(M, m) ==
  LET size == SizeVT(M.size, m)
  IN  {SubSeq([i \in 1..(size - Len(b)) |-> 0] \o b, 1, Len(b)) :
         b \in {x \in MarshalToSizedBufferVT(M.marshal, m) : Len(x) <= size}}

------------------------------------------------------------------------------
(* UnmarshalVT.  Every reader takes the bytes that are left and returns a   *)
(* set: the value read and the bytes left after it, or nothing when the     *)
(* code returns an error (a varint longer than 64 bits, the end of the      *)
(* input, a negative length).                                               *)
(* Faulty: the last group of the widest numbers is refused. *)
ReadVarintShort(d) ==
  {[val |-> SumOf([i \in 1..n |-> (d[i] % 128) * 128^(i - 1)]), rest |-> Skipped(d, n)] :
     n \in {k \in 1..Len(d) : k < Groups /\ d[k] < 128 /\ \A j \in 1..(k - 1) : d[j] >= 128}}

ReadVarint(d) ==
  {[val |-> SumOf([i \in 1..n |-> (d[i] % 128) * 128^(i - 1)]), rest |-> Skipped(d, n)] :
     n \in {k \in 1..Len(d) : k <= Groups /\ d[k] < 128 /\ \A j \in 1..(k - 1) : d[j] >= 128}}

(* Faulty: a length beyond the end of the input is not refused. *)
ReadBytesClipped(d) ==
  {[val |-> SubSeq(v.rest, 1, Min({Signed(v.val, Bits64), Len(v.rest)})),
    rest |-> Skipped(v.rest, Signed(v.val, Bits64))] :
     v \in {x \in ReadVarint(d) : Signed(x.val, Bits64) >= 0}}

ReadBytes(d) ==
  {[val |-> SubSeq(v.rest, 1, Signed(v.val, Bits64)), rest |-> Skipped(v.rest, Signed(v.val, Bits64))] :
     v \in {x \in ReadVarint(d) : Signed(x.val, Bits64) \in 0..Len(x.rest)}}

(* protohelpers.Skip on a field whose number is not known.  Groups, which   *)
(* no encoder here writes, are left out.                                    *)
Skip(d) ==
  UNION {LET w == t.val % 8
         IN  CASE w = 0 -> {v.rest : v \in ReadVarint(t.rest)}
               [] w = 1 -> IF Len(t.rest) >= 8 THEN {Skipped(t.rest, 8)} ELSE {}
               [] w = 2 -> {v.rest : v \in ReadBytes(t.rest)}
               [] w = 5 -> IF Len(t.rest) >= 4 THEN {Skipped(t.rest, 4)} ELSE {}
               [] OTHER -> {}
         : t \in ReadVarint(d)}

(* The loop over a map entry: it runs until `left` bytes of it are used,    *)
(* looks at field numbers only, and bounds a key or value by the end of the *)
(* message, not of the entry.                                               *)
RECURSIVE ReadEntry(_, _, _, _)
ReadEntry(f, e, d, left) ==
  IF left <= 0 THEN {e} ELSE
  UNION {LET n == Signed(t.val \div 8, Bits32)
             Next(x, e2) == ReadEntry(f, e2, x, left - (Len(d) - Len(x)))
         IN  CASE n = 1 -> UNION {Next(v.rest, [e EXCEPT !.key = v.val]) : v \in ReadBytes(t.rest)}
               [] n = 2 /\ f.kind = "map" ->
                    UNION {Next(v.rest, [e EXCEPT !.value = v.val]) : v \in ReadBytes(t.rest)}
               [] n = 2 /\ f.kind = "mapint" ->
                    UNION {Next(v.rest, [e EXCEPT !.value = Signed(v.val, Bits64)]) : v \in ReadVarint(t.rest)}
               [] OTHER -> UNION {Next(r, e) : r \in {x \in Skip(d) : Len(d) - Len(x) <= left}}
         : t \in ReadVarint(d)}

RECURSIVE ReadPacked(_, _, _)
ReadPacked(s, d, left) ==
  IF left <= 0 THEN {[val |-> s, rest |-> d]} ELSE
  UNION {ReadPacked(Append(s, Signed(v.val, Bits32)), v.rest, left - (Len(d) - Len(v.rest))) :
           v \in ReadVarint(d)}

(* Faulty: they are skipped. *)
KeepUnknownDrops(m, b) == m

(* The default case: the bytes of a field no case names, tag included, are  *)
(* kept.                                                                    *)
KeepUnknown(m, b) == [m EXCEPT !.unknownFields = @ \o b]

(* UnmarshalVT(T, m, d): the fields found in d are applied to m one after   *)
(* the other.  A scalar is overwritten, a nested message that is already    *)
(* there is unmarshalled into, an element is appended, a map entry added.   *)
RECURSIVE UnmarshalVT(_, _, _)
UnmarshalVT(T, m, d) ==
  LET Value(f, old, w, b) ==
        CASE f.kind = "int32" /\ w = 0 ->
               {[val |-> Signed(v.val, Bits32), rest |-> v.rest] : v \in ReadVarint(b)}
          [] f.kind = "int64" /\ w = 0 ->
               {[val |-> Signed(v.val, Bits64), rest |-> v.rest] : v \in ReadVarint(b)}
          [] f.kind = "bool" /\ w = 0 ->
               {[val |-> Uint64(v.val) # 0, rest |-> v.rest] : v \in ReadVarint(b)}
          [] f.kind = "double" /\ w = 1 ->
               IF Len(b) >= 8 THEN {[val |-> SubSeq(b, 1, 8), rest |-> Skipped(b, 8)]} ELSE {}
          [] f.kind = "bytes" /\ w = 2 -> ReadBytes(b)
          [] f.kind = "strings" /\ w = 2 ->
               {[val |-> Append(old, v.val), rest |-> v.rest] : v \in ReadBytes(b)}
          [] f.kind = "message" /\ w = 2 ->
               UNION {{[val |-> <<x>>, rest |-> v.rest] :
                         x \in UnmarshalVT(f.of, IF old = <<>> THEN New(f.of) ELSE old[1], v.val)} :
                        v \in ReadBytes(b)}
          [] f.kind = "messages" /\ w = 2 ->
               UNION {{[val |-> Append(old, x), rest |-> v.rest] :
                         x \in UnmarshalVT(f.of, New(f.of), v.val)} : v \in ReadBytes(b)}
          [] f.kind = "packed" /\ w = 0 ->
               {[val |-> Append(old, Signed(v.val, Bits32)), rest |-> v.rest] : v \in ReadVarint(b)}
          [] f.kind = "packed" /\ w = 2 ->
               UNION {ReadPacked(old, v.val \o v.rest, Len(v.val)) :
                        v \in ReadBytes(b)}
          [] f.kind \in {"map", "mapint"} /\ w = 2 ->
               LET none == [key |-> <<>>, value |-> IF f.kind = "map" THEN <<>> ELSE 0]
               IN  UNION {{[val |-> (e.key :> e.value) @@ old, rest |-> v.rest] :
                             e \in ReadEntry(f, none, v.val \o v.rest, Len(v.val))} : v \in ReadBytes(b)}
          [] OTHER -> {}
      OneField(t) ==
        LET n == Signed(t.val \div 8, Bits32)
            w == t.val % 8
            known == {f \in ToSet(T) : f.tag = n}
        IN  IF w = 4 \/ n <= 0 THEN {}
            ELSE IF known = {}
            THEN {[msg |-> KeepUnknown(m, SubSeq(d, 1, Len(d) - Len(r))), rest |-> r] : r \in Skip(d)}
            ELSE LET f == CHOOSE x \in known : TRUE
                 IN  {[msg |-> [m EXCEPT ![f.name] = v.val], rest |-> v.rest] :
                        v \in Value(f, m[f.name], w, t.rest)}
  IN  IF d = <<>> THEN {m}
      ELSE UNION {UNION {UnmarshalVT(T, s.msg, s.rest) : s \in OneField(t)} : t \in ReadVarint(d)}

(* A message type: the three tables.                                        *)
Message(M, S, U) == [marshal |-> M, size |-> S, unmarshal |-> U]
==============================================================================
