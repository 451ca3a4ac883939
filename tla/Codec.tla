-------------------------------- MODULE Codec --------------------------------
(* One message on its way between two services, through the codec that      *)
(* pkg/grpcutil/codec/vtproto.go registers under the name "proto" and every *)
(* main imports.  The sender's Marshal calls MarshalVT, the receiver's      *)
(* Unmarshal calls UnmarshalVT on a new message.  All the generated types   *)
(* have both, so the fallback to proto.Marshal is never taken.  On the way, *)
(* the message may be cut short, or pass through a peer built from an       *)
(* earlier .proto that lacks one of the fields.                             *)
(*                                                                          *)
(* gRPC registers a codec of its own under the same name, and the last      *)
(* registration wins.  Which is last depends on the order in which Go       *)
(* initialises the two packages; that this codec is the one in force is     *)
(* assumed here.                                                            *)
EXTENDS LockWire, CryptoWire, TokenizeWire, AuthWire, AuditWire, GatewayWire

CONSTANTS
  Samples(_),  \* the values of a message type that are sent
  MaxCut       \* bound: how many bytes may be lost

Messages ==
  CommonMessages @@ LockMessages @@ CryptoMessages @@ TokenizeMessages
    @@ AuthMessages @@ AuditMessages @@ GatewayMessages

VARIABLES
  type,    \* the name of the message type
  sent,    \* the message given to Marshal
  wire,    \* its bytes
  got,     \* what Unmarshal made of them: one message, or none and an error
  stage    \* "idle", "sent" or "panic", "cut" or "relayed", and "received" (as it was sent, cut or relayed)

vars == <<type, sent, wire, got, stage>>

Init ==
  /\ type = "" /\ sent = <<>> /\ wire = <<>> /\ got = {} /\ stage = "idle"

(* vtprotoCodec.Marshal.                                                    *)
Marshal(t, m) ==
  /\ stage = "idle"
  /\ type' = t /\ sent' = m
  /\ LET out == MarshalVT(Messages[t], m)
     IN  IF out = {} THEN wire' = <<>> /\ stage' = "panic"
         ELSE wire' \in out /\ stage' = "sent"
  /\ UNCHANGED got

(* All but the last bytes are delivered.                                    *)
Cut(n) ==
  /\ stage = "sent"
  /\ wire' = SubSeq(wire, 1, n)
  /\ stage' = "cut"
  /\ UNCHANGED <<type, sent, got>>

(* A peer that does not know field f unmarshals the message and sends on    *)
(* what it has.                                                             *)
Without(T, f) == SelectSeq(T, LAMBDA x : x.name # f)

Relay(f) ==
  /\ stage = "sent"
  /\ LET M == Messages[type]
         old == Message(Without(M.marshal, f), Without(M.size, f), Without(M.unmarshal, f))
     IN  \E m \in UnmarshalVT(old.unmarshal, New(old.unmarshal), wire) : wire' \in MarshalVT(old, m)
  /\ stage' = "relayed"
  /\ UNCHANGED <<type, sent, got>>

(* vtprotoCodec.Unmarshal.                                                  *)
Unmarshal ==
  /\ stage \in {"sent", "cut", "relayed"}
  /\ LET T == Messages[type].unmarshal IN got' = UnmarshalVT(T, New(T), wire)
  /\ stage' = CASE stage = "sent" -> "received" [] stage = "cut" -> "received cut" [] OTHER -> "received relayed"
  /\ UNCHANGED <<type, sent, wire>>

Next ==
  \/ \E t \in DOMAIN Messages : \E m \in Samples(Messages[t].unmarshal) : Marshal(t, m)
  \/ \E n \in 0..(Len(wire) - 1) : Len(wire) - n <= MaxCut /\ Cut(n)
  \/ stage = "sent" /\ \E f \in {Messages[type].unmarshal[i].name : i \in DOMAIN Messages[type].unmarshal} : Relay(f)
  \/ Unmarshal

Spec == Init /\ [][Next]_vars

------------------------------------------------------------------------------
(* What a service marshals, the other service gets: for every message type  *)
(* the tags written, the length computed for the buffer and the cases read  *)
(* agree, whatever order the maps are written in and whatever the sign of   *)
(* the integers.  (A double -0.0 is not written and arrives as 0.0; none is *)
(* among the samples.)                                                      *)
RoundTrip ==
  /\ stage # "panic"
  /\ stage = "received" => got = {sent}

(* A message that passes through a peer built before one of its fields was  *)
(* added still arrives whole: UnmarshalVT keeps the fields it has no case   *)
(* for, and MarshalVT writes them back.                                     *)
RelayKeepsFields == stage = "received relayed" => got = {sent}

(* A message that was cut short is refused, or ended where a field ends:    *)
(* every byte received is accounted for by the message UnmarshalVT returns, *)
(* none having been clipped or made up.                                     *)
NoPartialFields ==
  stage = "received cut" =>
    \A m \in got : wire \in MarshalToSizedBufferVT(Messages[type].marshal, m)
==============================================================================
