-------------------------------- MODULE Signing --------------------------------
(***************************************************************************)
(* src/identity/signing.py and signed_region of src/pipeline/message.py:   *)
(* the packets a device sends, and what their signature covers. The zone,  *)
(* which no check looks at, is left out.                                   *)
(***************************************************************************)
EXTENDS PacketChecks, Widths

\* The signature covers header and payload but for ttl and spray_L.
SignedRegion(p) == [p EXCEPT !.ttl = 0, !.spray = 0]

\* The hash of compute_msg_id has no collisions: it is its argument.
ComputeMsgId(sender, timestamp, msg_type, payload) ==
    <<sender, timestamp, msg_type, payload>>

\* struct.pack of the header raises on a value its field does not hold.
HeaderPacks(timestamp, ttl, spray, payload_len) ==
    timestamp \in Uint32 /\ ttl \in Uint8 /\ spray \in Uint8 /\ payload_len \in Uint16

\* build_signed_packet, empty where it raises. It does not ask whether a relay
\* will take a packet of this size.
BuildSignedPacket(sender, ephem, timestamp, ttl, spray, msg_type, payload, payload_len) ==
    IF HeaderPacks(timestamp, ttl, spray, payload_len)
    THEN {[id |-> ComputeMsgId(sender, timestamp, msg_type, payload),
           sender |-> sender, ephem |-> ephem, timestamp |-> timestamp,
           ttl |-> ttl, spray |-> spray, payload_len |-> payload_len,
           size |-> HEADER_SIZE + payload_len + SIGNATURE_SIZE, genuine |-> TRUE]}
    ELSE {}
=============================================================================
