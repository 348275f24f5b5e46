----------------------------- MODULE PacketChecks -----------------------------
(***************************************************************************)
(* The checks of the relay pipeline that keep no state: size and structure *)
(* (size_check.py, message.py), hop budget (ttl_check.py), age             *)
(* (timestamp_check.py) and signature (signature_check.py).                *)
(*                                                                         *)
(* A packet is a record: size and payload_len are the byte length and the  *)
(* length field of the header, genuine says whether the Ed25519 signature  *)
(* over the signed region (everything but ttl and spray_l) verifies.       *)
(***************************************************************************)
EXTENDS Integers

CONSTANTS
    MAX_AGE_SECONDS,
    MAX_FUTURE_SECONDS

ASSUME AgeAssumption == MAX_AGE_SECONDS \in Nat /\ MAX_FUTURE_SECONDS \in Nat

HEADER_SIZE    == 75
SIGNATURE_SIZE == 64
MIN_PACKET     == 131
MAX_PACKET     == 460

SizeAccepted(p) == MIN_PACKET <= p.size /\ p.size <= MAX_PACKET

\* parse_packet raises ValueError otherwise.
Parses(p) ==
    /\ p.size >= HEADER_SIZE + SIGNATURE_SIZE
    /\ p.size = HEADER_SIZE + p.payload_len + SIGNATURE_SIZE

TtlAlive(p) == p.ttl # 0

\* Mutant: no check against timestamps in the future.
TimelyOnlyOld(p, now) == now - p.timestamp <= MAX_AGE_SECONDS

Timely(p, now) ==
    /\ now - p.timestamp <= MAX_AGE_SECONDS
    /\ now - p.timestamp >= - MAX_FUTURE_SECONDS

SignatureValid(p) == p.genuine
=============================================================================
