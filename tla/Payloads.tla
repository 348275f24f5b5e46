------------------------------- MODULE Payloads -------------------------------
(***************************************************************************)
(* The payload codecs of src/friends/wire.py and src/location/wire.py over *)
(* the sealed envelope of src/crypto/sealed.py. Bytes are abstracted to    *)
(* what the codecs look at: lengths, the length byte of a name, the flag   *)
(* before a token, the key an envelope is sealed to, the integers of a     *)
(* fix. Keys have their 32 bytes, names and texts are UTF-8. An encoder is *)
(* the set of what it returns, empty where it raises; a decoder is the     *)
(* condition under which it does not raise.                                *)
(***************************************************************************)
EXTENDS CapabilityToken

HINT_SIZE          == 8
SEAL_OVERHEAD      == 32 + 16
MSG_ID_SIZE        == 16
MAX_USERNAME_BYTES == 32
MAX_DM_TEXT_BYTES  == 265

\* A plain text: its length, its first byte, and the byte that follows an
\* identity block, where it has them.
Plain(len, first, flag) == [len |-> len, first |-> first, flag |-> flag]

\* hint ++ seal(body, key)
Sealed(hint, key, body) ==
    [hint |-> hint, key |-> key, body |-> body,
     len |-> HINT_SIZE + SEAL_OVERHEAD + body.len]

\* unseal of what follows the hint raises on what is too short, and on the
\* wrong key.
Opens(raw, key) == raw.len >= HINT_SIZE + SEAL_OVERHEAD /\ raw.key = key

HasRecipientHint(len) == len >= HINT_SIZE

\* _pack_identity: the length byte, the name, and two keys of 32 bytes.
Named(name_len)        == 1 <= name_len /\ name_len <= MAX_USERNAME_BYTES
IdentitySize(name_len) == 1 + name_len + 64

\* _unpack_identity, and the length of what it leaves.
HoldsIdentity(body) ==
    body.len >= 1 /\ Named(body.first) /\ body.len >= IdentitySize(body.first)
Remainder(body) == body.len - IdentitySize(body.first)

EncodeFriendRequest(name_len, hint, key) ==
    IF Named(name_len)
    THEN {Sealed(hint, key, Plain(IdentitySize(name_len), name_len, 0))}
    ELSE {}

DecodesFriendRequest(raw, key) ==
    Opens(raw, key) /\ HoldsIdentity(raw.body) /\ Remainder(raw.body) = 0

\* Without a token, and with one of token_len bytes.
EncodePlainAccept(name_len, hint, key) ==
    IF Named(name_len)
    THEN {Sealed(hint, key, Plain(IdentitySize(name_len) + 1, name_len, 0))}
    ELSE {}
EncodeTokenAccept(name_len, token_len, hint, key) ==
    IF Named(name_len) /\ token_len = TOKEN_SIZE
    THEN {Sealed(hint, key, Plain(IdentitySize(name_len) + 1 + token_len, name_len, 1))}
    ELSE {}

DecodesFriendAccept(raw, key) ==
    /\ Opens(raw, key) /\ HoldsIdentity(raw.body)
    /\ Remainder(raw.body) = IF raw.body.flag = 0 THEN 1 ELSE 1 + TOKEN_SIZE

\* Hint and the msg_id of the request, in the clear
EncodeFriendDecline(id_len) == IF id_len = MSG_ID_SIZE THEN {HINT_SIZE + id_len} ELSE {}
DecodesFriendDecline(len)   == len = HINT_SIZE + MSG_ID_SIZE

DmText(len) == 1 <= len /\ len <= MAX_DM_TEXT_BYTES

EncodeDirectMessage(text_len, first, hint, key) ==
    IF DmText(text_len) THEN {Sealed(hint, key, Plain(text_len, first, 0))} ELSE {}

DecodesDirectMessage(raw, key) == Opens(raw, key) /\ DmText(raw.body.len)

\* The payload of a LOCATION_QUERY is the token, encoded and decoded by one test.
IsLocationQuery(len) == len = TOKEN_SIZE

\* A fix fits the fields of a LOCATION_RESPONSE, or struct.pack raises.
Fits(fix) ==
    /\ fix.lat \in Int32 /\ fix.lon \in Int32
    /\ fix.accuracy \in Uint16 /\ fix.age \in Uint32 /\ fix.zone \in Uint16

RESPONSE_SIZE == 8 + 4 + 4 + 2 + 4 + 2

EncodeLocationResponse(fix, hint, key) ==
    IF Fits(fix) THEN {Sealed(hint, key, Plain(RESPONSE_SIZE, 0, 0))} ELSE {}

DecodesLocationResponse(raw, key) == Opens(raw, key) /\ raw.body.len = RESPONSE_SIZE

\* In the clear: the revocation key, and the beacon of lat, lon and accuracy.
REVOKE_PAYLOAD_SIZE == 8 + 8 + 4 + 8
BEACON_PAYLOAD_SIZE == 4 + 4 + 2

EncodeLocationRevoke(key) == IF key.issued_at \in Uint32 THEN {REVOKE_PAYLOAD_SIZE} ELSE {}
DecodesLocationRevoke(len) == len = REVOKE_PAYLOAD_SIZE

EncodeLocationBeacon(lat, lon, accuracy) ==
    IF lat \in Int32 /\ lon \in Int32 /\ accuracy \in Uint16 THEN {BEACON_PAYLOAD_SIZE} ELSE {}
DecodesLocationBeacon(len) == len = BEACON_PAYLOAD_SIZE
=============================================================================
