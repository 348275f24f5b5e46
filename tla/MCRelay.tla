------------------------------- MODULE MCRelay -------------------------------
EXTENDS Relay, Payloads, Signing

CONSTANTS m1, m2, m3, e1, e2, alice, bob

MCMsgId  == {m1, m2, m3}
MCSlot   == 1..3
MCHashes == [id \in MCMsgId |-> CASE id = m1 -> {1} [] id = m2 -> {2} [] id = m3 -> {3}]

Msg(id, ephem, sender, timestamp) ==
    [id |-> id, ephem |-> ephem, sender |-> sender, timestamp |-> timestamp,
     ttl |-> 2, spray |-> 4, size |-> 144, payload_len |-> 5, genuine |-> TRUE]

First == Msg(m1, e1, alice, 2)

\* A message with its relayed, inflated and forged copies, its identifier signed
\* again with another timestamp and ephemeral identifier, two more messages,
\* and one packet for each way of being malformed or out of date.
MCPacket ==
    { First,
      [First EXCEPT !.ttl = 1, !.spray = 2],
      [First EXCEPT !.spray = 8],
      [First EXCEPT !.spray = 1],
      [First EXCEPT !.genuine = FALSE],
      Msg(m1, e2, alice, 4),
      Msg(m2, e1, alice, 1),
      Msg(m3, e2, bob, 3),
      [First EXCEPT !.ttl = 0],
      [First EXCEPT !.size = 130],
      [First EXCEPT !.size = 137] }

MCToken ==
    { [sub |-> alice, exp |-> 2, valid |-> TRUE],
      [sub |-> alice, exp |-> 4, valid |-> TRUE],
      [sub |-> bob, exp |-> 4, valid |-> FALSE] }

-----------------------------------------------------------------------------
\* The theorems about packets of RelayProofs, evaluated over bounded lengths.

Name == 0 .. MAX_USERNAME_BYTES + 1
Size == 0 .. MAX_DM_TEXT_BYTES + 1

\* What a device builds is taken by the pipeline up to 321 bytes of payload,
\* and a copy that is relayed keeps its signed region.
ASSUME BuildingAssumption ==
    \A len \in 319 .. 323, timestamp \in U32_MAX .. U32_MAX + 1 :
        LET built == BuildSignedPacket(alice, e1, timestamp, 2, 4, 1, "text", len)
        IN  /\ built = {} <=> timestamp > U32_MAX
            /\ \A p \in built : /\ Parses(p) /\ (SizeAccepted(p) <=> len <= 321)
                                /\ \A copy \in OnwardCopies(p) : SignedRegion(copy) = SignedRegion(p)

\* Requests and acceptances are decoded as what they are, by the right key.
ASSUME FriendAssumption ==
    \A n \in Name, key, other \in {alice, bob} :
        /\ \A e \in EncodeFriendRequest(n, "hint", key) :
              /\ DecodesFriendRequest(e, other) <=> key = other
              /\ ~ DecodesFriendAccept(e, other) /\ HasRecipientHint(e.len)
        /\ \A e \in EncodePlainAccept(n, "hint", key) \cup EncodeTokenAccept(n, TOKEN_SIZE, "hint", key) :
              /\ DecodesFriendAccept(e, other) <=> key = other
              /\ ~ DecodesFriendRequest(e, other) /\ e.len <= 321
        /\ EncodeTokenAccept(n, TOKEN_SIZE - 1, "hint", key) = {}

\* The cap on direct messages is that of the packet, and the payloads in the
\* clear have the one length that their decoder takes.
ASSUME LengthAssumption ==
    /\ \A len \in Size : EncodeDirectMessage(len, 0, "hint", bob) # {}
                            <=> 0 < len /\ HINT_SIZE + SEAL_OVERHEAD + len <= 321
    /\ \A len \in Size : \A e \in EncodeDirectMessage(len, 0, "hint", bob) : DecodesDirectMessage(e, bob)
    /\ \A len \in Size : /\ DecodesFriendDecline(len) <=> EncodeFriendDecline(len - HINT_SIZE) # {}
                         /\ IsLocationQuery(len) <=> ParsesToken(len)
    /\ \A zone \in {65535, 65536} :
          LET fix  == [lat |-> 0, lon |-> 0, accuracy |-> 0, age |-> U32_MAX, zone |-> zone]
              sent == EncodeLocationResponse(fix, "hint", bob)
          IN  /\ sent = {} <=> zone = 65536
              /\ \A e \in sent : DecodesLocationResponse(e, bob) /\ ~ DecodesLocationResponse(e, alice)
    /\ \A len \in EncodeLocationRevoke([issued_at |-> U32_MAX]) : DecodesLocationRevoke(len)
    /\ \A len \in EncodeLocationBeacon(0, U32_MAX \div 2, 0) : DecodesLocationBeacon(len)
    /\ EncodeLocationBeacon(0, U32_MAX, 0) = {}
=============================================================================
