--------------------------- MODULE FriendshipProofs ---------------------------
(***************************************************************************)
(* Proofs about Friendship, for any number of requests, any length of time *)
(* and any expiry of a token. The inductive invariant has three parts:     *)
(* Typed; Consent, which says what each state of a record and each message *)
(* on the mesh tell of the users' answers; and Grants, which follows every *)
(* token from its issue to the node that hears of its revocation.          *)
(***************************************************************************)
EXTENDS Friendship, TLAPS

Typed ==
    /\ record \in [Peer -> Record(minted)]
    /\ inbound \in [Peer -> 0 .. MaxRequests] /\ requests \in [Peer -> 0 .. MaxRequests]
    /\ word \in [Peer -> {"none", "yes", "no"}] /\ willing \subseteq Peer
    /\ now \in 0 .. MaxTime
    /\ \A m \in msgs : m.from \in Peer /\ (m.type = "request" => m.id \in 0 .. MaxRequests)

\* Who asks or accepts has said yes; who is asked or answered knows of a yes.
Consent ==
    /\ \A p \in Peer :
        /\ record[p].state \in {"requested", "friends"} => word[p] = "yes"
        /\ word[p] = "yes" => p \in willing
        /\ record[p].state \in {"pending", "friends"} => Other(p) \in willing
    /\ \A m \in msgs : m.type \in {"request", "accept"} => m.from \in willing

IssuedBy(t, p, at, nonce) ==
    /\ t = Sign(p, Body(p, Other(p), at, at + EXPIRY_S, nonce))
    /\ at + EXPIRY_S \in Uint32

Minted == \A t \in minted : \E p \in Peer, at \in 0 .. now, nonce \in Nonce : IssuedBy(t, p, at, nonce)

OneNonce == \A t, u \in minted : t.body.nonce = u.body.nonce => t = u

\* A record holds its own phone's tokens, and none while nothing is shared.
Held == \A p \in Peer :
    /\ \A t \in record[p].tokens : t \in minted /\ t.body.issuer = p
    /\ ~ record[p].sharing => record[p].tokens = {}

\* A revocation that was sent names a token that is not held any more.
RevokesSent == \A m \in msgs : m.type = "revoke" =>
    \E t \in minted : /\ m = Revoke(t.body.issuer, RevocationKey(t))
                      /\ t \notin record[t.body.issuer].tokens

RevokesHeard == \A k \in revoked :
    \E t \in minted : k = RevocationKey(t) /\ Revoke(t.body.issuer, k) \in msgs

Grants == Minted /\ OneNonce /\ Held /\ RevokesSent /\ RevokesHeard /\ GrantsAccounted

IInv == Typed /\ Consent /\ Grants

-----------------------------------------------------------------------------
\* There are two phones, and each is the other's other.
LEMMA Others == \A p \in Peer : Other(p) \in Peer /\ Other(p) # p /\ Other(Other(p)) = p
  BY PeerAssumption DEF Peer, Other

\* The edges of transition (state.py:72-138), event by event.
LEMMA EdgesOf ==
  ASSUME NEW r, NEW event, NEW s \in Successors(r, event)
  PROVE  /\ s \in FriendshipState
         /\ event = "send_request" => r.state = "none" /\ s = "requested"
         /\ event = "recv_request" => r.state \in {"none", "requested"} /\ s = "pending"
         /\ event = "recv_accept" => r.state \in {"requested", "friends"} /\ s = "friends"
         /\ event = "recv_decline" => r.state = "requested" /\ s = "none"
         /\ event = "accept" => r.state = "pending" /\ s = "friends"
         /\ event = "decline" => r.state = "pending" /\ s = "none"
         /\ event \in {"enable_location", "disable_location", "recv_revoke"}
                => r.state = "friends" /\ s = "friends"
         /\ event = "unfriend" => r.state = "friends" /\ s = "revoked"
  <1>1. <<r.state, event, s>> \in Edges
    <2>1. PICK e \in Edges : e[1] = r.state /\ e[2] = event /\ e[3] = s
      BY DEF Successors
    <2>2. e = <<e[1], e[2], e[3]>>
      BY DEF Edges
    <2> QED BY <2>1, <2>2
  <1> QED BY <1>1 DEF Edges, FriendshipState

\* What a transition makes of a record.
LEMMA RecordAfter ==
  ASSUME NEW old, NEW event, NEW r \in Transition(old, event)
  PROVE  /\ r.state \in Successors(old, event)
         /\ r.sharing = SharingAfter(old, event)
         /\ r.tokens = TokensAfter(old, event)
         /\ r = [state |-> r.state, sharing |-> r.sharing, tokens |-> r.tokens]
  <1>1. PICK s \in Successors(old, event) :
            r = [state |-> s, sharing |-> SharingAfter(old, event), tokens |-> TokensAfter(old, event)]
    BY DEF Transition
  <1> QED BY <1>1

\* A transition keeps the type of a record.
LEMMA RecordTyped ==
  ASSUME NEW Token, NEW old \in Record(Token), NEW event, NEW r \in Transition(old, event)
  PROVE  r \in Record(Token)
  <1>1. r.state \in FriendshipState
    BY RecordAfter, EdgesOf
  <1>2. r.sharing \in BOOLEAN
    <2>1. SharingAfter(old, event) \in BOOLEAN
      BY Zenon DEF SharingAfter
    <2> QED BY <2>1, RecordAfter
  <1>3. r.tokens \in SUBSET Token
    BY RecordAfter DEF TokensAfter, Record
  <1> QED BY <1>1, <1>2, <1>3, RecordAfter DEF Record

\* The fields of an issued token.
LEMMA TokenFields ==
  ASSUME NEW p, NEW at, NEW nonce, NEW t, IssuedBy(t, p, at, nonce)
  PROVE  /\ t.body.version = TOKEN_VERSION /\ t.body.issuer = p /\ t.body.grantee = Other(p)
         /\ t.body.issued_at = at /\ t.body.expires_at = at + EXPIRY_S
         /\ t.body.scope = {SCOPE_LOCATION} /\ t.body.nonce = nonce
         /\ t.signature = <<p, t.body>>
  BY DEF IssuedBy, Sign, Body

\* What a transition of one phone makes of the two records.
LEMMA TurnEffect ==
  ASSUME Typed, NEW p \in Peer, NEW event, NEW r, Step(p, event, r)
  PROVE  /\ record' \in [Peer -> Record(minted)]
         /\ record'[p].state \in Successors(record[p], event)
         /\ record'[p].sharing = SharingAfter(record[p], event)
         /\ record'[p].tokens = TokensAfter(record[p], event)
         /\ \A q \in Peer : q # p => record'[q] = record[q]
  <1>1. r \in Record(minted)
    BY RecordTyped DEF Typed, Step
  <1>2. record' = [record EXCEPT ![p] = r] /\ record \in [Peer -> Record(minted)]
    BY DEF Typed, Step
  <1>3. record'[p] = r /\ record' \in [Peer -> Record(minted)]
    BY <1>1, <1>2
  <1> QED BY <1>2, <1>3, RecordAfter DEF Step

-----------------------------------------------------------------------------
\* Types.

\* Initially every record is new and no message has been sent.
LEMMA InitTyped == Init => Typed
  <1> SUFFICES ASSUME Init PROVE Typed
    OBVIOUS
  <1>1. NewRecord \in Record(minted)
    BY DEF NewRecord, Record, FriendshipState
  <1> QED BY <1>1, BoundAssumption DEF Init, Typed

\* Every action keeps the types.
LEMMA NextTyped == Typed /\ [Next]_vars => Typed'
  <1> SUFFICES ASSUME Typed, [Next]_vars PROVE Typed'
    OBVIOUS
  <1> USE BoundAssumption
  <1>1. ASSUME NEW p \in Peer, SendRequest(p) PROVE Typed'
    <2>1. requests[p] + 1 \in 0 .. MaxRequests
      BY <1>1 DEF SendRequest, Typed
    <2>2. record' \in [Peer -> Record(minted)]
      BY <1>1, TurnEffect DEF SendRequest
    <2>3. word' \in [Peer -> {"none", "yes", "no"}] /\ willing' \subseteq Peer
      BY <1>1 DEF SendRequest, Say, Typed
    <2>4. \A m \in msgs' : m.from \in Peer /\ (m.type = "request" => m.id \in 0 .. MaxRequests)
      BY <1>1, <2>1 DEF SendRequest, Request, Typed
    <2> QED BY <1>1, <2>1, <2>2, <2>3, <2>4 DEF SendRequest, Typed
  <1>2. ASSUME NEW p \in Peer, AcceptRequest(p) PROVE Typed'
    <2>1. record' \in [Peer -> Record(minted)]
      BY <1>2, TurnEffect DEF AcceptRequest
    <2>2. word' \in [Peer -> {"none", "yes", "no"}] /\ willing' \subseteq Peer
      BY <1>2 DEF AcceptRequest, Say, Typed
    <2>3. \A m \in msgs' : m.from \in Peer /\ (m.type = "request" => m.id \in 0 .. MaxRequests)
      BY <1>2 DEF AcceptRequest, Accept, Typed
    <2> QED BY <1>2, <2>1, <2>2, <2>3 DEF AcceptRequest, Typed
  <1>3. ASSUME NEW p \in Peer, DeclineRequest(p) PROVE Typed'
    <2>1. record' \in [Peer -> Record(minted)]
      BY <1>3, TurnEffect DEF DeclineRequest
    <2>2. word' \in [Peer -> {"none", "yes", "no"}] /\ willing' \subseteq Peer
      BY <1>3 DEF DeclineRequest, Say, Typed
    <2>3. \A m \in msgs' : m.from \in Peer /\ (m.type = "request" => m.id \in 0 .. MaxRequests)
      BY <1>3 DEF DeclineRequest, Decline, Typed
    <2> QED BY <1>3, <2>1, <2>2, <2>3 DEF DeclineRequest, Typed
  <1>4. ASSUME NEW p \in Peer, EnableLocation(p) PROVE Typed'
    <2>1. PICK nonce \in Nonce, r \in Transition(record[p], "enable_location") :
              LET token == Issue(p, Other(p), now, nonce)
              IN  /\ record' = [record EXCEPT ![p] =
                                  IF token = {} THEN r
                                  ELSE RecordIssuedToken(r, CHOOSE t \in token : TRUE)]
                  /\ minted' = minted \cup token
                  /\ msgs' = msgs \cup {Accept(p, {t}) : t \in token}
                  /\ UNCHANGED <<inbound, requests, revoked, word, willing, now>>
      BY <1>4 DEF EnableLocation
    <2> DEFINE token == Issue(p, Other(p), now, nonce)
    <2>2. r \in Record(minted) /\ minted \subseteq minted' /\ token \subseteq minted'
      BY <2>1, RecordTyped DEF Typed
    <2>3. Record(minted) \subseteq Record(minted')
      BY <2>2 DEF Record
    <2>4. ASSUME token # {} PROVE RecordIssuedToken(r, CHOOSE t \in token : TRUE) \in Record(minted')
      <3>1. (CHOOSE t \in token : TRUE) \in minted'
        BY <2>2, <2>4
      <3> QED BY <2>2, <2>3, <3>1 DEF RecordIssuedToken, Record
    <2>5. record' \in [Peer -> Record(minted')]
      BY <2>1, <2>2, <2>3, <2>4 DEF Typed
    <2>6. \A m \in msgs' : m.from \in Peer /\ (m.type = "request" => m.id \in 0 .. MaxRequests)
      BY <2>1 DEF Typed, Accept
    <2> QED BY <2>1, <2>5, <2>6 DEF Typed
  <1>5. ASSUME NEW p \in Peer, DisableLocation(p) PROVE Typed'
    <2>1. record' \in [Peer -> Record(minted)]
      BY <1>5, TurnEffect DEF DisableLocation
    <2>2. \A m \in Revocations(p, "disable_location") : m.from \in Peer /\ m.type # "request"
      BY DEF Revocations, Revoke
    <2> QED BY <1>5, <2>1, <2>2 DEF DisableLocation, Typed
  <1>6. ASSUME NEW p \in Peer, Unfriend(p) PROVE Typed'
    <2>1. record' \in [Peer -> Record(minted)]
      BY <1>6, TurnEffect DEF Unfriend
    <2>2. \A m \in Revocations(p, "unfriend") : m.from \in Peer /\ m.type # "request"
      BY DEF Revocations, Revoke
    <2> QED BY <1>6, <2>1, <2>2 DEF Unfriend, Say, Typed
  <1>7. ASSUME NEW p \in Peer, NEW m \in msgs, Deliver(p, m) PROVE Typed'
    <2>1. PICK event : Receive(p, m, event) /\ (event = "recv_request" => m.type = "request")
      BY <1>7 DEF Deliver
    <2>2. record' \in [Peer -> Record(minted)]
      BY <2>1, TurnEffect DEF Receive
    <2> QED BY <2>1, <2>2 DEF Receive, Typed
  <1>8. ASSUME NEW m \in msgs, NodeHears(m) PROVE Typed'
    BY <1>8 DEF NodeHears, Typed
  <1>9. CASE Tick
    BY <1>9 DEF Tick, Typed
  <1>10. CASE UNCHANGED vars
    BY <1>10 DEF vars, Typed
  <1> QED BY <1>1, <1>2, <1>3, <1>4, <1>5, <1>6, <1>7, <1>8, <1>9, <1>10 DEF Next

-----------------------------------------------------------------------------
\* Consent.

\* Initially nobody has asked for anything.
LEMMA InitConsent == Init => Consent
  BY DEF Init, Consent, NewRecord

\* What one phone does to the consent of both, given how its record moves and
\* what it says and sends.
LEMMA ConsentKept ==
  ASSUME Typed, Consent, NEW p \in Peer,
         \A q \in Peer : q # p => record'[q].state = record[q].state /\ word'[q] = word[q],
         record'[p].state \in {"requested", "friends"} => word'[p] = "yes",
         word'[p] = "yes" => p \in willing',
         record'[p].state \in {"pending", "friends"} => Other(p) \in willing,
         willing \subseteq willing',
         \A m \in msgs' \ msgs : m.type \in {"request", "accept"} => m.from \in willing'
  PROVE  Consent'
  <1>1. ASSUME NEW q \in Peer
        PROVE  /\ record'[q].state \in {"requested", "friends"} => word'[q] = "yes"
               /\ word'[q] = "yes" => q \in willing'
               /\ record'[q].state \in {"pending", "friends"} => Other(q) \in willing'
    <2>1. CASE q = p
      BY <2>1
    <2>2. CASE q # p
      BY <2>2 DEF Consent
    <2> QED BY <2>1, <2>2
  <1>2. \A m \in msgs' : m.type \in {"request", "accept"} => m.from \in willing'
    BY DEF Consent
  <1> QED BY <1>1, <1>2 DEF Consent

\* Enabling leaves the states of both records, with a token or without one.
LEMMA EnableKeepsState ==
  ASSUME Typed, NEW p \in Peer, EnableLocation(p)
  PROVE  /\ record[p].state = "friends" /\ record'[p].state = "friends"
         /\ \A q \in Peer : q # p => record'[q] = record[q]
  <1>1. PICK nonce \in Nonce, r \in Transition(record[p], "enable_location") :
            LET token == Issue(p, Other(p), now, nonce)
            IN  record' = [record EXCEPT ![p] =
                              IF token = {} THEN r
                              ELSE RecordIssuedToken(r, CHOOSE t \in token : TRUE)]
    BY DEF EnableLocation
  <1>2. r.state = "friends" /\ record[p].state = "friends"
    BY <1>1, RecordAfter, EdgesOf
  <1>3. \A t : RecordIssuedToken(r, t).state = r.state
    <2>1. r = [state |-> r.state, sharing |-> r.sharing, tokens |-> r.tokens]
      BY RecordAfter
    <2> HIDE <1>1, <1>2
    <2> QED BY <2>1 DEF RecordIssuedToken
  <1> QED BY <1>1, <1>2, <1>3 DEF Typed

\* Every action keeps consent.
LEMMA NextConsent == Typed /\ Consent /\ [Next]_vars => Consent'
  <1> SUFFICES ASSUME Typed, Consent, [Next]_vars PROVE Consent'
    OBVIOUS
  <1>1. ASSUME NEW p \in Peer, SendRequest(p) PROVE Consent'
    <2>1. record'[p].state = "requested" /\ \A q \in Peer : q # p => record'[q] = record[q]
      BY <1>1, TurnEffect, EdgesOf DEF SendRequest
    <2>2. word' = [word EXCEPT ![p] = "yes"] /\ willing' = willing \cup {p}
      BY <1>1 DEF SendRequest, Say
    <2>3. \A m \in msgs' \ msgs : m.from = p
      BY <1>1 DEF SendRequest, Request
    <2> QED BY <2>1, <2>2, <2>3, ConsentKept DEF Typed
  <1>2. ASSUME NEW p \in Peer, AcceptRequest(p) PROVE Consent'
    <2>1. record[p].state = "pending" /\ \A q \in Peer : q # p => record'[q] = record[q]
      BY <1>2, TurnEffect, EdgesOf DEF AcceptRequest
    <2>2. word' = [word EXCEPT ![p] = "yes"] /\ willing' = willing \cup {p}
      BY <1>2 DEF AcceptRequest, Say
    <2>3. \A m \in msgs' \ msgs : m.from = p
      BY <1>2 DEF AcceptRequest, Accept
    <2>4. Other(p) \in willing
      BY <2>1 DEF Consent
    <2> QED BY <2>1, <2>2, <2>3, <2>4, ConsentKept DEF Typed
  <1>3. ASSUME NEW p \in Peer, DeclineRequest(p) PROVE Consent'
    <2>1. record'[p].state = "none" /\ \A q \in Peer : q # p => record'[q] = record[q]
      BY <1>3, TurnEffect, EdgesOf DEF DeclineRequest
    <2>2. word' = [word EXCEPT ![p] = "no"] /\ willing' = willing
      BY <1>3 DEF DeclineRequest, Say
    <2>3. \A m \in msgs' \ msgs : m.type = "decline"
      BY <1>3 DEF DeclineRequest, Decline
    <2> QED BY <2>1, <2>2, <2>3, ConsentKept DEF Typed
  <1>4. ASSUME NEW p \in Peer, EnableLocation(p) PROVE Consent'
    <2>1. /\ record[p].state = "friends" /\ record'[p].state = "friends"
          /\ \A q \in Peer : q # p => record'[q] = record[q]
      BY <1>4, EnableKeepsState
    <2>2. word[p] = "yes" /\ p \in willing /\ Other(p) \in willing
      BY <2>1 DEF Consent
    <2>3. word' = word /\ willing' = willing /\ \A m \in msgs' \ msgs : m.from = p
      BY <1>4 DEF EnableLocation, Accept
    <2> QED BY <2>1, <2>2, <2>3, ConsentKept
  <1>5. ASSUME NEW p \in Peer, DisableLocation(p) PROVE Consent'
    <2>1. /\ record[p].state = "friends" /\ record'[p].state = "friends"
          /\ \A q \in Peer : q # p => record'[q] = record[q]
      BY <1>5, TurnEffect, EdgesOf DEF DisableLocation
    <2>2. \A m \in msgs' \ msgs : m.type = "revoke"
      BY <1>5 DEF DisableLocation, Revocations, Revoke
    <2>3. word[p] = "yes" /\ p \in willing /\ Other(p) \in willing
      BY <2>1 DEF Consent
    <2>4. word' = word /\ willing' = willing
      BY <1>5 DEF DisableLocation
    <2> QED BY <2>1, <2>2, <2>3, <2>4, ConsentKept
  <1>6. ASSUME NEW p \in Peer, Unfriend(p) PROVE Consent'
    <2>1. record'[p].state = "revoked" /\ \A q \in Peer : q # p => record'[q] = record[q]
      BY <1>6, TurnEffect, EdgesOf DEF Unfriend
    <2>2. word' = [word EXCEPT ![p] = "no"] /\ willing' = willing
      BY <1>6 DEF Unfriend, Say
    <2>3. \A m \in msgs' \ msgs : m.type = "revoke"
      BY <1>6 DEF Unfriend, Revocations, Revoke
    <2> QED BY <2>1, <2>2, <2>3, ConsentKept DEF Typed
  <1>7. ASSUME NEW p \in Peer, NEW m \in msgs, Deliver(p, m) PROVE Consent'
    <2>1. PICK event : /\ Receive(p, m, event)
                       /\ <<m.type, event>> \in {<<"request", "recv_request">>, <<"accept", "recv_accept">>,
                                                 <<"decline", "recv_decline">>, <<"revoke", "recv_revoke">>}
      BY <1>7 DEF Deliver
    <2>2. /\ record'[p].state \in Successors(record[p], event)
          /\ \A q \in Peer : q # p => record'[q] = record[q]
      BY <2>1, TurnEffect DEF Receive
    <2>3. m.from = Other(p) /\ word' = word /\ willing' = willing /\ msgs' = msgs
      BY <2>1 DEF Receive
    <2>4. record'[p].state \in {"requested", "friends"} => word[p] = "yes"
      BY <2>1, <2>2, EdgesOf DEF Consent
    <2>5. record'[p].state \in {"pending", "friends"} => Other(p) \in willing
      BY <2>1, <2>2, <2>3, EdgesOf DEF Consent
    <2>6. word[p] = "yes" => p \in willing
      BY DEF Consent
    <2> QED BY <2>2, <2>3, <2>4, <2>5, <2>6, ConsentKept
  <1>8. ASSUME NEW m \in msgs, NodeHears(m) PROVE Consent'
    BY <1>8 DEF NodeHears, Consent
  <1>9. CASE Tick
    BY <1>9 DEF Tick, Consent
  <1>10. CASE UNCHANGED vars
    BY <1>10 DEF vars, Consent
  <1> QED BY <1>1, <1>2, <1>3, <1>4, <1>5, <1>6, <1>7, <1>8, <1>9, <1>10 DEF Next

-----------------------------------------------------------------------------
\* Grants.

\* Initially no token has been issued.
LEMMA InitGrants == Init => Grants
  BY DEF Init, Grants, Minted, OneNonce, Held, RevokesSent, RevokesHeard, GrantsAccounted,
         NewRecord

\* A step that issues and revokes nothing keeps the grants, however long it
\* takes and whatever else it sends.
LEMMA QuietGrants ==
  ASSUME Grants, now \in Nat, now' \in Nat, now <= now',
         \A q \in Peer : record'[q].tokens = record[q].tokens /\ record'[q].sharing = record[q].sharing,
         minted' = minted, revoked' = revoked,
         msgs \subseteq msgs', \A m \in msgs' \ msgs : m.type # "revoke"
  PROVE  Grants'
  <1>1. Minted'
    BY DEF Grants, Minted, IssuedBy
  <1>2. OneNonce' /\ Held'
    BY DEF Grants, OneNonce, Held
  <1>3. \A t \in minted : t.body.issuer \in Peer
    BY TokenFields DEF Grants, Minted
  <1>4. RevokesSent'
    BY <1>3 DEF Grants, RevokesSent
  <1>5. RevokesHeard'
    BY DEF Grants, RevokesHeard
  <1>6. GrantsAccounted'
    BY <1>3 DEF Grants, GrantsAccounted
  <1> QED BY <1>1, <1>2, <1>4, <1>5, <1>6 DEF Grants

\* A step that stops the sharing of p and sends a revocation of each of its
\* tokens keeps the grants.
LEMMA RevokedGrants ==
  ASSUME Typed, Grants, NEW p \in Peer,
         record'[p].tokens = {},
         \A q \in Peer : q # p => record'[q] = record[q],
         minted' = minted, revoked' = revoked, now' = now,
         msgs' = msgs \cup {Revoke(p, RevocationKey(t)) : t \in record[p].tokens}
  PROVE  Grants'
  <1>1. Minted' /\ OneNonce'
    BY DEF Grants, Minted, OneNonce, IssuedBy
  <1>2. Held'
    BY DEF Grants, Held
  <1>3. \A t \in minted : t.body.issuer \in Peer
    BY TokenFields DEF Grants, Minted
  <1>4. RevokesSent'
    <2>1. ASSUME NEW m \in msgs', m.type = "revoke"
          PROVE  \E t \in minted : /\ m = Revoke(t.body.issuer, RevocationKey(t))
                                   /\ t \notin record'[t.body.issuer].tokens
      <3>1. CASE m \in msgs
        BY <1>3, <2>1, <3>1 DEF Grants, RevokesSent
      <3>2. CASE m \notin msgs
        <4>1. PICK t \in record[p].tokens : m = Revoke(p, RevocationKey(t))
          BY <3>2
        <4>2. t \in minted /\ t.body.issuer = p
          BY <4>1 DEF Grants, Held
        <4> QED BY <4>1, <4>2
      <3> QED BY <3>1, <3>2
    <2> QED BY <2>1 DEF RevokesSent
  <1>5. RevokesHeard'
    BY DEF Grants, RevokesHeard
  <1>6. GrantsAccounted'
    <2>1. ASSUME NEW t \in minted
          PROVE  \/ t \in record'[t.body.issuer].tokens
                 \/ Revoke(t.body.issuer, RevocationKey(t)) \in msgs'
      <3>1. CASE t.body.issuer = p
        BY <3>1 DEF Grants, GrantsAccounted
      <3>2. CASE t.body.issuer # p
        BY <1>3, <3>2 DEF Grants, GrantsAccounted
      <3> QED BY <3>1, <3>2
    <2> QED BY <2>1 DEF GrantsAccounted
  <1> QED BY <1>1, <1>2, <1>4, <1>5, <1>6 DEF Grants

\* The revocations that stopping to share emits are those of all tokens held.
LEMMA RevokesAll ==
  ASSUME Typed, Grants, NEW p \in Peer, NEW event \in {"disable_location", "unfriend"}
  PROVE  /\ Revocations(p, event) = {Revoke(p, RevocationKey(t)) : t \in record[p].tokens}
         /\ TokensAfter(record[p], event) = {}
  <1>1. CASE record[p].sharing
    BY <1>1 DEF Revocations, EmitsRevoke, TokensAfter
  <1>2. CASE ~ record[p].sharing
    <2>1. record[p].tokens = {}
      BY <1>2 DEF Grants, Held
    <2> QED BY <1>2, <2>1 DEF Revocations, EmitsRevoke, TokensAfter
  <1> QED BY <1>1, <1>2

\* Enabling adds one token with a nonce of its own, or, where issue() raises,
\* none.
LEMMA EnabledGrants ==
  ASSUME Typed, Grants, NEW p \in Peer, EnableLocation(p)
  PROVE  Grants'
  <1>1. PICK nonce \in Nonce \ {t.body.nonce : t \in minted},
             r \in Transition(record[p], "enable_location") :
            LET token == Issue(p, Other(p), now, nonce)
            IN  /\ record' = [record EXCEPT ![p] =
                                IF token = {} THEN r
                                ELSE RecordIssuedToken(r, CHOOSE t \in token : TRUE)]
                /\ minted' = minted \cup token
                /\ msgs' = msgs \cup {Accept(p, {t}) : t \in token}
                /\ UNCHANGED <<inbound, requests, revoked, word, willing, now>>
    BY DEF EnableLocation
  <1> DEFINE new == Sign(p, Body(p, Other(p), now, now + EXPIRY_S, nonce))
  <1>2. r.tokens = record[p].tokens /\ r.sharing = TRUE
    <2>1. r.tokens = record[p].tokens
      BY RecordAfter DEF TokensAfter
    <2>2. r.sharing = TRUE
      BY RecordAfter DEF SharingAfter
    <2> QED BY <2>1, <2>2
  <1>3. r = [state |-> r.state, sharing |-> r.sharing, tokens |-> r.tokens]
    BY RecordAfter
  <1>4. CASE Issue(p, Other(p), now, nonce) = {}
    <2>1. /\ record' = [record EXCEPT ![p] = r]
          /\ minted' = minted /\ msgs' = msgs /\ revoked' = revoked /\ now' = now
      BY <1>1, <1>4
    <2>2. record'[p] = r /\ \A q \in Peer : q # p => record'[q] = record[q]
      BY <2>1 DEF Typed
    <2>3. Held'
      BY <1>2, <2>1, <2>2 DEF Grants, Held
    <2>4. Minted' /\ OneNonce'
      BY <2>1 DEF Grants, Minted, OneNonce, IssuedBy
    <2>5. \A q \in Peer : record'[q].tokens = record[q].tokens
      BY <1>2, <2>2
    <2>6. \A t \in minted : t.body.issuer \in Peer
      BY TokenFields DEF Grants, Minted
    <2>7. RevokesSent' /\ RevokesHeard' /\ GrantsAccounted'
      BY <2>1, <2>5, <2>6 DEF Grants, RevokesSent, RevokesHeard, GrantsAccounted
    <2> QED BY <2>3, <2>4, <2>7 DEF Grants
  <1>5. CASE Issue(p, Other(p), now, nonce) # {}
    <2>1. Issue(p, Other(p), now, nonce) = {new} /\ now + EXPIRY_S \in Uint32
      BY <1>5 DEF Issue
    <2>2. (CHOOSE t \in {new} : TRUE) = new
      OBVIOUS
    <2>3. /\ record' = [record EXCEPT ![p] = RecordIssuedToken(r, new)]
          /\ minted' = minted \cup {new} /\ msgs' = msgs \cup {Accept(p, {new})}
          /\ revoked' = revoked /\ now' = now
      BY <1>1, <2>1, <2>2
    <2>4. IssuedBy(new, p, now, nonce)
      BY <2>1 DEF IssuedBy
    <2> HIDE DEF new
    <2>5. new.body.issuer = p /\ new.body.nonce = nonce
      BY <2>4, TokenFields
    <2>6. \A t \in minted : t.body.nonce # new.body.nonce /\ t # new
      BY <1>1, <2>5
    <2>7. RecordIssuedToken(r, new).tokens = record[p].tokens \cup {new}
          /\ RecordIssuedToken(r, new).sharing = TRUE
      BY <1>2, <1>3 DEF RecordIssuedToken
    <2>8. /\ record'[p].tokens = record[p].tokens \cup {new} /\ record'[p].sharing = TRUE
          /\ \A q \in Peer : q # p => record'[q] = record[q]
      BY <2>3, <2>7 DEF Typed
    <2>9. \A t \in minted : t.body.issuer \in Peer
      BY TokenFields DEF Grants, Minted
    <2>10. Minted'
      <3>1. now \in 0 .. now
        BY DEF Typed
      <3>2. \E q \in Peer, at \in 0 .. now, n \in Nonce : IssuedBy(new, q, at, n)
        BY <2>4, <3>1
      <3> QED BY <2>3, <3>2 DEF Grants, Minted, IssuedBy
    <2>11. OneNonce'
      BY <2>3, <2>6 DEF Grants, OneNonce
    <2>12. Held'
      BY <2>3, <2>5, <2>8 DEF Grants, Held
    <2>13. RevokesSent'
      <3>1. ASSUME NEW m \in msgs', m.type = "revoke"
            PROVE  \E t \in minted' : /\ m = Revoke(t.body.issuer, RevocationKey(t))
                                      /\ t \notin record'[t.body.issuer].tokens
        <4>1. m \in msgs
          BY <2>3, <3>1 DEF Accept
        <4>2. PICK t \in minted : /\ m = Revoke(t.body.issuer, RevocationKey(t))
                                  /\ t \notin record[t.body.issuer].tokens
          BY <3>1, <4>1 DEF Grants, RevokesSent
        <4>3. t \notin record'[t.body.issuer].tokens
          BY <2>6, <2>8, <2>9, <4>2
        <4> QED BY <2>3, <4>2, <4>3
      <3> QED BY <3>1 DEF RevokesSent
    <2>14. RevokesHeard'
      BY <2>3 DEF Grants, RevokesHeard
    <2>15. GrantsAccounted'
      <3>1. ASSUME NEW t \in minted
            PROVE  \/ t \in record'[t.body.issuer].tokens
                   \/ Revoke(t.body.issuer, RevocationKey(t)) \in msgs'
        BY <2>3, <2>8, <2>9 DEF Grants, GrantsAccounted
      <3>2. new \in record'[new.body.issuer].tokens
        BY <2>5, <2>8
      <3> QED BY <2>3, <3>1, <3>2 DEF GrantsAccounted
    <2> QED BY <2>10, <2>11, <2>12, <2>13, <2>14, <2>15 DEF Grants
  <1> QED BY <1>4, <1>5

\* The other events leave what is shared alone.
LEMMA NothingShared ==
  ASSUME Typed, NEW p \in Peer, NEW r,
         NEW event \in {"send_request", "accept", "decline",
                        "recv_request", "recv_accept", "recv_decline", "recv_revoke"},
         Step(p, event, r)
  PROVE  \A q \in Peer : record'[q].tokens = record[q].tokens /\ record'[q].sharing = record[q].sharing
  <1>1. record[p].sharing \in BOOLEAN
    BY DEF Typed, Record
  <1>2. SharingAfter(record[p], event) = record[p].sharing
    <2>1. CASE record[p].sharing = TRUE
      BY <2>1 DEF SharingAfter
    <2>2. CASE record[p].sharing = FALSE
      BY <2>2 DEF SharingAfter
    <2> QED BY <1>1, <2>1, <2>2
  <1>3. TokensAfter(record[p], event) = record[p].tokens
    BY DEF TokensAfter
  <1> QED BY <1>2, <1>3, TurnEffect

\* Every action keeps the grants.
LEMMA NextGrants == Typed /\ Typed' /\ Grants /\ [Next]_vars => Grants'
  <1> SUFFICES ASSUME Typed, Typed', Grants, [Next]_vars PROVE Grants'
    OBVIOUS
  <1>0. now \in Nat /\ now' \in Nat
    BY DEF Typed
  <1>1. ASSUME NEW p \in Peer, SendRequest(p) PROVE Grants'
    <2>1. \A q \in Peer : record'[q].tokens = record[q].tokens /\ record'[q].sharing = record[q].sharing
      BY <1>1, NothingShared DEF SendRequest
    <2>2. \A m \in msgs' \ msgs : m.type # "revoke"
      BY <1>1 DEF SendRequest, Request
    <2> QED BY <1>0, <1>1, <2>1, <2>2, QuietGrants DEF SendRequest
  <1>2. ASSUME NEW p \in Peer, AcceptRequest(p) PROVE Grants'
    <2>1. \A q \in Peer : record'[q].tokens = record[q].tokens /\ record'[q].sharing = record[q].sharing
      BY <1>2, NothingShared DEF AcceptRequest
    <2>2. \A m \in msgs' \ msgs : m.type # "revoke"
      BY <1>2 DEF AcceptRequest, Accept
    <2> QED BY <1>0, <1>2, <2>1, <2>2, QuietGrants DEF AcceptRequest
  <1>3. ASSUME NEW p \in Peer, DeclineRequest(p) PROVE Grants'
    <2>1. \A q \in Peer : record'[q].tokens = record[q].tokens /\ record'[q].sharing = record[q].sharing
      BY <1>3, NothingShared DEF DeclineRequest
    <2>2. \A m \in msgs' \ msgs : m.type # "revoke"
      BY <1>3 DEF DeclineRequest, Decline
    <2> QED BY <1>0, <1>3, <2>1, <2>2, QuietGrants DEF DeclineRequest
  <1>4. ASSUME NEW p \in Peer, EnableLocation(p) PROVE Grants'
    BY <1>4, EnabledGrants
  <1>5. ASSUME NEW p \in Peer, DisableLocation(p) PROVE Grants'
    <2>1. record'[p].tokens = {} /\ \A q \in Peer : q # p => record'[q] = record[q]
      BY <1>5, TurnEffect, RevokesAll DEF DisableLocation
    <2>2. msgs' = msgs \cup {Revoke(p, RevocationKey(t)) : t \in record[p].tokens}
      BY <1>5, RevokesAll DEF DisableLocation
    <2> QED BY <1>5, <2>1, <2>2, RevokedGrants DEF DisableLocation
  <1>6. ASSUME NEW p \in Peer, Unfriend(p) PROVE Grants'
    <2>1. record'[p].tokens = {} /\ \A q \in Peer : q # p => record'[q] = record[q]
      BY <1>6, TurnEffect, RevokesAll DEF Unfriend
    <2>2. msgs' = msgs \cup {Revoke(p, RevocationKey(t)) : t \in record[p].tokens}
      BY <1>6, RevokesAll DEF Unfriend
    <2> QED BY <1>6, <2>1, <2>2, RevokedGrants DEF Unfriend
  <1>7. ASSUME NEW p \in Peer, NEW m \in msgs, Deliver(p, m) PROVE Grants'
    <2>1. PICK event \in {"recv_request", "recv_accept", "recv_decline", "recv_revoke"} :
              Receive(p, m, event)
      BY <1>7 DEF Deliver
    <2>2. \A q \in Peer : record'[q].tokens = record[q].tokens /\ record'[q].sharing = record[q].sharing
      BY <2>1, NothingShared DEF Receive
    <2> QED BY <1>0, <2>1, <2>2, QuietGrants DEF Receive
  <1>8. ASSUME NEW m \in msgs, NodeHears(m) PROVE Grants'
    <2>1. PICK t \in minted : m = Revoke(t.body.issuer, RevocationKey(t))
      BY <1>8 DEF NodeHears, Grants, RevokesSent
    <2>2. m.key = RevocationKey(t)
      BY <2>1 DEF Revoke
    <2>3. revoked' = revoked \cup {RevocationKey(t)} /\ UNCHANGED <<record, msgs, minted, now>>
      BY <1>8, <2>2 DEF NodeHears
    <2>4. RevokesHeard'
      BY <2>1, <2>2, <2>3 DEF Grants, RevokesHeard
    <2>5. Minted' /\ OneNonce' /\ Held' /\ RevokesSent' /\ GrantsAccounted'
      BY <2>3 DEF Grants, Minted, OneNonce, IssuedBy, Held, RevokesSent, GrantsAccounted
    <2> QED BY <2>4, <2>5 DEF Grants
  <1>9. CASE Tick
    BY <1>0, <1>9, QuietGrants DEF Tick, Typed
  <1>10. CASE UNCHANGED vars
    BY <1>0, <1>10, QuietGrants DEF vars
  <1> QED BY <1>1, <1>2, <1>3, <1>4, <1>5, <1>6, <1>7, <1>8, <1>9, <1>10 DEF Next

-----------------------------------------------------------------------------
\* The invariant holds of every behaviour.
LEMMA AlwaysIInv == Spec => []IInv
  <1>1. Init => IInv
    BY InitTyped, InitConsent, InitGrants DEF IInv
  <1>2. IInv /\ [Next]_vars => IInv'
    BY NextTyped, NextConsent, NextGrants DEF IInv
  <1> QED BY <1>1, <1>2, PTL DEF Spec

\* Types: records, messages and clocks are of their types, every time in a
\* token fits its field (token.py:55-56), and only tokens are ever revoked.
THEOREM TypesCorrect == Spec => []TypeOK
  <1>1. IInv => TypeOK
    <2> SUFFICES ASSUME IInv PROVE TypeOK
      OBVIOUS
    <2>1. ASSUME NEW t \in minted PROVE t.body.issued_at \in Uint32 /\ t.body.expires_at \in Uint32
      <3>1. PICK p \in Peer, at \in 0 .. now, nonce \in Nonce : IssuedBy(t, p, at, nonce)
        BY DEF IInv, Grants, Minted
      <3>2. now \in Nat /\ at + EXPIRY_S \in Uint32
        BY <3>1, BoundAssumption DEF IInv, Typed, IssuedBy
      <3>3. at \in Uint32
        BY <3>2, TokenAssumption, WidthAssumption DEF Uint32
      <3> QED BY <3>1, <3>2, <3>3, TokenFields
    <2>2. revoked \subseteq {RevocationKey(t) : t \in minted}
      BY DEF IInv, Grants, RevokesHeard
    <2> QED BY <2>1, <2>2 DEF IInv, Typed, TypeOK
  <1> QED BY AlwaysIInv, <1>1, PTL

\* Mutual consent (state.py:8-13): a phone holds a friendship only while its
\* user's last word is yes and after the other user has said yes, whatever the
\* mesh delays, repeats, reorders or loses.
THEOREM FriendsConsent == Spec => []MutualConsent
  <1>1. IInv => MutualConsent
    BY DEF IInv, Consent, MutualConsent
  <1> QED BY AlwaysIInv, <1>1, PTL

\* No message ends a friendship or brings back one that was ended
\* (state.py:72-138).
THEOREM OwnDecisions == Spec => DecisionsStand
  <1> DEFINE Stands == \A p \in Peer :
        record[p].state \in {"friends", "revoked"} /\ word'[p] = word[p]
            => record'[p].state = record[p].state
  <1>1. IInv /\ [Next]_vars => [Stands]_vars
    <2> SUFFICES ASSUME IInv, Next PROVE Stands
      BY DEF Stands
    <2>1. Typed
      BY DEF IInv
    <2>2. ASSUME NEW p \in Peer, SendRequest(p) \/ AcceptRequest(p) \/ DeclineRequest(p)
          PROVE  Stands
      <3>1. record[p].state \notin {"friends", "revoked"} /\ \A q \in Peer : q # p => record'[q] = record[q]
        BY <2>1, <2>2, TurnEffect, EdgesOf DEF SendRequest, AcceptRequest, DeclineRequest
      <3> QED BY <3>1
    <2>3. ASSUME NEW p \in Peer, EnableLocation(p) PROVE Stands
      BY <2>1, <2>3, EnableKeepsState
    <2>4. ASSUME NEW p \in Peer, DisableLocation(p) PROVE Stands
      <3>1. record'[p].state = record[p].state /\ \A q \in Peer : q # p => record'[q] = record[q]
        BY <2>1, <2>4, TurnEffect, EdgesOf DEF DisableLocation
      <3> QED BY <3>1
    <2>5. ASSUME NEW p \in Peer, Unfriend(p) PROVE Stands
      <3>1. record[p].state = "friends" /\ \A q \in Peer : q # p => record'[q] = record[q]
        BY <2>1, <2>5, TurnEffect, EdgesOf DEF Unfriend
      <3>2. word[p] = "yes" /\ word'[p] = "no"
        BY <2>5, <3>1 DEF Unfriend, Say, IInv, Typed, Consent
      <3> QED BY <3>1, <3>2
    <2>6. ASSUME NEW p \in Peer, NEW m \in msgs, Deliver(p, m) PROVE Stands
      <3>1. PICK event \in {"recv_request", "recv_accept", "recv_decline", "recv_revoke"} :
                Receive(p, m, event)
        BY <2>6 DEF Deliver
      <3>2. /\ record[p].state \in {"friends", "revoked"} => record'[p].state = record[p].state
            /\ \A q \in Peer : q # p => record'[q] = record[q]
        BY <2>1, <3>1, TurnEffect, EdgesOf DEF Receive
      <3> QED BY <3>2
    <2>7. ASSUME NEW m \in msgs, NodeHears(m) PROVE Stands
      BY <2>7 DEF NodeHears
    <2>8. CASE Tick
      BY <2>8 DEF Tick
    <2> QED BY <2>2, <2>3, <2>4, <2>5, <2>6, <2>7, <2>8 DEF Next
  <1> QED BY AlwaysIInv, <1>1, PTL DEF Spec, DecisionsStand

\* What a node honours was issued by the target to this requester less than
\* EXPIRY_S ago (token.py:129-163).
THEOREM OnlyConsentServes == Spec => []ServedByConsent
  <1>1. IInv => ServedByConsent
    <2> SUFFICES ASSUME IInv, NEW t \in Presentable, NEW target \in Peer, NEW requester \in Peer,
                        Verify(t, target, requester, now)
                 PROVE  /\ t \in minted /\ t.body.issuer = target /\ requester = Other(target)
                        /\ now < t.body.issued_at + EXPIRY_S
      BY DEF ServedByConsent, Honoured
    <2>1. PICK u \in minted : t.signature = u.signature /\ (t.body = u.body => t = u)
      <3>1. ASSUME NEW u \in minted, NEW b
            PROVE  /\ [u EXCEPT !.body = b].signature = u.signature
                   /\ [u EXCEPT !.body = b].body = b
                   /\ b = u.body => [u EXCEPT !.body = b] = u
        <4>1. u = [body |-> u.body, signature |-> u.signature]
          BY DEF IInv, Grants, Minted, IssuedBy, Sign
        <4> QED BY <4>1
      <3>2. CASE t \in minted
        BY <3>2
      <3>3. CASE \E u \in minted, p \in Peer : t = [u EXCEPT !.body.grantee = p]
        BY <3>1, <3>3
      <3>4. CASE \E u \in minted, p \in Peer : t = [u EXCEPT !.body.issuer = p]
        BY <3>1, <3>4
      <3>5. CASE \E u \in minted : t = [u EXCEPT !.body.expires_at = @ + 1]
        BY <3>1, <3>5
      <3> QED BY <3>2, <3>3, <3>4, <3>5 DEF Presentable
    <2>2. PICK p \in Peer, at \in 0 .. now, nonce \in Nonce : IssuedBy(u, p, at, nonce)
      BY DEF IInv, Grants, Minted
    <2>3. t.signature = <<target, t.body>> /\ u.signature = <<p, u.body>>
      BY <2>2, TokenFields DEF Verify
    <2>4. t = u /\ p = target
      <3>1. \A a, b, c, d : <<a, b>> = <<c, d>> => a = c /\ b = d
        OBVIOUS
      <3>2. <<target, t.body>> = <<p, u.body>>
        BY <2>1, <2>3, Zenon
      <3>3. target = p /\ t.body = u.body
        BY <3>1, <3>2, Zenon
      <3> QED BY <2>1, <3>3, Zenon
    <2>5. t.body.grantee = requester /\ now < t.body.expires_at
      BY DEF Verify
    <2> QED BY <2>2, <2>4, <2>5, TokenFields
  <1> QED BY AlwaysIInv, <1>1, PTL

\* Consent is revocable: with all revocations heard, a node honours no token of
\* a user who has stopped sharing (state.py:118-136).
THEOREM RevocationsComplete == Spec => []RevocationComplete
  <1>1. IInv => RevocationComplete
    <2> SUFFICES ASSUME IInv, NEW p \in Peer, ~ record[p].sharing,
                        \A m \in msgs : m.type = "revoke" /\ m.from = p => m.key \in revoked,
                        NEW t \in minted, Honoured(t, p, Other(p))
                 PROVE  FALSE
      BY DEF RevocationComplete
    <2>1. t.body.issuer = p /\ RevocationKey(t) \notin revoked
      BY DEF Honoured, Verify
    <2>2. record[p].tokens = {}
      BY DEF IInv, Grants, Held
    <2>3. Revoke(p, RevocationKey(t)) \in msgs
      BY <2>1, <2>2 DEF IInv, Grants, GrantsAccounted
    <2> QED BY <2>1, <2>3 DEF Revoke
  <1> QED BY AlwaysIInv, <1>1, PTL

\* Revoking is exact: a token that is still held and has not expired is
\* honoured (token.py:166-170).
THEOREM LiveGrantsHonoured == Spec => []LiveGrantHonoured
  <1>1. IInv => LiveGrantHonoured
    <2> SUFFICES ASSUME IInv, NEW p \in Peer, NEW t \in record[p].tokens,
                        now < t.body.issued_at + EXPIRY_S
                 PROVE  Honoured(t, p, Other(p))
      BY DEF LiveGrantHonoured
    <2>1. t \in minted /\ t.body.issuer = p
      BY DEF IInv, Grants, Held
    <2>2. PICK q \in Peer, at \in 0 .. now, nonce \in Nonce : IssuedBy(t, q, at, nonce)
      BY <2>1 DEF IInv, Grants, Minted
    <2>3. Verify(t, p, Other(p), now)
      <3>1. at <= now /\ now < at + EXPIRY_S
        BY <2>2, TokenFields, BoundAssumption DEF IInv, Typed
      <3> QED BY <2>1, <2>2, <3>1, TokenFields DEF Verify
    <2>4. RevocationKey(t) \notin revoked
      <3> SUFFICES ASSUME RevocationKey(t) \in revoked PROVE FALSE
        OBVIOUS
      <3>1. PICK u \in minted : /\ RevocationKey(t) = RevocationKey(u)
                                /\ Revoke(u.body.issuer, RevocationKey(t)) \in msgs
        BY DEF IInv, Grants, RevokesHeard
      <3>2. t = u
        BY <2>1, <3>1 DEF RevocationKey, IInv, Grants, OneNonce
      <3>3. Revoke(p, RevocationKey(t)) \in msgs
        BY <2>1, <3>1, <3>2
      <3>4. PICK v \in minted : /\ Revoke(p, RevocationKey(t)) = Revoke(v.body.issuer, RevocationKey(v))
                                /\ v \notin record[v.body.issuer].tokens
        BY <3>3 DEF IInv, Grants, RevokesSent, Revoke
      <3>5. RevocationKey(v) = RevocationKey(t) /\ v.body.issuer = p
        BY <3>4 DEF Revoke
      <3>6. v = t
        BY <2>1, <3>5 DEF RevocationKey, IInv, Grants, OneNonce
      <3> QED BY <3>4, <3>5, <3>6
    <2> QED BY <2>3, <2>4 DEF Honoured
  <1> QED BY AlwaysIInv, <1>1, PTL
=============================================================================
