------------------------------ MODULE Friendship ------------------------------
(***************************************************************************)
(* Two phones that run the friendship state machine over the mesh, and a   *)
(* node that serves the location of one to the other against tokens.       *)
(*                                                                         *)
(* The mesh is the set of all messages ever sent: a message may be         *)
(* delivered late, in any order, repeatedly, or never. A message that is   *)
(* illegal in the state it meets raises InvalidTransition and changes      *)
(* nothing, so its delivery is not a step. The application and the node    *)
(* are outside the repository; they do what the sources ask of them: carry *)
(* out the effects of a transition before the next event, and honour a     *)
(* revocation that comes from the issuer of the token.                     *)
(***************************************************************************)
EXTENDS FriendState, CapabilityToken, FiniteSets

CONSTANTS
    ada, ben,       \* the two phones, named by their keys
    Nonce,          \* the random values that keep grants of one second apart
    MaxRequests,    \* bound on the friend requests of one phone
    MaxTime         \* bound on the clock

ASSUME PeerAssumption == ada # ben
ASSUME BoundAssumption == MaxRequests \in Nat /\ MaxTime \in Nat

VARIABLES
    record,         \* the FriendshipRecord each phone keeps of the other
    inbound,        \* the request a phone shows to its user, 0 if none yet
    requests,       \* the requests a phone has sent so far: 1 .. requests
    msgs,           \* the messages ever sent
    minted,         \* the tokens ever issued
    revoked,        \* the revocation set of the node
    word,           \* history: the last answer of each user to the friendship
    willing,        \* history: the users who have ever said yes
    now

vars == <<record, inbound, requests, msgs, minted, revoked, word, willing, now>>

Peer == {ada, ben}
Other(p) == IF p = ada THEN ben ELSE ada

Request(p, id)   == [type |-> "request", from |-> p, id |-> id]
Decline(p, id)   == [type |-> "decline", from |-> p, id |-> id]
Accept(p, token) == [type |-> "accept",  from |-> p, token |-> token]
Revoke(p, key)   == [type |-> "revoke",  from |-> p, key |-> key]

Init ==
    /\ record = [p \in Peer |-> NewRecord]
    /\ inbound = [p \in Peer |-> 0] /\ requests = [p \in Peer |-> 0]
    /\ msgs = {} /\ minted = {} /\ revoked = {}
    /\ word = [p \in Peer |-> "none"] /\ willing = {}
    /\ now = 0

\* event leads the record of p to r.
Step(p, event, r) ==
    /\ r \in Transition(record[p], event)
    /\ record' = [record EXCEPT ![p] = r]

Say(p, answer) ==
    /\ word' = [word EXCEPT ![p] = answer]
    /\ willing' = IF answer = "yes" THEN willing \cup {p} ELSE willing

SendRequest(p) ==
    /\ requests[p] < MaxRequests
    /\ \E r \in Transition(record[p], "send_request") : Step(p, "send_request", r)
    /\ requests' = [requests EXCEPT ![p] = @ + 1]
    /\ msgs' = msgs \cup {Request(p, requests[p] + 1)}
    /\ Say(p, "yes")
    /\ UNCHANGED <<inbound, minted, revoked, now>>

AcceptRequest(p) ==
    /\ \E r \in Transition(record[p], "accept") : Step(p, "accept", r)
    /\ msgs' = msgs \cup {Accept(p, {})}
    /\ Say(p, "yes")
    /\ UNCHANGED <<inbound, requests, minted, revoked, now>>

DeclineRequest(p) ==
    /\ \E r \in Transition(record[p], "decline") : Step(p, "decline", r)
    /\ msgs' = msgs \cup {Decline(p, inbound[p])}
    /\ Say(p, "no")
    /\ UNCHANGED <<inbound, requests, minted, revoked, now>>

\* The token is issued, recorded and sent in a FRIEND_ACCEPT, the path that
\* also refreshes tokens. Where issue() raises, sharing is on without a token.
EnableLocation(p) ==
    \E nonce \in Nonce \ {t.body.nonce : t \in minted} :
    \E r \in Transition(record[p], "enable_location") :
        LET token == Issue(p, Other(p), now, nonce)
        IN  /\ record' = [record EXCEPT ![p] =
                            IF token = {} THEN r
                            ELSE RecordIssuedToken(r, CHOOSE t \in token : TRUE)]
            /\ minted' = minted \cup token
            /\ msgs' = msgs \cup {Accept(p, {t}) : t \in token}
            /\ UNCHANGED <<inbound, requests, revoked, word, willing, now>>

\* EMIT_LOCATION_REVOKE: one revocation for each token of the old record.
Revocations(p, event) ==
    IF EmitsRevoke(record[p], event)
    THEN {Revoke(p, RevocationKey(t)) : t \in record[p].tokens}
    ELSE {}

DisableLocation(p) ==
    /\ \E r \in Transition(record[p], "disable_location") : Step(p, "disable_location", r)
    /\ msgs' = msgs \cup Revocations(p, "disable_location")
    /\ UNCHANGED <<inbound, requests, minted, revoked, word, willing, now>>

Unfriend(p) ==
    /\ \E r \in Transition(record[p], "unfriend") : Step(p, "unfriend", r)
    /\ msgs' = msgs \cup Revocations(p, "unfriend")
    /\ Say(p, "no")
    /\ UNCHANGED <<inbound, requests, minted, revoked, now>>

\* A message of the peer arrives at p. Nothing compares the request that a
\* decline names with the one p is waiting for.
Receive(p, m, event) ==
    /\ m.from = Other(p)
    /\ \E r \in Transition(record[p], event) : Step(p, event, r)
    /\ inbound' = IF event = "recv_request" THEN [inbound EXCEPT ![p] = m.id] ELSE inbound
    /\ UNCHANGED <<requests, msgs, minted, revoked, word, willing, now>>

Deliver(p, m) == \/ m.type = "request" /\ Receive(p, m, "recv_request")
                 \/ m.type = "accept"  /\ Receive(p, m, "recv_accept")
                 \/ m.type = "decline" /\ Receive(p, m, "recv_decline")
                 \/ m.type = "revoke"  /\ Receive(p, m, "recv_revoke")

\* The node hears a revocation; its sender must be the issuer of the token.
NodeHears(m) ==
    /\ m.type = "revoke" /\ m.from = m.key.issuer
    /\ revoked' = revoked \cup {m.key}
    /\ UNCHANGED <<record, inbound, requests, msgs, minted, word, willing, now>>

Tick ==
    /\ now < MaxTime
    /\ now' = now + 1
    /\ UNCHANGED <<record, inbound, requests, msgs, minted, revoked, word, willing>>

Next ==
    \/ \E p \in Peer : \/ SendRequest(p) \/ AcceptRequest(p) \/ DeclineRequest(p)
                       \/ EnableLocation(p) \/ DisableLocation(p) \/ Unfriend(p)
    \/ \E p \in Peer, m \in msgs : Deliver(p, m)
    \/ \E m \in msgs : NodeHears(m)
    \/ Tick

Spec == Init /\ [][Next]_vars

-----------------------------------------------------------------------------
TypeOK ==
    /\ record \in [Peer -> Record(minted)]
    /\ inbound \in [Peer -> 0 .. MaxRequests]
    /\ requests \in [Peer -> 0 .. MaxRequests]
    /\ \A m \in msgs : m.from \in Peer
    /\ \A t \in minted : t.body.issued_at \in Uint32 /\ t.body.expires_at \in Uint32
    /\ revoked \subseteq {RevocationKey(t) : t \in minted}
    /\ word \in [Peer -> {"none", "yes", "no"}] /\ willing \subseteq Peer
    /\ now \in 0 .. MaxTime

\* Mutual consent (state.py:8-13): a phone holds a friendship only while the
\* last thing its own user said about it is yes, and only if the other user
\* has said yes too, whatever the mesh does to requests, answers and crossing
\* requests.
MutualConsent ==
    \A p \in Peer : record[p].state = "friends" => word[p] = "yes" /\ Other(p) \in willing

\* No message ends a friendship or brings back one that was ended: from
\* FRIENDS and from REVOKED only the phone's own user leads elsewhere.
DecisionsStand ==
    [][\A p \in Peer :
        record[p].state \in {"friends", "revoked"} /\ word'[p] = word[p]
            => record'[p].state = record[p].state]_vars

\* Every token is still in the record that binds the friendship to its grants
\* (state.py:144-146), or a revocation of it has been sent.
GrantsAccounted ==
    \A t \in minted :
        \/ t \in record[t.body.issuer].tokens
        \/ Revoke(t.body.issuer, RevocationKey(t)) \in msgs

\* A node answers the query of requester about target that presents t.
Honoured(t, target, requester) ==
    Verify(t, target, requester, now) /\ RevocationKey(t) \notin revoked

\* Tokens as issued, and with a body that does not belong to the signature:
\* another grantee, another issuer, a later expiry.
Presentable ==
    minted \cup {[t EXCEPT !.body.grantee = p] : t \in minted, p \in Peer}
           \cup {[t EXCEPT !.body.issuer = p] : t \in minted, p \in Peer}
           \cup {[t EXCEPT !.body.expires_at = @ + 1] : t \in minted}

\* Consent is the target's own and expires (docs/friendship-and-location.md,
\* invariants 1 and 5): what a node honours was issued by the target to this
\* requester less than EXPIRY_S ago.
ServedByConsent ==
    \A t \in Presentable, target, requester \in Peer :
        Honoured(t, target, requester) =>
            /\ t \in minted /\ t.body.issuer = target /\ requester = Other(target)
            /\ now < t.body.issued_at + EXPIRY_S

\* Consent is revocable (invariant 5): once a user has switched sharing off or
\* ended the friendship, and the node has heard the revocations sent, the node
\* honours none of that user's tokens, refreshed or not, even unexpired ones.
RevocationComplete ==
    \A p \in Peer :
        /\ ~ record[p].sharing
        /\ \A m \in msgs : m.type = "revoke" /\ m.from = p => m.key \in revoked
        => \A t \in minted : ~ Honoured(t, p, Other(p))

\* Revoking is exact: a token that has been issued, not revoked, and not yet
\* outlived its EXPIRY_S is honoured, also when an earlier one of the same
\* second was revoked.
LiveGrantHonoured ==
    \A p \in Peer : \A t \in record[p].tokens :
        now < t.body.issued_at + EXPIRY_S => Honoured(t, p, Other(p))

\* What state.py:75-77 says of replayed messages, for declines: a request that
\* is waiting for an answer is withdrawn only by a decline of that request.
\* FALSE of the code: transition() never sees which request a decline names.
OnlyItsDeclineWithdraws ==
    [][\A p \in Peer :
        record[p].state = "requested" /\ record'[p].state = "none"
            => Decline(Other(p), requests[p]) \in msgs]_vars
=============================================================================
