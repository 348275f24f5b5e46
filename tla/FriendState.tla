----------------------------- MODULE FriendState -----------------------------
(***************************************************************************)
(* The friendship state machine of src/friends/state.py: one record per    *)
(* friend, events of the local user and of the peer's messages.            *)
(***************************************************************************)

FriendshipState == {"none", "requested", "pending", "friends", "revoked"}

\* sharing is location_sharing_enabled, tokens capability_tokens_issued.
Record(Token) ==
    [state: FriendshipState, sharing: BOOLEAN, tokens: SUBSET Token]

NewRecord == [state |-> "none", sharing |-> FALSE, tokens |-> {}]

\* The edges that are explicitly allowed: <<state, event, next state>>.
Edges ==
    { <<"none",      "send_request",     "requested">>,
      <<"none",      "recv_request",     "pending">>,
      <<"requested", "recv_request",     "pending">>,
      <<"requested", "recv_accept",      "friends">>,
      <<"friends",   "recv_accept",      "friends">>,
      <<"requested", "recv_decline",     "none">>,
      <<"pending",   "accept",           "friends">>,
      <<"pending",   "decline",          "none">>,
      <<"friends",   "enable_location",  "friends">>,
      <<"friends",   "disable_location", "friends">>,
      <<"friends",   "recv_revoke",      "friends">>,
      <<"friends",   "unfriend",         "revoked">> }

\* Mutant: an acceptance also counts for a peer who has not answered yet.
SuccessorsEager(r, event) ==
    {e[3] : e \in {x \in Edges \cup {<<"pending", "recv_accept", "friends">>} :
                     x[1] = r.state /\ x[2] = event}}

\* Mutant: a decline ends a friendship.
SuccessorsDecline(r, event) ==
    {e[3] : e \in {x \in Edges \cup {<<"friends", "recv_decline", "none">>} :
                     x[1] = r.state /\ x[2] = event}}

\* Where event leads from r: nowhere, if it raises InvalidTransition.
Successors(r, event) ==
    {e[3] : e \in {x \in Edges : x[1] = r.state /\ x[2] = event}}

SharingAfter(r, event) ==
    \/ event = "enable_location"
    \/ (r.sharing /\ event \notin {"disable_location", "unfriend"})

\* Disabling what is not enabled returns the record unchanged.
TokensAfter(r, event) ==
    IF event = "unfriend" \/ (event = "disable_location" /\ r.sharing)
    THEN {}
    ELSE r.tokens

Transition(r, event) ==
    {[state |-> s, sharing |-> SharingAfter(r, event), tokens |-> TokensAfter(r, event)] :
        s \in Successors(r, event)}

\* Mutant: ending the friendship does not end the sharing.
EmitsRevokeNoUnfriend(r, event) == event = "disable_location" /\ r.sharing

\* The effect EMIT_LOCATION_REVOKE. The other effects belong to one event each.
EmitsRevoke(r, event) == event \in {"disable_location", "unfriend"} /\ r.sharing

RecordIssuedToken(r, t) == [r EXCEPT !.tokens = @ \cup {t}]
=============================================================================
