----------------------------- MODULE Attestation -----------------------------
(***************************************************************************)
(* Step 7 of the relay pipeline, src/pipeline/attestation_check.py: the    *)
(* cache of ticket tokens, a function from the senders it holds to the     *)
(* expiry of the token added last.  A token is a record; valid says that   *)
(* its format, signature, algorithm, subject and event are accepted.       *)
(***************************************************************************)
EXTENDS Integers

NoTokens == [s \in {} |-> 0]

\* add_token raises ValueError otherwise.
TokenAccepted(token, now) == token.valid /\ token.exp > now

\* The new expiry replaces the cached one, be it later or earlier.
AddToken(tokens, token) ==
    [s \in DOMAIN tokens \cup {token.sub} |->
        IF s = token.sub THEN token.exp ELSE tokens[s]]

\* Mutant: a token is still good in the second it expires.
AttestedInclusive(tokens, sender, now) ==
    sender \in DOMAIN tokens /\ tokens[sender] >= now

Attested(tokens, sender, now) ==
    sender \in DOMAIN tokens /\ tokens[sender] > now

\* A check that meets an expired token deletes it.
AfterCheck(tokens, sender, now) ==
    IF sender \in DOMAIN tokens /\ ~ Attested(tokens, sender, now)
    THEN [s \in DOMAIN tokens \ {sender} |-> tokens[s]]
    ELSE tokens
=============================================================================
