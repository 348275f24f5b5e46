--------------------------- MODULE CapabilityToken ---------------------------
(***************************************************************************)
(* Capability tokens, src/capability/token.py: the right of a grantee to   *)
(* ask for the location of the issuer until the token expires. A signature *)
(* is the pair of its signer and the body it covers.                       *)
(***************************************************************************)
EXTENDS Widths

CONSTANT EXPIRY_S       \* expiry_s of issue()

ASSUME TokenAssumption == EXPIRY_S \in Nat \ {0}

TOKEN_VERSION  == 1
SCOPE_LOCATION == "location"
TOKEN_SIZE     == 34 + 64       \* body and signature

Body(issuer, grantee, now, expires, nonce) ==
    [version |-> TOKEN_VERSION, issuer |-> issuer, grantee |-> grantee,
     issued_at |-> now, expires_at |-> expires,
     scope |-> {SCOPE_LOCATION}, nonce |-> nonce]

Sign(issuer, body) == [body |-> body, signature |-> <<issuer, body>>]

\* Mutant: the width of the field is not enforced.
IssueUnchecked(issuer, grantee, now, nonce) ==
    {Sign(issuer, Body(issuer, grantee, now, now + EXPIRY_S, nonce))}

\* A token, or none when the expiry does not fit its field and packing raises.
Issue(issuer, grantee, now, nonce) ==
    IF now + EXPIRY_S \in Uint32
    THEN {Sign(issuer, Body(issuer, grantee, now, now + EXPIRY_S, nonce))}
    ELSE {}

\* parse raises otherwise.
ParsesToken(len) == len = TOKEN_SIZE

\* Mutant: the signature is not compared with the body it was made for.
VerifyAnyBody(t, target, grantee, now) ==
    /\ t.body.issuer = target /\ t.body.grantee = grantee
    /\ t.body.issued_at <= now /\ now < t.body.expires_at
    /\ t.signature[1] = target

Verify(t, target, grantee, now) ==
    /\ t.body.version = TOKEN_VERSION
    /\ t.body.issuer = target
    /\ t.body.grantee = grantee
    /\ SCOPE_LOCATION \in t.body.scope
    /\ t.body.issued_at <= now /\ now < t.body.expires_at
    /\ t.signature = <<target, t.body>>

\* Mutant: grants of the same second share a key.
RevocationKeyNoNonce(t) ==
    [issuer |-> t.body.issuer, grantee |-> t.body.grantee, issued_at |-> t.body.issued_at]

\* The identity of a grant: what a LOCATION_REVOKE carries.
RevocationKey(t) ==
    [issuer |-> t.body.issuer, grantee |-> t.body.grantee,
     issued_at |-> t.body.issued_at, nonce |-> t.body.nonce]
=============================================================================
