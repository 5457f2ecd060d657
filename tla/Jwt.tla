-------------------------------- MODULE Jwt --------------------------------
(***************************************************************************)
(* Validation of bearer tokens, internal/auth/jwt.go.                      *)
(*                                                                         *)
(* A token is a record: whether it decodes (three segments, base64, JSON), *)
(* the alg of its header, the key it was signed with, and its claims, a    *)
(* function from the claims it has.  Keys and names are model values or    *)
(* strings; times are whole seconds, as Unix() and int64(float64) make     *)
(* them.  The cryptography is external: a signature verifies under the key *)
(* it was made with and no other.                                          *)
(***************************************************************************)
EXTENDS Integers

(* The validation types and the kind of key each needs. *)
KindOfKey == [HS256 |-> "secret", RS256 |-> "rsa", ES256 |-> "ecdsa"]

(* The constructor: a service with an unusable setting must not start. *)
NewJWTValidator(auth) ==
    /\ auth.issuer # ""
    /\ auth.audience # {}
    /\ auth.alg \in DOMAIN KindOfKey
    /\ auth.key.kind = KindOfKey[auth.alg]

verifySignature(auth, token) == token.key = auth.key

(* The claim is there (a claim of another type than a number is treated as *)
(* a missing one and not kept in the function).                            *)
numericClaim(claims, name) == name \in DOMAIN claims

isAudienceValid(claims, audience) ==
    "aud" \in DOMAIN claims /\ claims.aud \cap audience # {}

Skew(auth) == IF auth.skew < 0 THEN 0 ELSE auth.skew

(* Mutant: the last second of the skew is refused. *)
UnexpiredStrictly(claims, skew, now) == now < claims.exp + skew

Unexpired(claims, skew, now) == ~(now > claims.exp + skew)
AlreadyValid(claims, skew, now) == ~(now + skew < claims.nbf)
IssuedBefore(claims, skew, now) == ~(claims.iat > now + skew)

validateClaims(auth, claims, now) ==
    /\ "iss" \in DOMAIN claims /\ claims.iss = auth.issuer
    /\ isAudienceValid(claims, auth.audience)
    /\ numericClaim(claims, "exp") /\ Unexpired(claims, Skew(auth), now)
    /\ numericClaim(claims, "nbf") /\ AlreadyValid(claims, Skew(auth), now)
    /\ numericClaim(claims, "iat") /\ IssuedBefore(claims, Skew(auth), now)

ValidateToken(auth, token, now) ==
    /\ token.decodes
    /\ token.alg = auth.alg
    /\ verifySignature(auth, token)
    /\ validateClaims(auth, token.claims, now)
-----------------------------------------------------------------------------
(* What the checks are for, stated without them.                           *)

(* The issuer made this token for this service. *)
Genuine(auth, token) ==
    /\ token.decodes /\ token.alg = auth.alg /\ token.key = auth.key
    /\ {"iss", "aud", "exp", "nbf", "iat"} \subseteq DOMAIN token.claims
    /\ token.claims.iss = auth.issuer
    /\ \E a \in auth.audience : a \in token.claims.aud

(* It is current by the clock c, to the second and with no allowance. *)
Current(claims, c) == claims.nbf <= c /\ claims.iat <= c /\ c <= claims.exp

(* The clocks the allowed skew stands for: the issuer's may be any of them. *)
Clocks(auth, now) == (now - Skew(auth))..(now + Skew(auth))

(* Issuers do not make tokens that expire before they are valid. *)
Consistent(claims) == claims.nbf <= claims.exp /\ claims.iat <= claims.exp
=============================================================================
