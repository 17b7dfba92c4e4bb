---------------------------- MODULE Authenticators ----------------------------
(***************************************************************************)
(* Who a request comes from (adapters/auth, rest_http/auth.go): the        *)
(* credential its headers present, the backend its scheme is routed to,    *)
(* and the account that backend finds behind it.                           *)
(*                                                                         *)
(* A header is [word, token]: the scheme's word and what follows it.  A    *)
(* token is what verifies it: the key it was made with (a JWKS kid, a      *)
(* version of the shared secret, or an API key), whether its registered    *)
(* claims hold, what its account claim carries and whether its caveats     *)
(* parse.                                                                  *)
(***************************************************************************)
EXTENDS Sequences, Naturals

CONSTANTS
    Absent,     \* a header that is not there
    NoKid

NoCredential == [scheme |-> "", token |-> Absent]
Unauthenticated == [account |-> "nobody", by |-> "refused"]
Ambiguous == [account |-> "nobody", by |-> "ambiguous"]
PrincipalOf(account, backend) == [account |-> account, by |-> backend]

\* An Authorization header is a macaroon if it says so and a bearer token otherwise.
Presented(request) ==
    LET bearer == IF request.authorization = Absent THEN << >>
                  ELSE <<[scheme |-> IF request.authorization.word = "macaroon" THEN "macaroon" ELSE "bearer",
                         token |-> request.authorization.token]>>
        apikey == IF request.apikey = Absent THEN << >>
                  ELSE <<[scheme |-> "apikey", token |-> request.apikey]>>
    IN bearer \o apikey

-----------------------------------------------------------------------------
(* The backends.  A rule maps a value the claim carries onto an account;    *)
(* without rules the claim names it, as one string.                         *)

accountByRule(rules, values) ==
    LET matching == {i \in DOMAIN rules : rules[i].value \in values}
    IN IF matching = {} THEN Unauthenticated
       ELSE LET first == CHOOSE i \in matching : \A j \in matching : i <= j
            IN PrincipalOf(rules[first].account, "jwt")

account(rules, claim) ==
    CASE claim.form = "absent" -> Unauthenticated
      [] rules # << >> -> accountByRule(rules, claim.values)
      [] claim.form = "string" -> PrincipalOf(CHOOSE v \in claim.values : TRUE, "jwt")
      [] OTHER -> Unauthenticated

\* The key is the static one, or the one the cached set holds under the token's kid.
AuthenticateJwt(config, secret, kids, token) ==
    IF /\ token.form = "jwt" /\ token.holds
       /\ IF config.jwks THEN token.kid \in kids ELSE token.kid = NoKid /\ token.made = secret
    THEN account(config.rules, token.claim)
    ELSE Unauthenticated

AuthenticateMacaroon(secret, token) ==
    IF /\ token.form = "macaroon" /\ token.made = secret /\ token.holds /\ token.claim.form = "string"
    THEN PrincipalOf(CHOOSE v \in token.claim.values : TRUE, "macaroon")
    ELSE Unauthenticated

AuthenticateKey(config, key) ==
    IF key \in DOMAIN config.keys THEN PrincipalOf(config.keys[key], "apikey") ELSE Unauthenticated

AuthenticateBy(config, secret, kids, cred) ==
    CASE cred.scheme = "bearer"   -> AuthenticateJwt(config, secret, kids, cred.token)
      [] cred.scheme = "macaroon" -> AuthenticateMacaroon(secret, cred.token)
      [] cred.scheme = "apikey"   -> AuthenticateKey(config, cred.token)
      [] OTHER                    -> PrincipalOf("anonymous", "noauth")

\* Mutant: a scheme nothing is configured for is nobody's, so anybody's.
AuthenticateFallingBack(config, secret, kids, cred) ==
    IF cred.scheme \in config.schemes THEN AuthenticateBy(config, secret, kids, cred)
    ELSE IF "" \in config.schemes THEN PrincipalOf("anonymous", "noauth") ELSE Unauthenticated

\* A credential goes to the backend of its scheme, none to NoAuth, if there is one.
Authenticate(config, secret, kids, cred) ==
    IF cred.scheme \in config.schemes THEN AuthenticateBy(config, secret, kids, cred)
    ELSE Unauthenticated

\* withCredential, then the endpoint's Set.
Caller(config, secret, kids, request) ==
    LET creds == Presented(request)
    IN CASE Len(creds) = 0 -> Authenticate(config, secret, kids, NoCredential)
         [] Len(creds) = 1 -> Authenticate(config, secret, kids, creds[1])
         [] OTHER -> Ambiguous
=============================================================================
