----------------------------- MODULE MCIdentity -----------------------------
(* Three instances: its key and a shared token secret read from one vault,  *)
(* a Transit key and a Key Vault key beside an issuer's set.                *)
EXTENDS Identity

CONSTANTS k1, k2

Rules == <<[value |-> "admins", account |-> "admin"], [value |-> "staff", account |-> "reader"]>>
Config(backend, jwks, schemes, rules, leaves) ==
    [backend |-> backend, jwks |-> jwks, schemes |-> schemes, rules |-> rules,
     keys |-> [key \in {"a key"} |-> "robot"], leaves |-> leaves]

\* The shared secret is read twice, then the signer's key, then the shared secret again.
SharedLeaves == <<[use |-> "storage", ref |-> "shared"], [use |-> "layer", ref |-> "shared"],
                  [use |-> "signer", ref |-> "key"], [use |-> "auth", ref |-> "shared"]>>

MCConfigs == {Config("inmemory", FALSE, {"bearer", "apikey", "macaroon", ""}, << >>, SharedLeaves),
              Config("openbao", TRUE, {"bearer"}, Rules, << >>),
              Config("azure", TRUE, {"bearer", ""}, << >>, << >>)}

Claims == {[form |-> "absent", values |-> {}], [form |-> "string", values |-> {"staff"}],
           [form |-> "list", values |-> {"staff", "admins"}]}
Token(form, kid, made, holds, claim) ==
    [form |-> form, kid |-> kid, made |-> made, holds |-> holds, claim |-> claim]
Tokens == {Token("jwt", kid, 0, holds, claim) : kid \in Kids, holds \in BOOLEAN, claim \in Claims}
          \cup {Token(form, NoKid, v, TRUE, claim) :
                  form \in {"jwt", "macaroon"}, v \in 1..MaxVersion, claim \in Claims}
Headers == {Absent} \cup {[word |-> word, token |-> token] : word \in {"bearer", "macaroon"}, token \in Tokens}

MCRequests == {[authorization |-> header, apikey |-> Absent] : header \in Headers}
              \cup {[authorization |-> Absent, apikey |-> key] : key \in {"a key", "no key"}}
              \cup {[authorization |-> [word |-> "bearer", token |-> CHOOSE t \in Tokens : TRUE],
                     apikey |-> "a key"]}
=============================================================================
