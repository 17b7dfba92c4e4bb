---------------------------- MODULE LaunchConfig ----------------------------
(***************************************************************************)
(* What a launch artifact must say for each step of a launch to succeed    *)
(* (config, cmd/ranke-db and the factories of the adapters).               *)
(*                                                                         *)
(* A job is one command line: [cmd, level, dev, input, ageKey, sealed,     *)
(* pass, pubkey, cfg].  A configuration is [wellFormed, accounts, storage, *)
(* signer, sequencer, endpoints]; accounts says of each name whether its   *)
(* grants parse, an endpoint is [transport, byRef, auth, admit], byRef     *)
(* where its address is a delegation.                                      *)
(***************************************************************************)
EXTENDS StorageTree

CONSTANT Addrs      \* address -> [network, path, fits, bare], what its text says

\* An absent section yields a nil adapter.
Configured(d) == DOMAIN d.keys # {} \/ d.parts # << >>

-----------------------------------------------------------------------------
(* Reading the artifact.                                                   *)

openConfig(j) == j.input # "missing" /\ ~(j.input = "stdin" /\ j.ageKey = "stdin")

passphraseFrom(j) == j.ageKey \in {"none", "prompt", "stdin", "env", "file"}

\* Plaintext passes through; what is sealed needs a source, and its passphrase.
decrypt(j) == j.sealed => j.ageKey # "none" /\ j.pass = "right"

\* The form of an address, offline; a delegation has none yet.
ValidateAddr(e) ==
    HasValue(e.transport, "addr") /\ ~e.byRef =>
        LET addr == Addrs[e.transport.keys["addr"]] IN addr.fits /\ ~addr.bare

load(c) ==
    /\ c.wellFormed
    /\ \A name \in DOMAIN c.accounts : c.accounts[name]
    /\ \A i \in DOMAIN c.endpoints :
          /\ c.endpoints[i].admit \subseteq DOMAIN c.accounts
          /\ ValidateAddr(c.endpoints[i])

Decodes(j) == openConfig(j) /\ passphraseFrom(j) /\ decrypt(j) /\ load(j.cfg)

\* Every reference of the artifact resolves: verify --level resolve.
resolveAll(c) ==
    /\ \A d \in {c.signer, c.storage, c.sequencer} : resolveSection[d]
    /\ \A i \in DOMAIN c.endpoints :
          /\ resolveSection[c.endpoints[i].transport]
          /\ \A k \in DOMAIN c.endpoints[i].auth : resolveSection[c.endpoints[i].auth[k]]

-----------------------------------------------------------------------------
(* The signer and the sequencer.                                           *)

Named(d, key) == Get(d, key) /\ d.keys[key] # ""

\* A Key Vault connection, the azure signer's and the azure vault's.
Connect(d) ==
    /\ Named(d, "url")
    /\ HasValue(d, "ca_cert") => d.keys["ca_cert"] = "pem"
    /\ HasValue(d, "client_secret") =>
          \A key \in {"tenant_id", "client_id", "client_secret"} : Get(d, key)

newOpenbao(d) ==
    /\ Named(d, "address") /\ Named(d, "token")
    /\ GetIfThere(d, "mount") /\ GetIfThere(d, "key")

newAzure(d) ==
    /\ ~(HasValue(d, "key") /\ HasValue(d, "secret"))
    /\ Connect(d)
    /\ GetIfThere(d, "key") /\ GetIfThere(d, "secret")

BuildsSigner(d) ==
    CASE Value(d, "type", "") = "inmemory" -> Get(d, "key") /\ d.keys["key"] = "ed25519"
      [] Value(d, "type", "") = "openbao"  -> newOpenbao(d)
      [] Value(d, "type", "") = "azure"    -> newAzure(d)
      [] OTHER -> FALSE

\* The signer can say who it is: a remote one must name its key.
CryptoSigner(d) == Value(d, "type", "") # "inmemory" => Named(d, "key") \/ Named(d, "secret")

\* Exactly one of seed and bookmark, and it says something.
bookmarkList(d) ==
    \/ Named(d, "seed") /\ ~HasValue(d, "bookmark")
    \/ Get(d, "bookmark") /\ d.keys["bookmark"] # "malformed" /\ ~HasValue(d, "seed")

\* The list of the store this sequencer advances.
ListOf(d) == IF HasValue(d, "seed") THEN d.keys["seed"] ELSE d.keys["bookmark"]

NewSequencer(c) ==
    /\ Get(c.sequencer, "type") /\ bookmarkList(c.sequencer)
    /\ CryptoSigner(c.signer)
    /\ c.sequencer.keys["type"] \in {"dev", "concurrent"}

\* --dev steers the sequencer of that name and no other.
SteersClock(j) == j.dev => Value(j.cfg.sequencer, "type", "") = "dev"

\* Founding binds the first contributor to a branch, which must be named.
foundingBranch(d) ==
    LET found == GetSection(d) IN Get(found, "branch") /\ found.keys["branch"] # "malformed"

-----------------------------------------------------------------------------
(* The endpoints.                                                          *)

Schemes == [noauth |-> "", apikey |-> "apikey", jwt |-> "bearer", macaroon |-> "macaroon"]

authType(d) == IF Value(d, "type", "") = "" THEN "noauth" ELSE d.keys["type"]

newApikey(d) ==
    /\ d.parts # << >>
    /\ \A i \in DOMAIN d.parts :
          /\ Named(d.parts[i], "account")
          /\ Get(d.parts[i], "sha256") /\ d.parts[i].keys["sha256"] # "malformed"
          /\ \A k \in 1 .. i - 1 : d.parts[k].keys["sha256"] # d.parts[i].keys["sha256"]

\* One key source, which yields a key; then the claim that names the account.
newJwt(d) ==
    /\ Get(d, "algorithm") /\ d.keys["algorithm"] # "none"
    /\ HasValue(d, "key") # HasValue(d, "jwks_url")
    /\ HasValue(d, "key") => d.keys["key"] = "public"
    /\ HasValue(d, "account_claim") => Named(d, "account_claim")
    /\ HasValue(d, "accounts") => d.parts # << >>
    /\ \A i \in DOMAIN d.parts : Named(d.parts[i], "value") /\ Named(d.parts[i], "account")
    /\ GetIfThere(d, "audience") /\ GetIfThere(d, "issuer")
    /\ HasValue(d, "jwks_url") => d.keys["jwks_url"] = "answers"
    /\ HasValue(d, "jwks_refresh") => d.keys["jwks_refresh"] \in {"minutes", "zero"}

NewAuth(d) ==
    CASE authType(d) = "noauth"   -> GetIfThere(d, "subject")
      [] authType(d) = "apikey"   -> newApikey(d)
      [] authType(d) = "jwt"      -> newJwt(d)
      [] authType(d) = "macaroon" -> Named(d, "root_key")
      [] OTHER -> FALSE

\* One backend per scheme: the scheme of a credential routes it.
NewSet(auths) ==
    \A i, k \in DOMAIN auths :
        Schemes[authType(auths[i])] = Schemes[authType(auths[k])] => i = k

\* The refresh loop of a key set asks for a ticker, which takes no interval of zero.
TickerPanics(d) ==
    /\ authType(d) = "jwt" /\ HasValue(d, "jwks_url")
    /\ Value(d, "jwks_refresh", "minutes") = "zero"

AddrOf(e) ==
    IF HasValue(e.transport, "addr") /\ e.transport.keys["addr"] # ""
    THEN Addrs[e.transport.keys["addr"]] ELSE Addrs[":8080"]

socketMode(d) == HasValue(d, "mode") => d.keys["mode"] = "octal"

socketGroup(d) == HasValue(d, "group") => d.keys["group"] = "known"

newRest(e) ==
    /\ GetIfThere(e.transport, "addr")
    /\ AddrOf(e).path # ""
    /\ AddrOf(e).network = "unix" => socketMode(e.transport) /\ socketGroup(e.transport)
    /\ GetIfThere(e.transport, "allowedOrigins") /\ GetIfThere(e.transport, "explorer")

BuildsEndpoint(e) ==
    /\ \A i \in DOMAIN e.auth : NewAuth(e.auth[i])
    /\ NewSet(e.auth)
    /\ Value(e.transport, "type", "") \in {"rest", "rest_http"}
    /\ newRest(e)
=============================================================================
