------------------------------- MODULE Identity -------------------------------
(***************************************************************************)
(* The keys an instance runs on, while they change under it: secrets that  *)
(* rotate in a vault and are read through a cache (config/section.go), the *)
(* key the sequencer signs under, held by one of four signers              *)
(* (adapters/signer), and the key set of a token issuer, refreshed in the  *)
(* background (adapters/auth/jwt/jwks.go).                                 *)
(*                                                                         *)
(* One instance, launched again and again.  A launch resolves the secret   *)
(* leaves of its configuration in order, reads the signer's public half,   *)
(* signs its contributor claim and fetches the key set; then it serves:    *)
(* merges are signed, requests authenticated, the set refreshed.           *)
(***************************************************************************)
EXTENDS Authenticators, FiniteSets

CONSTANTS
    Configs,    \* the configurations an instance may run
    Kids,       \* the issuer's keys
    Requests,   \* requests: [authorization, apikey]
    TTL,        \* how long the cache keeps a secret
    MaxTime,    \* bound: instants
    MaxVersion, \* bound: versions of a secret and of the signing key
    MaxEpoch,   \* bound: changes of the issuer's set
    MaxLaunches \* bound: launches

VARIABLES
    config,     \* the instance's configuration
    now,
    secret,     \* ref -> the instants its versions were put in the vault, oldest first
    remote,     \* the latest version of the signing key where the signer's is held
    issuer,     \* [kids, epoch]: the set the issuer publishes, and its changes so far
    launches,
    phase,      \* where the instance is: "down", "resolving", "public", "self", "jwks", "serving"
    since,      \* when this launch began, 0 while none runs
    cache,      \* ref -> [val, exp, lag], for those resolved in this launch
    reading,    \* [val, at]: what the vault answered and when, until it is stamped
    inUse,      \* use -> [val, at, lag]: the value resolved for it, and when
    pinned,     \* the version an Azure signer settled on, 0 before
    stated,     \* the public half the contributor claim states, 0 before
    signed,     \* the versions this launch signed under
    keyset,     \* [kids, epoch]: the set the instance checks tokens with
    fetching,   \* the sets read from the issuer and not stored yet
    outages     \* the uses whose last resolution found the vault failing

world == <<secret, remote, issuer>>
secrets == <<since, cache, reading, inUse, outages>>
signing == <<pinned, stated, signed>>
tokens == <<keyset, fetching>>
vars == <<config, now, world, launches, phase, secrets, signing, tokens>>

\* The secrets a configuration names, in the order a launch reads them: [use, ref].
Leaves == config.leaves
LeavesOf(c) == {c.leaves[i] : i \in DOMAIN c.leaves}
Refs == {leaf.ref : leaf \in UNION {LeavesOf(c) : c \in Configs}}
Uses == {"storage", "layer", "signer", "auth"}

\* A section names a secret once, in a place of its own, and an in-memory signer names one.
ASSUME ConfigsAssumption ==
    \A c \in Configs :
      /\ c.backend \in {"inmemory", "openbao", "azure"}
      /\ c.leaves \in Seq(LeavesOf(c))
      /\ \A i, j \in DOMAIN c.leaves :
           c.leaves[i].use \in Uses /\ (c.leaves[i].use = c.leaves[j].use => i = j)
      /\ c.backend = "inmemory" => \E i \in DOMAIN c.leaves : c.leaves[i].use = "signer"

ASSUME BoundsAssumption ==
    /\ {TTL, MaxTime, MaxVersion, MaxEpoch} \subseteq Nat \ {0}
    /\ MaxLaunches \in Nat

\* "lag" is no state of the code: how long the vault's answer was on its way.
Unresolved == [val |-> 0, at |-> 0, lag |-> 0]
NotReading == [val |-> 0, at |-> 0]
NoSet == [kids |-> {}, epoch |-> 0]

Init ==
    /\ config \in Configs
    /\ now = 1
    /\ secret = [r \in Refs |-> <<1>>] /\ remote = 1
    /\ issuer \in {[kids |-> {k}, epoch |-> 1] : k \in Kids}
    /\ launches = 0
    /\ phase = "down"
    /\ since = 0 /\ cache = << >> /\ reading = NotReading
    /\ inUse = [u \in Uses |-> Unresolved] /\ outages = {}
    /\ pinned = 0 /\ stated = 0 /\ signed = {}
    /\ keyset = NoSet /\ fetching = {}

-----------------------------------------------------------------------------
(* The world: keys that rotate, those this instance reads, and time.       *)

Tick == now < MaxTime /\ now' = now + 1
        /\ UNCHANGED <<config, world, launches, phase, secrets, signing, tokens>>

Rotate(r) ==
    /\ Len(secret[r]) < MaxVersion /\ \E leaf \in LeavesOf(config) : leaf.ref = r
    /\ secret' = [secret EXCEPT ![r] = Append(@, now)]
    /\ UNCHANGED <<config, now, remote, issuer, launches, phase, secrets, signing, tokens>>

RotateRemote ==
    /\ config.backend # "inmemory" /\ remote < MaxVersion /\ remote' = remote + 1
    /\ UNCHANGED <<config, now, secret, issuer, launches, phase, secrets, signing, tokens>>

\* The issuer publishes a key or withdraws one.
Publish(k) ==
    /\ config.jwks /\ issuer.epoch < MaxEpoch
    /\ issuer' = [kids |-> IF k \in issuer.kids THEN issuer.kids \ {k} ELSE issuer.kids \cup {k},
                  epoch |-> issuer.epoch + 1]
    /\ UNCHANGED <<config, now, secret, remote, launches, phase, secrets, signing, tokens>>

-----------------------------------------------------------------------------
(* A launch.                                                               *)

\* Mutant: the cached secrets outlive the process.
KeepsCache ==
    /\ since' = 0 /\ reading' = NotReading /\ UNCHANGED cache
    /\ inUse' = [u \in Uses |-> Unresolved] /\ outages' = {}
    /\ pinned' = 0 /\ stated' = 0 /\ signed' = {}
    /\ keyset' = NoSet /\ fetching' = {}
    /\ UNCHANGED <<config, now, world>>

\* A process starts with nothing in memory and ends with it.
EmptyMemory ==
    /\ since' = 0 /\ cache' = << >> /\ reading' = NotReading
    /\ inUse' = [u \in Uses |-> Unresolved] /\ outages' = {}
    /\ pinned' = 0 /\ stated' = 0 /\ signed' = {}
    /\ keyset' = NoSet /\ fetching' = {}
    /\ UNCHANGED <<config, now, world>>

Launch ==
    /\ phase = "down" /\ launches < MaxLaunches
    /\ launches' = launches + 1 /\ phase' = "resolving" /\ since' = now
    /\ UNCHANGED <<config, now, world, cache, reading, inUse, outages, signing, tokens>>

\* Shut down, crashed, or ended by a launch that failed.
Exit == phase # "down" /\ phase' = "down" /\ EmptyMemory /\ UNCHANGED launches

Unread == {i \in DOMAIN Leaves : inUse[Leaves[i].use] = Unresolved}
Leaf == Leaves[CHOOSE i \in Unread : \A j \in Unread : i <= j]
Resolving == phase = "resolving" /\ Unread # {}
Had == Leaf.ref \in DOMAIN cache
Fresh == Had /\ now < cache[Leaf.ref].exp

Takes(val, lag) == inUse' = [inUse EXCEPT ![Leaf.use] = [val |-> val, at |-> now, lag |-> lag]]
Cached(val, lag) == cache' = [r \in DOMAIN cache \cup {Leaf.ref} |->
    IF r = Leaf.ref THEN [val |-> val, exp |-> now + TTL, lag |-> lag] ELSE cache[r]]

\* Mutant: serving a value renews its time.
ServeRenewing ==
    /\ Resolving /\ reading = NotReading /\ Fresh
    /\ Takes(cache[Leaf.ref].val, cache[Leaf.ref].lag)
    /\ Cached(cache[Leaf.ref].val, cache[Leaf.ref].lag)
    /\ UNCHANGED <<config, now, world, launches, phase, since, reading, outages, signing, tokens>>

\* vaultBox.secret, in three moments.  A cached value is served while it is fresh;
ServeCached ==
    /\ Resolving /\ reading = NotReading /\ Fresh
    /\ Takes(cache[Leaf.ref].val, cache[Leaf.ref].lag)
    /\ UNCHANGED <<config, now, world, launches, phase, since, cache, reading, outages, signing, tokens>>

\* else the vault is asked, and answers with what it holds then;
AskVault ==
    /\ Resolving /\ reading = NotReading /\ ~Fresh
    /\ reading' = [val |-> Len(secret[Leaf.ref]), at |-> now]
    /\ UNCHANGED <<config, now, world, launches, phase, since, cache, inUse, outages, signing, tokens>>

\* and the answer is stamped with the time it arrives.
Stamp ==
    /\ reading # NotReading
    /\ Takes(reading.val, now - reading.at) /\ Cached(reading.val, now - reading.at)
    /\ reading' = NotReading
    /\ UNCHANGED <<config, now, world, launches, phase, since, outages, signing, tokens>>

\* When the vault fails or its answer is lost, the cached value serves, however old;
\* with nothing cached the launch fails.
VaultFails ==
    /\ Resolving /\ ~Fresh /\ Had
    /\ Takes(cache[Leaf.ref].val, cache[Leaf.ref].lag)
    /\ outages' = outages \cup {Leaf.use} /\ reading' = NotReading
    /\ UNCHANGED <<config, now, world, launches, phase, since, cache, signing, tokens>>

Resolved ==
    /\ phase = "resolving" /\ Unread = {} /\ phase' = "public"
    /\ UNCHANGED <<config, now, world, launches, secrets, signing, tokens>>

\* CryptoSigner reads the public half once.  An Azure signer settles on the version
\* that answers its first read.
ReadPublic ==
    /\ phase = "public" /\ phase' = "self"
    /\ pinned' = IF config.backend = "azure" THEN remote ELSE 0
    /\ stated' = IF config.backend = "inmemory" THEN inUse["signer"].val ELSE remote
    /\ UNCHANGED <<config, now, world, launches, secrets, signed, tokens>>

\* Mutant: a Key Vault key signs under its latest version too.
SignsUnderLatest == IF config.backend = "inmemory" THEN inUse["signer"].val ELSE remote

\* The version a signature is made under: Transit signs under its latest.
SignsUnder ==
    CASE config.backend = "inmemory" -> inUse["signer"].val
      [] config.backend = "azure"    -> pinned
      [] config.backend = "openbao"  -> remote

Sign(from, to) ==
    /\ phase = from /\ phase' = to
    /\ signed' = signed \cup {SignsUnder}
    /\ UNCHANGED <<config, now, world, launches, secrets, pinned, stated, tokens>>

\* The contributor claim the sequencer merges under, then the merges.
SignSelf == Sign("self", IF config.jwks THEN "jwks" ELSE "serving")
Merge == Sign("serving", "serving")

-----------------------------------------------------------------------------
(* The key set.  The first fetch is part of the launch; then one goroutine  *)
(* fetches at every tick and drops what fails.                              *)

\* Mutant: every tick fetches on a goroutine of its own.
FetchBesides ==
    /\ config.jwks /\ phase \in {"jwks", "serving"}
    /\ fetching' = fetching \cup {issuer}
    /\ UNCHANGED <<config, now, world, launches, phase, secrets, signing, keyset>>

Fetch ==
    /\ config.jwks /\ phase \in {"jwks", "serving"} /\ fetching = {}
    /\ fetching' = {issuer}
    /\ UNCHANGED <<config, now, world, launches, phase, secrets, signing, keyset>>

FetchFails ==
    /\ phase = "serving" /\ fetching # {} /\ fetching' = {}
    /\ UNCHANGED <<config, now, world, launches, phase, secrets, signing, keyset>>

\* Mutant: a set that lacks a key of the last one is taken for a broken answer.
StoresAdditions ==
    /\ \E set \in fetching :
         /\ keyset' = IF keyset.kids \subseteq set.kids THEN set ELSE keyset
         /\ fetching' = fetching \ {set}
    /\ phase' = "serving"
    /\ UNCHANGED <<config, now, world, launches, secrets, signing>>

Store ==
    /\ \E set \in fetching : keyset' = set /\ fetching' = fetching \ {set}
    /\ phase' = "serving"
    /\ UNCHANGED <<config, now, world, launches, secrets, signing>>

Next ==
    \/ Tick \/ RotateRemote \/ (\E r \in Refs : Rotate(r)) \/ (\E k \in Kids : Publish(k))
    \/ Launch \/ Exit \/ ServeCached \/ AskVault \/ Stamp \/ VaultFails \/ Resolved \/ ReadPublic \/ SignSelf \/ Merge
    \/ Fetch \/ FetchFails \/ Store

Spec == Init /\ [][Next]_vars

\* The ticker ticks, and the issuer does not fail for ever.
FairSpec == Spec /\ WF_vars(Fetch) /\ SF_vars(Store)

-----------------------------------------------------------------------------
(* Properties.                                                             *)

CallerOf(request) == Caller(config, inUse["auth"].val, keyset.kids, request)

TypeOK ==
    /\ config \in Configs /\ now \in 1..MaxTime
    /\ secret \in [Refs -> Seq(1..MaxTime)] /\ \A r \in Refs : Len(secret[r]) \in 1..MaxVersion
    /\ remote \in 1..MaxVersion /\ issuer \in [kids : SUBSET Kids, epoch : 1..MaxEpoch]
    /\ launches \in 0..MaxLaunches
    /\ phase \in {"down", "resolving", "public", "self", "jwks", "serving"}
    /\ DOMAIN cache \subseteq Refs
    /\ \A r \in DOMAIN cache : /\ cache[r].val \in 1..Len(secret[r])
                               /\ cache[r].exp \in 1..(MaxTime + TTL) /\ cache[r].lag \in 0..MaxTime
    /\ since \in 0..MaxTime /\ reading \in [val : 0..MaxVersion, at : 0..MaxTime]
    /\ inUse \in [Uses -> [val : 0..MaxVersion, at : 0..MaxTime, lag : 0..MaxTime]]
    /\ outages \subseteq Uses
    /\ pinned \in 0..MaxVersion /\ stated \in 0..MaxVersion /\ signed \subseteq 1..MaxVersion
    /\ \A set \in fetching \cup {keyset} :
         set \in [kids : SUBSET Kids, epoch : Nat] /\ set.epoch <= issuer.epoch

\* The version of a secret that replaced the one in use was put there at this instant.
Replaced(i) == secret[Leaves[i].ref][inUse[Leaves[i].use].val + 1]
IsReplaced(i) == /\ inUse[Leaves[i].use] # Unresolved
                 /\ inUse[Leaves[i].use].val < Len(secret[Leaves[i].ref])

\* A leaf takes a secret that was replaced TTL ago or more, and the time its answer was
\* on its way besides, only when the vault failed the read: the cache neither renews a
\* value by serving it nor outlives its time.
StaleOnlyInOutage ==
    \A i \in DOMAIN Leaves : IsReplaced(i) /\ Leaves[i].use \notin outages =>
      inUse[Leaves[i].use].at < Replaced(i) + TTL + inUse[Leaves[i].use].lag

\* A rotation takes effect at the next launch, whatever fails: no leaf runs on a secret
\* that was replaced before the launch began.  While the instance runs it takes none: a
\* leaf is resolved once.
LaunchTakesRotations == \A i \in DOMAIN Leaves : IsReplaced(i) => since <= Replaced(i)

\* Every signature of a launch verifies under the public half its contributor claim
\* states, whatever rotates meanwhile.
SignaturesVerify == \A v \in signed : v = stated

\* They do for the signers that settle on a version: the resolved key, and the version
\* of a Key Vault key that answered the first read.  Transit's do not.
SignaturesBind == config.backend # "openbao" => SignaturesVerify

\* A request is taken for anonymous only if it presents nothing at all: a credential
\* that is refused, unknown or of a scheme without a backend falls back to nobody.
AnonymousPresentsNothing ==
    \A request \in Requests : CallerOf(request).by = "noauth" =>
      request.authorization = Absent /\ request.apikey = Absent

\* The key set never goes back to an older one than it holds (jwksSource.fetch).
KeySetMovesForward == [][phase' # "down" => keyset'.epoch >= keyset.epoch]_vars

\* An issuer's set that stands and is served reaches the instance: a key it publishes is
\* learnt, and no token under a key it withdrew is let in for ever.
KeysFollowIssuer ==
    \A k \in Kids :
      /\ <>[](config.jwks /\ phase = "serving" /\ k \in issuer.kids) => <>[](k \in keyset.kids)
      /\ <>[](config.jwks /\ phase = "serving" /\ k \notin issuer.kids) =>
           <>[](\A request \in Requests :
                  CallerOf(request).by = "jwt" => request.authorization.token.kid # k)

-----------------------------------------------------------------------------
(* The inductive invariant.                                                 *)

\* No instant is ahead of the clock; a process that is down holds nothing.
Moments ==
    /\ since <= now /\ reading.at <= now
    /\ \A r \in Refs : \A v \in DOMAIN secret[r] : secret[r][v] <= now
    /\ \A i \in DOMAIN Leaves :
         LET use == inUse[Leaves[i].use]
         IN use # Unresolved => use.val \in 1..Len(secret[Leaves[i].ref]) /\ use.at <= now
    /\ phase = "down" => /\ DOMAIN cache = {} /\ reading = NotReading
                         /\ \A i \in DOMAIN Leaves : inUse[Leaves[i].use] = Unresolved

\* A cached value that was replaced was so in this launch, and runs out no later than TTL
\* after but for the time its answer took.
CacheAges ==
    \A r \in DOMAIN cache :
      /\ cache[r].exp <= now + TTL
      /\ cache[r].val < Len(secret[r]) =>
           /\ since <= secret[r][cache[r].val + 1]
           /\ cache[r].exp <= secret[r][cache[r].val + 1] + TTL + cache[r].lag

\* An answer on its way was the vault's when it left, in this launch.
AnswerAges ==
    reading # NotReading =>
      /\ Resolving /\ ~Fresh /\ reading.val \in 1..Len(secret[Leaf.ref]) /\ since <= reading.at
      /\ reading.val < Len(secret[Leaf.ref]) => reading.at <= secret[Leaf.ref][reading.val + 1]

\* Nothing is signed before the public half is read, which is of the version signed under.
PublicIsSettled ==
    /\ phase \in {"down", "resolving", "public"} => signed = {}
    /\ phase \notin {"down", "resolving"} => Unread = {}
    /\ phase \in {"self", "jwks", "serving"} =>
         /\ config.backend = "inmemory" => stated = inUse["signer"].val
         /\ config.backend = "azure" => stated = pinned /\ pinned > 0
         /\ config.backend = "openbao" => stated <= remote

\* One set at a time is on its way, and it is no older than the one held.
OneFetch ==
    /\ fetching # {} => phase \in {"jwks", "serving"}
    /\ \A set \in fetching : fetching = {set} /\ keyset.epoch <= set.epoch

SecretsAge == Moments /\ CacheAges /\ AnswerAges
IInv == /\ TypeOK /\ SecretsAge /\ StaleOnlyInOutage /\ LaunchTakesRotations
        /\ PublicIsSettled /\ SignaturesBind /\ OneFetch
=============================================================================
