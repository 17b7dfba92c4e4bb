---------------------------- MODULE Identity_proofs ----------------------------
(***************************************************************************)
(* Theorems about Identity for any configurations, keys and times.         *)
(***************************************************************************)
EXTENDS Identity, TLAPS, WellFoundedInduction, SequenceTheorems

-----------------------------------------------------------------------------
(* The parts of the invariant, by what they are about.                     *)

WorldTyped ==
    /\ config \in Configs /\ now \in 1..MaxTime
    /\ secret \in [Refs -> Seq(1..MaxTime)] /\ \A r \in Refs : Len(secret[r]) \in 1..MaxVersion
    /\ remote \in 1..MaxVersion /\ issuer \in [kids : SUBSET Kids, epoch : 1..MaxEpoch]
    /\ launches \in 0..MaxLaunches
    /\ phase \in {"down", "resolving", "public", "self", "jwks", "serving"}

Taken == [val : 0..MaxVersion, at : 0..MaxTime, lag : 0..MaxTime]

SecretsTyped ==
    /\ DOMAIN cache \subseteq Refs
    /\ \A r \in DOMAIN cache : /\ cache[r].val \in 1..Len(secret[r])
                               /\ cache[r].exp \in 1..(MaxTime + TTL) /\ cache[r].lag \in 0..MaxTime
    /\ since \in 0..MaxTime /\ reading \in [val : 0..MaxVersion, at : 0..MaxTime]
    /\ inUse \in [Uses -> Taken]
    /\ outages \subseteq Uses

SecretsSound == SecretsTyped /\ SecretsAge /\ StaleOnlyInOutage /\ LaunchTakesRotations

SigningSound ==
    /\ pinned \in 0..MaxVersion /\ stated \in 0..MaxVersion /\ signed \subseteq 1..MaxVersion
    /\ PublicIsSettled /\ SignaturesBind

TokensSound ==
    /\ \A set \in fetching \cup {keyset} :
         set \in [kids : SUBSET Kids, epoch : Nat] /\ set.epoch <= issuer.epoch
    /\ OneFetch

State == WorldTyped /\ SecretsSound /\ SigningSound /\ TokensSound

LEMMA StateIs == State <=> IInv
  BY DEF State, IInv, TypeOK, WorldTyped, SecretsTyped, Taken, SecretsSound, SigningSound, TokensSound

LEMMA StateIsNext == State' <=> IInv'
  BY DEF State, IInv, TypeOK, WorldTyped, SecretsTyped, Taken, SecretsSound, SigningSound, TokensSound

\* The bounds are numbers.
LEMMA Bounds ==
    /\ TTL \in Nat \ {0} /\ MaxTime \in Nat \ {0} /\ MaxVersion \in Nat \ {0}
    /\ MaxEpoch \in Nat \ {0} /\ MaxLaunches \in Nat
  BY BoundsAssumption

LEMMA LeastNatural ==
    ASSUME NEW S \in SUBSET Nat, S # {}
    PROVE  \E m \in S : \A n \in S : m <= n
<1>1. PICK m \in S : \A n \in S : <<n, m>> \notin OpToRel(<, Nat)
  BY WFMin, NatLessThanWellFounded
<1>2. \A n \in S : n < m => <<n, m>> \in OpToRel(<, Nat)
  BY DEF OpToRel
<1>3. \A n \in S : ~(n < m)
  BY <1>1, <1>2, Zenon
<1> QED
  BY <1>3

\* What a configuration's leaves name.
LEMMA LeafFacts ==
    ASSUME config \in Configs
    PROVE  /\ Len(Leaves) \in Nat /\ DOMAIN Leaves = 1..Len(Leaves)
           /\ \A i \in DOMAIN Leaves : Leaves[i].use \in Uses /\ Leaves[i].ref \in Refs
           /\ \A i, j \in DOMAIN Leaves : Leaves[i].use = Leaves[j].use => i = j
<1>1. Leaves \in Seq(LeavesOf(config))
  BY ConfigsAssumption DEF Leaves
<1>2. Len(Leaves) \in Nat /\ DOMAIN Leaves = 1..Len(Leaves)
  BY <1>1
<1>3. \A i, j \in DOMAIN Leaves :
        Leaves[i].use \in Uses /\ (Leaves[i].use = Leaves[j].use => i = j)
  BY ConfigsAssumption DEF Leaves
<1>4. \A i \in DOMAIN Leaves : Leaves[i].ref \in Refs
  BY DEF Leaves, LeavesOf, Refs
<1> QED
  BY <1>2, <1>3, <1>4

\* The leaf a launch reads next is one it has not read.
LEMMA LeafIsUnread ==
    ASSUME config \in Configs, Unread # {}
    PROVE  \E i \in DOMAIN Leaves : Leaf = Leaves[i] /\ inUse[Leaves[i].use] = Unresolved
<1>1. Unread \in SUBSET Nat
  BY LeafFacts DEF Unread
<1>2. \E i \in Unread : \A j \in Unread : i <= j
  BY <1>1, LeastNatural
<1> QED
  BY <1>2 DEF Leaf, Unread

-----------------------------------------------------------------------------
(* What each part depends on.                                              *)

LEMMA SecretsStay ==
    ASSUME SecretsSound, WorldTyped, UNCHANGED <<config, now, secret, secrets>>,
           phase' = phase \/ (phase' # "down" /\ (phase # "resolving" \/ Unread = {}))
    PROVE  SecretsSound'
<1>0. /\ config' = config /\ now' = now /\ secret' = secret /\ since' = since /\ cache' = cache
      /\ reading' = reading /\ inUse' = inUse /\ outages' = outages
  BY DEF secrets
<1>a. phase' = phase \/ (phase' # "down" /\ reading = NotReading)
  BY DEF SecretsSound, SecretsAge, AnswerAges, Resolving
<1>1. SecretsTyped' /\ CacheAges'
  BY <1>0 DEF SecretsSound, SecretsTyped, SecretsAge, CacheAges
<1>2. StaleOnlyInOutage' /\ LaunchTakesRotations'
  BY <1>0 DEF SecretsSound, StaleOnlyInOutage, LaunchTakesRotations, IsReplaced, Replaced, Leaves
<1>3. Moments'
  BY <1>0, <1>a DEF SecretsSound, SecretsAge, Moments, Leaves
<1>4. AnswerAges'
  BY <1>0, <1>a DEF SecretsSound, SecretsAge, AnswerAges, Resolving, Fresh, Had, Leaf, Unread, Leaves
<1> QED
  BY <1>1, <1>2, <1>3, <1>4 DEF SecretsSound, SecretsAge

LEMMA SigningStays ==
    ASSUME SigningSound, UNCHANGED <<config, phase, inUse, signing, remote>>
    PROVE  SigningSound'
  BY DEF SigningSound, PublicIsSettled, SignaturesBind, SignaturesVerify, Unread, Leaves, signing

LEMMA TokensStay ==
    ASSUME TokensSound, UNCHANGED <<issuer, tokens>>,
           phase \in {"jwks", "serving"} => phase' \in {"jwks", "serving"}
    PROVE  TokensSound'
  BY DEF TokensSound, OneFetch, tokens

\* The instants at which a secret was rotated are numbers.
LEMMA VersionInstants ==
    ASSUME WorldTyped, NEW r \in Refs, NEW v \in DOMAIN secret[r]
    PROVE  v \in 1..Len(secret[r]) /\ secret[r][v] \in 1..MaxTime /\ secret[r][v] \in Nat
<1>1. secret[r] \in Seq(1..MaxTime) /\ MaxTime \in Nat
  BY Bounds DEF WorldTyped
<1>2. v \in 1..Len(secret[r])
  BY <1>1
<1>3. secret[r][v] \in 1..MaxTime
  BY <1>1, <1>2, ElementOfSeq
<1> QED
  BY <1>1, <1>2, <1>3

-----------------------------------------------------------------------------
(* The world.                                                              *)

LEMMA TickStep == ASSUME State, Tick PROVE State'
<1>0. /\ WorldTyped /\ SecretsSound /\ now' = now + 1 /\ now < MaxTime
      /\ UNCHANGED <<config, world, launches, phase, secrets, signing, tokens>>
  BY DEF State, Tick
<1>1. WorldTyped'
  BY <1>0, Bounds DEF WorldTyped, world
<1>a. /\ config' = config /\ secret' = secret /\ since' = since /\ cache' = cache /\ phase' = phase
      /\ reading' = reading /\ inUse' = inUse /\ outages' = outages
      /\ now \in Nat /\ now' \in Nat /\ now < now' /\ TTL \in Nat
  BY <1>0, Bounds DEF secrets, world, WorldTyped
<1>2. SecretsTyped' /\ StaleOnlyInOutage' /\ LaunchTakesRotations'
  BY <1>a, <1>0
  DEF SecretsSound, SecretsTyped, StaleOnlyInOutage, LaunchTakesRotations, IsReplaced, Replaced, Leaves
<1>3. SecretsAge'
  <2>2. ASSUME NEW r \in Refs, NEW v \in DOMAIN secret[r] PROVE secret[r][v] \in Nat
    BY <1>0, VersionInstants DEF WorldTyped
  <2>3. \A r \in DOMAIN cache : cache[r].exp \in Nat
    BY <1>0, Bounds DEF SecretsSound, SecretsTyped
  <2>4. \A i \in DOMAIN Leaves : inUse[Leaves[i].use].at \in Nat
    <3>1. \A i \in DOMAIN Leaves : inUse[Leaves[i].use] \in Taken
      BY <1>0, LeafFacts DEF SecretsSound, SecretsTyped, WorldTyped
    <3> QED
      BY <3>1, Bounds DEF Taken
  <2>5. since \in Nat /\ reading.at \in Nat
    BY <1>0, Bounds DEF SecretsSound, SecretsTyped
  <2>6. Moments /\ CacheAges /\ AnswerAges
    BY <1>0 DEF SecretsSound, SecretsAge
  <2>7. Moments'
    BY <1>a, <2>2, <2>4, <2>5, <2>6 DEF Moments, Leaves
  <2>8. CacheAges'
    BY <1>a, <2>3, <2>6 DEF CacheAges
  <2>9. Unread' = Unread /\ Leaf' = Leaf /\ Resolving' = Resolving /\ Had' = Had
    BY <1>a DEF Resolving, Had, Leaf, Unread, Leaves
  <2>10. Fresh' => Fresh
    <3> SUFFICES ASSUME Fresh' PROVE Fresh
      OBVIOUS
    <3>1. Had /\ now' < cache[Leaf.ref].exp
      BY <1>a, <2>9 DEF Fresh
    <3> QED
      BY <1>a, <2>3, <3>1 DEF Fresh, Had
  <2>11. AnswerAges'
    BY <1>a, <2>6, <2>9, <2>10 DEF AnswerAges
  <2> QED
    BY <2>7, <2>8, <2>11 DEF SecretsAge
<1>4. SigningSound' /\ TokensSound'
  BY <1>0, SigningStays, TokensStay DEF State, world, secrets
<1> QED
  BY <1>1, <1>2, <1>3, <1>4 DEF State, SecretsSound

LEMMA RotateStep == ASSUME State, NEW r \in Refs, Rotate(r) PROVE State'
<1>0. /\ WorldTyped /\ SecretsSound /\ secret' = [secret EXCEPT ![r] = Append(@, now)]
      /\ Len(secret[r]) < MaxVersion
      /\ UNCHANGED <<config, now, remote, issuer, launches, phase, secrets, signing, tokens>>
  BY DEF State, Rotate
<1>1. /\ \A q \in Refs : secret[q] \in Seq(1..MaxTime) /\ Len(secret[q]) \in 1..MaxVersion
      /\ now \in 1..MaxTime
  BY <1>0 DEF WorldTyped
<1>2. /\ secret' \in [Refs -> Seq(1..MaxTime)]
      /\ secret'[r] = Append(secret[r], now) /\ \A q \in Refs \ {r} : secret'[q] = secret[q]
  BY <1>0, <1>1 DEF WorldTyped
<1>3. /\ Len(secret'[r]) = Len(secret[r]) + 1
      /\ secret'[r][Len(secret[r]) + 1] = now
      /\ \A v \in 1..Len(secret[r]) : secret'[r][v] = secret[r][v]
  BY <1>1, <1>2
<1>4. WorldTyped'
  BY <1>0, <1>1, <1>2, <1>3, Bounds DEF WorldTyped
\* An index of before is of the same version after, and the new one is of now.
<1>5. \A q \in Refs : /\ Len(secret[q]) \in Nat /\ Len(secret'[q]) \in Nat
                      /\ Len(secret[q]) <= Len(secret'[q])
                      /\ DOMAIN secret[q] = 1..Len(secret[q])
                      /\ DOMAIN secret'[q] = 1..Len(secret'[q])
                      /\ \A v \in 1..Len(secret[q]) : secret'[q][v] = secret[q][v]
                      /\ \A v \in 1..Len(secret'[q]) : v > Len(secret[q]) => secret'[q][v] = now
  <2>1. ASSUME NEW q \in Refs
        PROVE  /\ Len(secret[q]) \in Nat /\ DOMAIN secret[q] = 1..Len(secret[q])
               /\ Len(secret'[q]) \in Nat /\ DOMAIN secret'[q] = 1..Len(secret'[q])
    BY <1>1, <1>2
  <2>2. ASSUME NEW v \in 1..Len(secret'[r]), v > Len(secret[r]) PROVE secret'[r][v] = now
    <3>1. Len(secret[r]) \in Nat /\ Len(secret'[r]) = Len(secret[r]) + 1
          /\ secret'[r][Len(secret[r]) + 1] = now
      BY <1>3, <2>1
    <3>2. v = Len(secret[r]) + 1
      BY <2>2, <3>1
    <3> QED
      BY <3>1, <3>2
  <2>3. ASSUME NEW q \in Refs
        PROVE  /\ Len(secret[q]) <= Len(secret'[q])
               /\ \A v \in 1..Len(secret[q]) : secret'[q][v] = secret[q][v]
               /\ \A v \in 1..Len(secret'[q]) : v > Len(secret[q]) => secret'[q][v] = now
    <3>1. CASE q = r
      BY <1>3, <2>1, <2>2, <3>1
    <3>2. CASE q # r
      BY <1>2, <2>1, <3>2
    <3> QED
      BY <3>1, <3>2
  <2> QED
    BY <2>1, <2>3
<1>6. /\ cache' = cache /\ inUse' = inUse /\ outages' = outages /\ config' = config /\ now' = now
      /\ since' = since /\ reading' = reading /\ phase' = phase
      /\ SecretsTyped /\ Moments /\ CacheAges /\ AnswerAges /\ StaleOnlyInOutage /\ LaunchTakesRotations
      /\ TTL \in Nat \ {0} /\ now \in Nat /\ since \in Nat /\ since <= now
  BY <1>0, <1>1, Bounds DEF secrets, SecretsSound, SecretsAge, SecretsTyped, Moments
<1>7. SecretsTyped'
  BY <1>5, <1>6 DEF SecretsTyped
<1>8. SecretsAge'
  <2>1. ASSUME NEW q \in Refs, NEW v \in DOMAIN secret'[q] PROVE secret'[q][v] <= now
    <3>1. v \in 1..Len(secret'[q]) /\ Len(secret[q]) \in Nat
      BY <1>5
    <3>2. CASE v > Len(secret[q])
      BY <1>5, <1>6, <3>1, <3>2
    <3>3. CASE ~(v > Len(secret[q]))
      <4>1. v \in DOMAIN secret[q] /\ secret'[q][v] = secret[q][v]
        BY <1>5, <3>1, <3>3
      <4> QED
        BY <1>6, <4>1 DEF Moments
    <3> QED
      BY <3>2, <3>3
  <2>2. ASSUME NEW q \in DOMAIN cache, cache[q].val < Len(secret'[q])
        PROVE  /\ since <= secret'[q][cache[q].val + 1]
               /\ cache[q].exp <= secret'[q][cache[q].val + 1] + TTL + cache[q].lag
    <3>1. /\ q \in Refs /\ cache[q].val \in 1..Len(secret[q]) /\ cache[q].exp <= now + TTL
          /\ cache[q].lag \in Nat /\ cache[q].exp \in Nat
      BY <1>6, Bounds DEF SecretsTyped, CacheAges
    <3>2. CASE cache[q].val < Len(secret[q])
      <4>1. cache[q].val + 1 \in 1..Len(secret[q])
        BY <1>5, <3>1, <3>2
      <4>2. secret'[q][cache[q].val + 1] = secret[q][cache[q].val + 1]
        BY <1>5, <3>1, <4>1
      <4> QED
        BY <1>6, <3>2, <4>2 DEF CacheAges
    <3>3. CASE cache[q].val = Len(secret[q])
      <4>1. secret'[q][cache[q].val + 1] = now
        BY <1>5, <2>2, <3>1, <3>3
      <4> QED
        BY <1>6, <3>1, <4>1
    <3> QED
      BY <1>5, <3>1, <3>2, <3>3
  <2>3. ASSUME NEW i \in DOMAIN Leaves, inUse[Leaves[i].use] # Unresolved
        PROVE  /\ inUse[Leaves[i].use].val \in 1..Len(secret'[Leaves[i].ref])
               /\ inUse[Leaves[i].use].at <= now
    BY <1>0, <1>5, <1>6, <2>3, LeafFacts DEF Moments, WorldTyped
  <2>4. Moments'
    BY <1>6, <2>1, <2>3 DEF Moments, Leaves
  <2>5. CacheAges'
    BY <1>6, <2>2 DEF CacheAges
  <2>6. Unread' = Unread /\ Leaf' = Leaf /\ Resolving' = Resolving /\ Fresh' = Fresh
    BY <1>6 DEF Resolving, Fresh, Had, Leaf, Unread, Leaves
  <2>7. ASSUME reading # NotReading
        PROVE  /\ Resolving /\ ~Fresh /\ reading.val \in 1..Len(secret'[Leaf.ref]) /\ since <= reading.at
               /\ reading.val < Len(secret'[Leaf.ref]) => reading.at <= secret'[Leaf.ref][reading.val + 1]
    <3>1. PICK i \in DOMAIN Leaves : Leaf = Leaves[i]
      BY <1>0, <1>6, <2>7, LeafIsUnread DEF AnswerAges, Resolving, WorldTyped
    <3> DEFINE q == Leaf.ref
    <3>2. q \in Refs /\ reading.val \in 1..Len(secret[q]) /\ since <= reading.at /\ reading.at <= now
          /\ (reading.val < Len(secret[q]) => reading.at <= secret[q][reading.val + 1])
          /\ Resolving /\ ~Fresh
      BY <1>0, <1>6, <2>7, <3>1, LeafFacts DEF AnswerAges, Moments, WorldTyped
    <3> HIDE DEF q
    <3>3. reading.val \in 1..Len(secret'[q])
      BY <1>5, <3>2
    <3>4. ASSUME reading.val < Len(secret'[q]) PROVE reading.at <= secret'[q][reading.val + 1]
      <4>1. CASE reading.val < Len(secret[q])
        <5>1. reading.val + 1 \in 1..Len(secret[q])
          BY <1>5, <3>2, <4>1
        <5>2. secret'[q][reading.val + 1] = secret[q][reading.val + 1]
          BY <1>5, <3>2, <5>1
        <5> QED
          BY <3>2, <4>1, <5>2
      <4>2. CASE reading.val = Len(secret[q])
        <5>1. secret'[q][reading.val + 1] = now
          BY <1>5, <3>2, <3>4, <4>2
        <5> QED
          BY <3>2, <5>1
      <4> QED
        BY <1>5, <3>2, <4>1, <4>2
    <3> QED
      BY <3>2, <3>3, <3>4 DEF q
  <2>8. AnswerAges'
    BY <1>6, <2>6, <2>7 DEF AnswerAges
  <2> QED
    BY <2>4, <2>5, <2>8 DEF SecretsAge
<1>9. StaleOnlyInOutage' /\ LaunchTakesRotations'
  <2>1. ASSUME NEW i \in DOMAIN Leaves, inUse[Leaves[i].use] # Unresolved,
               inUse[Leaves[i].use].val < Len(secret'[Leaves[i].ref])
        PROVE  /\ since <= secret'[Leaves[i].ref][inUse[Leaves[i].use].val + 1]
               /\ Leaves[i].use \notin outages =>
                    inUse[Leaves[i].use].at
                      < secret'[Leaves[i].ref][inUse[Leaves[i].use].val + 1] + TTL + inUse[Leaves[i].use].lag
    <3> DEFINE use == inUse[Leaves[i].use]
               q == Leaves[i].ref
    <3>0. q \in Refs /\ Leaves[i].use \in Uses
      BY <1>0, LeafFacts DEF WorldTyped
    <3>b. use \in Taken
      BY <1>6, <3>0 DEF SecretsTyped
    <3>1. q \in Refs /\ use.val \in 1..Len(secret[q]) /\ use.at <= now /\ use.at \in Nat /\ use.lag \in Nat
      BY <1>6, <2>1, <3>0, <3>b, Bounds DEF Moments, Taken
    <3>2. CASE use.val < Len(secret[q])
      <4>1. since <= secret[q][use.val + 1]
            /\ (Leaves[i].use \notin outages => use.at < secret[q][use.val + 1] + TTL + use.lag)
        BY <1>6, <2>1, <3>2 DEF StaleOnlyInOutage, LaunchTakesRotations, IsReplaced, Replaced
      <4>2. use.val + 1 \in 1..Len(secret[q])
        BY <1>5, <3>1, <3>2
      <4>3. secret'[q][use.val + 1] = secret[q][use.val + 1]
        BY <1>5, <3>1, <4>2
      <4> QED
        BY <4>1, <4>3
    <3>3. CASE use.val = Len(secret[q])
      <4>1. secret'[q][use.val + 1] = now
        BY <1>5, <2>1, <3>1, <3>3
      <4> QED
        BY <1>6, <3>1, <4>1
    <3> QED
      BY <1>5, <3>1, <3>2, <3>3
  <2> QED
    BY <1>6, <2>1 DEF StaleOnlyInOutage, LaunchTakesRotations, IsReplaced, Replaced, Leaves
<1>10. SigningSound' /\ TokensSound'
  BY <1>0, SigningStays, TokensStay DEF State, secrets
<1> QED
  BY <1>4, <1>7, <1>8, <1>9, <1>10 DEF State, SecretsSound

LEMMA RotateRemoteStep == ASSUME State, RotateRemote PROVE State'
<1>0. /\ WorldTyped /\ SigningSound /\ remote' = remote + 1 /\ remote < MaxVersion
      /\ UNCHANGED <<config, now, secret, issuer, launches, phase, secrets, signing, tokens>>
  BY DEF State, RotateRemote
<1>1. WorldTyped' /\ remote \in Nat /\ stated \in Nat
  BY <1>0, Bounds DEF WorldTyped, SigningSound
<1>2. SigningSound'
  BY <1>0, <1>1
  DEF SigningSound, PublicIsSettled, SignaturesBind, SignaturesVerify, Unread, Leaves, signing, secrets
<1> QED
  BY <1>0, <1>1, <1>2, SecretsStay, TokensStay DEF State

LEMMA PublishStep == ASSUME State, NEW k \in Kids, Publish(k) PROVE State'
<1>0. /\ WorldTyped /\ TokensSound /\ issuer.epoch < MaxEpoch
      /\ issuer' = [kids |-> IF k \in issuer.kids THEN issuer.kids \ {k} ELSE issuer.kids \cup {k},
                    epoch |-> issuer.epoch + 1]
      /\ UNCHANGED <<config, now, secret, remote, launches, phase, secrets, signing, tokens>>
  BY DEF State, Publish
<1>1. issuer.epoch \in Nat /\ issuer'.epoch = issuer.epoch + 1
  BY <1>0, Bounds DEF WorldTyped
<1>2. issuer' \in [kids : SUBSET Kids, epoch : 1..MaxEpoch]
  <2> DEFINE kids == IF k \in issuer.kids THEN issuer.kids \ {k} ELSE issuer.kids \cup {k}
  <2>1. kids \in SUBSET Kids /\ issuer.epoch + 1 \in 1..MaxEpoch
    BY <1>0, Bounds DEF WorldTyped
  <2> HIDE DEF kids
  <2> QED
    BY <1>0, <2>1 DEF kids
<1>3. WorldTyped'
  BY <1>0, <1>2 DEF WorldTyped
<1>4. TokensSound'
  BY <1>0, <1>1 DEF TokensSound, OneFetch, tokens
<1> QED
  BY <1>0, <1>3, <1>4, SecretsStay, SigningStays DEF State, secrets

-----------------------------------------------------------------------------
(* A launch.                                                               *)

LEMMA LaunchStep == ASSUME State, Launch PROVE State'
<1>0. /\ WorldTyped /\ SigningSound /\ phase = "down" /\ phase' = "resolving"
      /\ launches' = launches + 1 /\ launches < MaxLaunches /\ since' = now
      /\ UNCHANGED <<config, now, world, cache, reading, inUse, outages, signing, tokens>>
  BY DEF State, Launch
<1>1. WorldTyped'
  BY <1>0, Bounds DEF WorldTyped, world
<1>2. SigningSound'
  BY <1>0 DEF SigningSound, PublicIsSettled, SignaturesBind, SignaturesVerify, signing
<1>3. /\ SecretsTyped /\ Moments /\ now \in 1..MaxTime /\ now \in Nat /\ secret' = secret
      /\ DOMAIN cache = {} /\ reading = NotReading
      /\ \A i \in DOMAIN Leaves : inUse[Leaves[i].use] = Unresolved
  BY <1>0, Bounds DEF State, SecretsSound, SecretsAge, Moments, WorldTyped, world
<1>4. SecretsTyped'
  BY <1>0, <1>3, Bounds DEF SecretsTyped
<1>5. Moments' /\ CacheAges' /\ AnswerAges'
  BY <1>0, <1>3 DEF Moments, CacheAges, AnswerAges, Leaves
<1>6. StaleOnlyInOutage' /\ LaunchTakesRotations'
  BY <1>0, <1>3 DEF StaleOnlyInOutage, LaunchTakesRotations, IsReplaced, Leaves
<1> QED
  BY <1>0, <1>1, <1>2, <1>4, <1>5, <1>6, TokensStay DEF State, SecretsSound, SecretsAge, world

LEMMA ExitStep == ASSUME State, Exit PROVE State'
<1>0. /\ WorldTyped /\ phase' = "down" /\ launches' = launches
      /\ since' = 0 /\ cache' = << >> /\ reading' = NotReading
      /\ inUse' = [u \in Uses |-> Unresolved] /\ outages' = {}
      /\ pinned' = 0 /\ stated' = 0 /\ signed' = {}
      /\ keyset' = NoSet /\ fetching' = {}
      /\ UNCHANGED <<config, now, world>>
  BY DEF State, Exit, EmptyMemory
<1>1. WorldTyped'
  BY <1>0 DEF WorldTyped, world
<1>2. DOMAIN cache' = {}
  BY <1>0
<1>3. inUse' \in [Uses -> Taken]
  <2>1. Unresolved \in Taken
    BY Bounds DEF Unresolved, Taken
  <2> QED
    BY <1>0, <2>1
<1>4. \A i \in DOMAIN Leaves' : inUse'[Leaves[i].use] = Unresolved
  BY <1>0, LeafFacts DEF WorldTyped, Leaves
<1>5. SecretsSound'
  <2>1. SecretsTyped'
    <3>1. NotReading \in [val : 0..MaxVersion, at : 0..MaxTime]
      BY Bounds DEF NotReading
    <3> QED
      BY <1>0, <1>2, <1>3, <3>1, Bounds DEF SecretsTyped
  <2>2. Moments' /\ CacheAges' /\ AnswerAges'
    <3>1. \A r \in Refs : \A v \in DOMAIN secret[r] : secret[r][v] <= now
      BY DEF State, SecretsSound, SecretsAge, Moments
    <3>2. NotReading.at <= now /\ 0 <= now
      BY <1>0, Bounds DEF NotReading, WorldTyped
    <3> QED
      BY <1>0, <1>2, <1>4, <3>1, <3>2 DEF Moments, CacheAges, AnswerAges, world, Leaves
  <2>3. StaleOnlyInOutage' /\ LaunchTakesRotations'
    BY <1>0, <1>4 DEF StaleOnlyInOutage, LaunchTakesRotations, IsReplaced, Leaves
  <2> QED
    BY <2>1, <2>2, <2>3 DEF SecretsSound, SecretsAge
<1>6. SigningSound'
  BY <1>0, Bounds DEF SigningSound, PublicIsSettled, SignaturesBind, SignaturesVerify
<1>7. TokensSound'
  <2>1. NoSet \in [kids : SUBSET Kids, epoch : Nat] /\ NoSet.epoch = 0
    BY DEF NoSet
  <2>2. issuer'.epoch \in Nat
    BY <1>1, Bounds DEF WorldTyped
  <2> QED
    BY <1>0, <2>1, <2>2 DEF TokensSound, OneFetch
<1> QED
  BY <1>1, <1>5, <1>6, <1>7 DEF State

\* What holds of a value a leaf may take: it was not replaced before the launch, nor,
\* unless the vault failed, TTL and the answer's time ago.
Takeable(ref, val, lag, failed) ==
    val < Len(secret[ref]) =>
      /\ since <= secret[ref][val + 1]
      /\ failed \/ now < secret[ref][val + 1] + TTL + lag

\* A value a leaf takes, cached or from the vault.
LEMMA TakesSound ==
    ASSUME State, UNCHANGED <<config, now, secret, since, phase>>, phase = "resolving",
           NEW i \in DOMAIN Leaves, inUse[Leaves[i].use] = Unresolved,
           NEW val \in 1..Len(secret[Leaves[i].ref]), NEW lag \in 0..MaxTime,
           inUse' = [inUse EXCEPT ![Leaves[i].use] = [val |-> val, at |-> now, lag |-> lag]],
           outages \subseteq outages', outages' \subseteq Uses, reading' = NotReading,
           Takeable(Leaves[i].ref, val, lag, Leaves[i].use \in outages'),
           DOMAIN cache' \subseteq Refs, CacheAges',
           \A r \in DOMAIN cache' :
              /\ cache'[r].val \in 1..Len(secret[r]) /\ cache'[r].exp \in 1..(MaxTime + TTL)
              /\ cache'[r].lag \in 0..MaxTime
    PROVE  SecretsSound'
<1> DEFINE u == Leaves[i].use
           taken == [val |-> val, at |-> now, lag |-> lag]
<1>0. /\ WorldTyped /\ SecretsTyped /\ Moments /\ StaleOnlyInOutage /\ LaunchTakesRotations
      /\ config \in Configs /\ now \in 1..MaxTime /\ Leaves[i].ref \in Refs /\ u \in Uses
      /\ Len(secret[Leaves[i].ref]) \in 1..MaxVersion
  BY LeafFacts DEF State, SecretsSound, SecretsAge, WorldTyped
<1>1. taken \in Taken /\ taken.val = val /\ taken.at = now /\ taken.lag = lag
  BY <1>0, Bounds DEF Taken
<1> HIDE DEF taken
<1>2. inUse' = [inUse EXCEPT ![u] = taken]
  BY DEF taken
<1>3. inUse' \in [Uses -> Taken] /\ inUse'[u] = taken
  BY <1>0, <1>1, <1>2 DEF SecretsTyped
<1>4. \A j \in DOMAIN Leaves : j # i => inUse'[Leaves[j].use] = inUse[Leaves[j].use]
  BY <1>0, <1>2, LeafFacts DEF SecretsTyped
<1>5. SecretsTyped'
  <2>1. NotReading \in [val : 0..MaxVersion, at : 0..MaxTime] /\ since' \in 0..MaxTime
    BY <1>0, Bounds DEF NotReading, SecretsTyped
  <2> QED
    BY <1>3, <2>1 DEF SecretsTyped
<1>6. Moments'
  <2>1. ASSUME NEW j \in DOMAIN Leaves, inUse'[Leaves[j].use] # Unresolved
        PROVE  /\ inUse'[Leaves[j].use].val \in 1..Len(secret[Leaves[j].ref])
               /\ inUse'[Leaves[j].use].at <= now
    <3>1. CASE j = i
      BY <1>0, <1>1, <1>3, <3>1
    <3>2. CASE j # i
      BY <1>0, <1>4, <2>1, <3>2 DEF Moments
    <3> QED
      BY <3>1, <3>2
  <2>2. NotReading.at <= now
    BY <1>0, Bounds DEF NotReading
  <2> QED
    BY <1>0, <2>1, <2>2 DEF Moments, Leaves
<1>7. StaleOnlyInOutage' /\ LaunchTakesRotations'
  <2>1. ASSUME NEW j \in DOMAIN Leaves, inUse'[Leaves[j].use] # Unresolved,
               inUse'[Leaves[j].use].val < Len(secret[Leaves[j].ref])
        PROVE  /\ since <= secret[Leaves[j].ref][inUse'[Leaves[j].use].val + 1]
               /\ Leaves[j].use \notin outages' =>
                    inUse'[Leaves[j].use].at
                      < secret[Leaves[j].ref][inUse'[Leaves[j].use].val + 1] + TTL + inUse'[Leaves[j].use].lag
    <3>1. CASE j = i
      BY <1>1, <1>3, <2>1, <3>1 DEF Takeable
    <3>2. CASE j # i
      BY <1>0, <1>4, <2>1, <3>2 DEF StaleOnlyInOutage, LaunchTakesRotations, IsReplaced, Replaced
    <3> QED
      BY <3>1, <3>2
  <2> QED
    BY <2>1 DEF StaleOnlyInOutage, LaunchTakesRotations, IsReplaced, Replaced, Leaves
<1>8. AnswerAges'
  BY DEF AnswerAges
<1> QED
  BY <1>5, <1>6, <1>7, <1>8 DEF SecretsSound, SecretsAge

\* What the actions that resolve a leaf have in common.
LEMMA ResolvingFacts ==
    ASSUME State, Resolving
    PROVE  /\ WorldTyped /\ SecretsTyped /\ Moments /\ CacheAges /\ AnswerAges /\ phase = "resolving"
           /\ Leaf.ref \in Refs /\ Leaf.use \in Uses /\ Len(secret[Leaf.ref]) \in 1..MaxVersion
           /\ now \in 1..MaxTime /\ now \in Nat /\ TTL \in Nat \ {0} /\ MaxTime \in Nat
           /\ \E i \in DOMAIN Leaves : Leaf = Leaves[i] /\ inUse[Leaves[i].use] = Unresolved
<1>1. WorldTyped /\ SecretsTyped /\ Moments /\ CacheAges /\ AnswerAges /\ config \in Configs
  BY DEF State, SecretsSound, SecretsAge, WorldTyped
<1>2. PICK i \in DOMAIN Leaves : Leaf = Leaves[i] /\ inUse[Leaves[i].use] = Unresolved
  BY <1>1, LeafIsUnread DEF Resolving
<1> QED
  BY <1>1, <1>2, LeafFacts, Bounds DEF Resolving, WorldTyped

\* While a launch resolves, nothing is signed and no key set is held.
LEMMA ResolvingKeeps ==
    ASSUME State, Resolving, UNCHANGED <<config, now, world, launches, phase, signing, tokens>>
    PROVE  WorldTyped' /\ SigningSound' /\ TokensSound'
<1>1. phase = "resolving" /\ phase' = "resolving" /\ SigningSound /\ WorldTyped
  BY DEF Resolving, State
<1>2. SigningSound'
  BY <1>1 DEF SigningSound, PublicIsSettled, SignaturesBind, SignaturesVerify, signing
<1> QED
  BY <1>1, <1>2, TokensStay DEF State, WorldTyped, world

\* What ran out in time has not reached the end that bounds it.
LEMMA BeforeItEnds ==
    ASSUME NEW n \in Nat, NEW exp \in Nat, NEW end \in Nat, NEW ttl \in Nat, NEW lag \in Nat,
           exp <= end + ttl + lag, n < exp
    PROVE  n < end + ttl + lag
  OBVIOUS

\* What was asked at an instant and came later outlives what replaced it by the delay alone.
LEMMA DelayCounts ==
    ASSUME NEW from \in Nat, NEW asked \in Nat, NEW n \in Nat, NEW end \in Nat,
           NEW ttl \in Nat \ {0}, NEW lag \in Nat, from <= asked, asked <= end, lag + asked = n
    PROVE  /\ from <= end /\ n + ttl <= end + ttl + lag /\ n < end + ttl + lag
  OBVIOUS

\* A cached value is takeable while it is fresh, and when the vault failed.
LEMMA CachedTakeable ==
    ASSUME State, Resolving, Had, NEW failed \in BOOLEAN, Fresh \/ failed
    PROVE  /\ cache[Leaf.ref].val \in 1..Len(secret[Leaf.ref]) /\ cache[Leaf.ref].lag \in 0..MaxTime
           /\ Takeable(Leaf.ref, cache[Leaf.ref].val, cache[Leaf.ref].lag, failed)
<1> DEFINE ref == Leaf.ref
           entry == cache[ref]
<1>1. /\ ref \in DOMAIN cache /\ ref \in Refs /\ Len(secret[ref]) \in 1..MaxVersion
      /\ WorldTyped /\ SecretsTyped /\ CacheAges /\ now \in Nat /\ TTL \in Nat
  BY ResolvingFacts DEF Had
<1>2. entry.val \in 1..Len(secret[ref]) /\ entry.lag \in 0..MaxTime /\ entry.exp \in 1..(MaxTime + TTL)
  BY <1>1 DEF SecretsTyped
<1>3. ASSUME entry.val < Len(secret[ref])
      PROVE  /\ since <= secret[ref][entry.val + 1]
             /\ failed \/ now < secret[ref][entry.val + 1] + TTL + entry.lag
  <2>1. since <= secret[ref][entry.val + 1] /\ entry.exp <= secret[ref][entry.val + 1] + TTL + entry.lag
    BY <1>1, <1>3 DEF CacheAges
  <2>0. secret[ref] \in Seq(1..MaxTime) /\ Len(secret[ref]) \in Nat
    BY <1>1, Bounds DEF WorldTyped
  <2>2. entry.val + 1 \in 1..Len(secret[ref])
    <3> HIDE DEF entry, ref
    <3> QED
      BY <1>2, <1>3, <2>0
  <2>3. secret[ref][entry.val + 1] \in 1..MaxTime
    BY <2>0, <2>2, ElementOfSeq
  <2>4. failed \/ now < entry.exp
    BY DEF Fresh
  <2> HIDE DEF entry, ref
  <2>5. entry.exp \in Nat /\ entry.lag \in Nat /\ secret[ref][entry.val + 1] \in Nat
    BY <1>2, <2>3, Bounds
  <2>6. now < entry.exp => now < secret[ref][entry.val + 1] + TTL + entry.lag
    BY <1>1, <2>1, <2>5, BeforeItEnds
  <2> QED
    BY <2>1, <2>4, <2>6
<1> QED
  BY <1>2, <1>3 DEF Takeable

LEMMA ServeCachedStep == ASSUME State, ServeCached PROVE State'
<1>0. /\ Resolving /\ reading = NotReading /\ Fresh /\ Takes(cache[Leaf.ref].val, cache[Leaf.ref].lag)
      /\ UNCHANGED <<config, now, world, launches, phase, since, cache, reading, outages, signing, tokens>>
  BY DEF ServeCached
<1>1. PICK i \in DOMAIN Leaves : Leaf = Leaves[i] /\ inUse[Leaves[i].use] = Unresolved
  BY <1>0, ResolvingFacts
<1>2. /\ SecretsTyped /\ CacheAges /\ phase = "resolving" /\ Had
  BY <1>0, ResolvingFacts DEF Fresh
<1>3. /\ cache[Leaf.ref].val \in 1..Len(secret[Leaf.ref]) /\ cache[Leaf.ref].lag \in 0..MaxTime
      /\ \A failed \in BOOLEAN : Takeable(Leaf.ref, cache[Leaf.ref].val, cache[Leaf.ref].lag, failed)
  BY <1>0, <1>2, CachedTakeable
<1> DEFINE val == cache[Leaf.ref].val
           lag == cache[Leaf.ref].lag
           failed == Leaves[i].use \in outages'
<1>4. inUse' = [inUse EXCEPT ![Leaves[i].use] = [val |-> val, at |-> now, lag |-> lag]]
  BY <1>0, <1>1 DEF Takes
<1>5. /\ val \in 1..Len(secret[Leaves[i].ref]) /\ lag \in 0..MaxTime
      /\ Takeable(Leaves[i].ref, val, lag, failed)
  <2>1. failed \in BOOLEAN
    OBVIOUS
  <2> HIDE DEF failed
  <2> QED
    BY <1>1, <1>3, <2>1
<1>6. CacheAges' /\ DOMAIN cache' \subseteq Refs /\ secret' = secret /\ reading' = NotReading
  BY <1>0, <1>2 DEF CacheAges, SecretsTyped, world
<1>7. /\ outages \subseteq outages' /\ outages' \subseteq Uses
      /\ \A r \in DOMAIN cache' :
              /\ cache'[r].val \in 1..Len(secret[r]) /\ cache'[r].exp \in 1..(MaxTime + TTL)
              /\ cache'[r].lag \in 0..MaxTime
  BY <1>0, <1>2 DEF SecretsTyped
<1> HIDE DEF val, lag
<1>8. SecretsSound'
  BY <1>0, <1>1, <1>2, <1>4, <1>5, <1>6, <1>7, TakesSound
<1> QED
  BY <1>0, <1>8, ResolvingKeeps DEF State

LEMMA VaultFailsStep == ASSUME State, VaultFails PROVE State'
<1>0. /\ Resolving /\ Had /\ Takes(cache[Leaf.ref].val, cache[Leaf.ref].lag)
      /\ outages' = outages \cup {Leaf.use} /\ reading' = NotReading
      /\ UNCHANGED <<config, now, world, launches, phase, since, cache, signing, tokens>>
  BY DEF VaultFails
<1>1. PICK i \in DOMAIN Leaves : Leaf = Leaves[i] /\ inUse[Leaves[i].use] = Unresolved
  BY <1>0, ResolvingFacts
<1>2. /\ SecretsTyped /\ CacheAges /\ phase = "resolving" /\ Leaf.use \in Uses
  BY <1>0, ResolvingFacts
<1>3. /\ cache[Leaf.ref].val \in 1..Len(secret[Leaf.ref]) /\ cache[Leaf.ref].lag \in 0..MaxTime
      /\ Takeable(Leaf.ref, cache[Leaf.ref].val, cache[Leaf.ref].lag, TRUE)
  BY <1>0, CachedTakeable
<1> DEFINE val == cache[Leaf.ref].val
           lag == cache[Leaf.ref].lag
<1>4. inUse' = [inUse EXCEPT ![Leaves[i].use] = [val |-> val, at |-> now, lag |-> lag]]
  BY <1>0, <1>1 DEF Takes
<1>5. /\ val \in 1..Len(secret[Leaves[i].ref]) /\ lag \in 0..MaxTime
      /\ Takeable(Leaves[i].ref, val, lag, Leaves[i].use \in outages')
  BY <1>0, <1>1, <1>3 DEF Takeable
<1>6. CacheAges' /\ DOMAIN cache' \subseteq Refs /\ secret' = secret
  BY <1>0, <1>2 DEF CacheAges, SecretsTyped, world
<1>7. /\ outages \subseteq outages' /\ outages' \subseteq Uses
      /\ \A r \in DOMAIN cache' :
              /\ cache'[r].val \in 1..Len(secret[r]) /\ cache'[r].exp \in 1..(MaxTime + TTL)
              /\ cache'[r].lag \in 0..MaxTime
  BY <1>0, <1>2 DEF SecretsTyped
<1> HIDE DEF val, lag
<1>8. SecretsSound'
  BY <1>0, <1>1, <1>2, <1>4, <1>5, <1>6, <1>7, TakesSound
<1> QED
  BY <1>0, <1>8, ResolvingKeeps DEF State

LEMMA AskVaultStep == ASSUME State, AskVault PROVE State'
<1>0. /\ Resolving /\ ~Fresh /\ reading' = [val |-> Len(secret[Leaf.ref]), at |-> now]
      /\ UNCHANGED <<config, now, world, launches, phase, since, cache, inUse, outages, signing, tokens>>
  BY DEF AskVault
<1>1. /\ WorldTyped /\ SecretsTyped /\ Moments /\ CacheAges /\ Len(secret[Leaf.ref]) \in 1..MaxVersion
      /\ now \in 1..MaxTime /\ phase = "resolving" /\ secret' = secret
  BY <1>0, ResolvingFacts DEF world
<1> DEFINE answer == [val |-> Len(secret[Leaf.ref]), at |-> now]
<1>2. answer.val = Len(secret[Leaf.ref]) /\ answer.at = now
      /\ answer \in [val : 0..MaxVersion, at : 0..MaxTime]
  BY <1>1, Bounds
<1> HIDE DEF answer
<1>3. reading' = answer
  BY <1>0 DEF answer
<1>4. SecretsTyped' /\ CacheAges'
  BY <1>0, <1>1, <1>2, <1>3 DEF SecretsTyped, CacheAges
<1>5. Moments'
  <2>1. reading'.at <= now /\ phase' # "down"
    BY <1>0, <1>1, <1>2, <1>3, Bounds
  <2> QED
    BY <1>0, <1>1, <2>1 DEF Moments, Leaves
<1>6. AnswerAges'
  <2>1. Leaf' = Leaf /\ Resolving' = Resolving /\ Fresh' = Fresh
    BY <1>0 DEF Resolving, Fresh, Had, Leaf, Unread, Leaves
  <2>2. reading'.val \in 1..Len(secret[Leaf.ref]) /\ ~(reading'.val < Len(secret[Leaf.ref]))
    BY <1>1, <1>2, <1>3, Bounds
  <2>3. since <= reading'.at
    BY <1>1, <1>2, <1>3 DEF Moments
  <2> QED
    BY <1>0, <1>1, <2>1, <2>2, <2>3 DEF AnswerAges
<1>7. StaleOnlyInOutage' /\ LaunchTakesRotations'
  BY <1>0, <1>1
  DEF State, SecretsSound, StaleOnlyInOutage, LaunchTakesRotations, IsReplaced, Replaced, Leaves
<1> QED
  BY <1>0, <1>4, <1>5, <1>6, <1>7, ResolvingKeeps DEF State, SecretsSound, SecretsAge

LEMMA StampStep == ASSUME State, Stamp PROVE State'
<1> DEFINE ref == Leaf.ref
           val == reading.val
           lag == now - reading.at
           entry == [val |-> val, exp |-> now + TTL, lag |-> lag]
<1>0. /\ reading # NotReading /\ Takes(val, lag) /\ Cached(val, lag) /\ reading' = NotReading
      /\ UNCHANGED <<config, now, world, launches, phase, since, outages, signing, tokens>>
  BY DEF Stamp
<1>1. Resolving
  BY <1>0 DEF State, SecretsSound, SecretsAge, AnswerAges
<1>2. PICK i \in DOMAIN Leaves : Leaf = Leaves[i] /\ inUse[Leaves[i].use] = Unresolved
  BY <1>1, ResolvingFacts
<1>3. /\ WorldTyped /\ SecretsTyped /\ CacheAges /\ phase = "resolving" /\ ref \in Refs
      /\ Len(secret[ref]) \in 1..MaxVersion
      /\ now \in 1..MaxTime /\ now \in Nat /\ TTL \in Nat \ {0} /\ MaxTime \in Nat /\ secret' = secret
  BY <1>0, <1>1, ResolvingFacts DEF world
<1>4. /\ val \in 1..Len(secret[ref]) /\ since <= reading.at /\ reading.at <= now
      /\ val < Len(secret[ref]) => reading.at <= secret[ref][val + 1]
  BY <1>0 DEF State, SecretsSound, SecretsAge, AnswerAges, Moments
<1>5. reading.at \in Nat /\ since \in Nat
  BY <1>3, Bounds DEF SecretsTyped
<1>6. lag \in 0..MaxTime /\ lag + reading.at = now
  BY <1>3, <1>4, <1>5
<1>7. entry.val = val /\ entry.exp = now + TTL /\ entry.lag = lag
  OBVIOUS
<1>8. inUse' = [inUse EXCEPT ![Leaves[i].use] = [val |-> val, at |-> now, lag |-> lag]]
  BY <1>0, <1>2 DEF Takes
<1>9. cache' = [r \in DOMAIN cache \cup {ref} |-> IF r = ref THEN entry ELSE cache[r]]
  BY <1>0 DEF Cached
<1> HIDE DEF val, lag, entry, ref
<1>10. ASSUME val < Len(secret[ref])
       PROVE  /\ since <= secret[ref][val + 1] /\ now + TTL <= secret[ref][val + 1] + TTL + lag
              /\ now < secret[ref][val + 1] + TTL + lag
  <2>1. secret[ref] \in Seq(1..MaxTime) /\ val + 1 \in 1..Len(secret[ref])
    <3>1. secret[ref] \in Seq(1..MaxTime)
      BY <1>3 DEF WorldTyped
    <3>2. Len(secret[ref]) \in Nat
      BY <1>3, Bounds
    <3>3. val + 1 \in 1..Len(secret[ref])
      BY <1>4, <1>10, <3>2
    <3> QED  BY <3>1, <3>3
  <2>2. secret[ref][val + 1] \in 1..MaxTime
    BY <2>1, ElementOfSeq
  <2>3. secret[ref][val + 1] \in Nat /\ lag \in Nat /\ reading.at <= secret[ref][val + 1]
    BY <1>4, <1>6, <1>10, <2>2, Bounds
  <2>4. now \in Nat /\ TTL \in Nat \ {0} /\ since <= reading.at /\ lag + reading.at = now
    BY <1>3, <1>4, <1>6
  <2> QED
    BY <1>5, <2>3, <2>4, DelayCounts
<1>11. Takeable(ref, val, lag, Leaves[i].use \in outages')
  BY <1>10 DEF Takeable
<1>12. /\ DOMAIN cache' = DOMAIN cache \cup {ref} /\ cache'[ref] = entry
       /\ \A r \in DOMAIN cache : r # ref => cache'[r] = cache[r]
  BY <1>9
<1>13. ASSUME NEW r \in DOMAIN cache'
       PROVE  /\ cache'[r].val \in 1..Len(secret[r]) /\ cache'[r].exp \in 1..(MaxTime + TTL)
              /\ cache'[r].lag \in 0..MaxTime /\ cache'[r].exp <= now + TTL
              /\ cache'[r].val < Len(secret[r]) =>
                   /\ since <= secret[r][cache'[r].val + 1]
                   /\ cache'[r].exp <= secret[r][cache'[r].val + 1] + TTL + cache'[r].lag
  <2>1. CASE r = ref
    <3>1. now + TTL \in 1..(MaxTime + TTL) /\ now + TTL <= now + TTL
      BY <1>3
    <3> QED
      BY <1>4, <1>6, <1>7, <1>10, <1>12, <2>1, <3>1
  <2>2. CASE r # ref
    BY <1>3, <1>12, <2>2 DEF SecretsTyped, CacheAges
  <2> QED
    BY <2>1, <2>2
<1>14. CacheAges'
  BY <1>0, <1>3, <1>13 DEF CacheAges
<1>15. DOMAIN cache' \subseteq Refs /\ outages \subseteq outages' /\ outages' \subseteq Uses
  BY <1>0, <1>3, <1>12 DEF SecretsTyped
<1>16. Leaves[i].ref = ref
  BY <1>2 DEF ref
<1>17. SecretsSound'
  BY <1>0, <1>2, <1>3, <1>4, <1>6, <1>8, <1>11, <1>13, <1>14, <1>15, <1>16, TakesSound
<1> QED
  BY <1>0, <1>1, <1>17, ResolvingKeeps DEF State

LEMMA ResolvedStep == ASSUME State, Resolved PROVE State'
<1>0. /\ WorldTyped /\ SigningSound /\ phase = "resolving" /\ phase' = "public" /\ Unread = {}
      /\ UNCHANGED <<config, now, world, launches, secrets, signing, tokens>>
  BY DEF State, Resolved
<1>1. WorldTyped'
  BY <1>0 DEF WorldTyped, world
<1>2. Unread' = {}
  BY <1>0 DEF Unread, Leaves, secrets
<1>3. SigningSound'
  BY <1>0, <1>2 DEF SigningSound, PublicIsSettled, SignaturesBind, SignaturesVerify, signing
<1> QED
  BY <1>0, <1>1, <1>3, SecretsStay, TokensStay DEF State, world

\* An in-memory signer's key has been resolved once all leaves have.
LEMMA SignerIsResolved ==
    ASSUME State, Unread = {}, config.backend = "inmemory"
    PROVE  inUse["signer"].val \in 1..MaxVersion
<1>1. PICK i \in DOMAIN Leaves : Leaves[i].use = "signer"
  BY ConfigsAssumption DEF State, WorldTyped, Leaves
<1>2. inUse["signer"] # Unresolved
  BY <1>1 DEF Unread
<1>3. inUse["signer"].val \in 1..Len(secret[Leaves[i].ref]) /\ Leaves[i].ref \in Refs
  BY <1>1, <1>2, LeafFacts DEF State, SecretsSound, SecretsAge, Moments, WorldTyped
<1>4. Len(secret[Leaves[i].ref]) \in 1..MaxVersion
  BY <1>3 DEF State, WorldTyped
<1> QED
  BY <1>3, <1>4, Bounds

LEMMA ReadPublicStep == ASSUME State, ReadPublic PROVE State'
<1>0. /\ WorldTyped /\ SigningSound /\ phase = "public" /\ phase' = "self"
      /\ pinned' = IF config.backend = "azure" THEN remote ELSE 0
      /\ stated' = IF config.backend = "inmemory" THEN inUse["signer"].val ELSE remote
      /\ UNCHANGED <<config, now, world, launches, secrets, signed, tokens>>
  BY DEF State, ReadPublic
<1>1. WorldTyped'
  BY <1>0 DEF WorldTyped, world
<1>2. Unread = {} /\ Unread' = Unread /\ signed' = {}
  BY <1>0 DEF SigningSound, PublicIsSettled, Unread, Leaves, secrets
<1>3. remote \in 1..MaxVersion /\ remote' = remote /\ inUse' = inUse /\ config' = config
  BY <1>0 DEF WorldTyped, world, secrets
<1>4. config.backend = "inmemory" => inUse["signer"].val \in 1..MaxVersion
  BY <1>2, SignerIsResolved
<1>5. pinned' \in 0..MaxVersion /\ stated' \in 0..MaxVersion
  BY <1>0, <1>3, <1>4, Bounds
<1>6. PublicIsSettled'
  BY <1>0, <1>2, <1>3, Bounds DEF PublicIsSettled
<1>7. SigningSound'
  BY <1>2, <1>5, <1>6 DEF SigningSound, SignaturesBind, SignaturesVerify
<1> QED
  BY <1>0, <1>1, <1>7, SecretsStay, TokensStay DEF State, world

LEMMA SignStep ==
    ASSUME State, NEW from \in {"self", "serving"}, NEW to \in {"jwks", "serving"}, Sign(from, to),
           from = "serving" => to = "serving"
    PROVE  State'
<1>0. /\ WorldTyped /\ SigningSound /\ phase = from /\ phase' = to /\ signed' = signed \cup {SignsUnder}
      /\ UNCHANGED <<config, now, world, launches, secrets, pinned, stated, tokens>>
  BY DEF State, Sign
<1>1. WorldTyped'
  BY <1>0 DEF WorldTyped, world
<1>2. Unread = {} /\ Unread' = Unread
  BY <1>0 DEF SigningSound, PublicIsSettled, Unread, Leaves, secrets
<1>3. /\ remote \in 1..MaxVersion /\ remote' = remote /\ inUse' = inUse /\ config' = config
      /\ config.backend \in {"inmemory", "openbao", "azure"}
      /\ pinned' = pinned /\ stated' = stated
  BY <1>0, ConfigsAssumption DEF WorldTyped, world, secrets
<1>4. config.backend = "inmemory" => inUse["signer"].val \in 1..MaxVersion
  BY <1>2, SignerIsResolved
<1>5. /\ config.backend = "inmemory" => stated = inUse["signer"].val
      /\ config.backend = "azure" => stated = pinned /\ pinned > 0
      /\ config.backend = "openbao" => stated <= remote
      /\ pinned \in 0..MaxVersion /\ stated \in 0..MaxVersion
  BY <1>0 DEF SigningSound, PublicIsSettled
<1>6. /\ SignsUnder \in 1..MaxVersion
      /\ SignsUnder = stated \/ (config.backend = "openbao" /\ SignsUnder > stated)
  <2>1. CASE config.backend = "inmemory"
    BY <1>4, <1>5, <2>1 DEF SignsUnder
  <2>2. CASE config.backend = "azure"
    BY <1>5, <2>2, Bounds DEF SignsUnder
  <2>3. CASE config.backend = "openbao"
    BY <1>3, <1>5, <2>3, Bounds DEF SignsUnder
  <2> QED
    BY <1>3, <2>1, <2>2, <2>3
<1>7. PublicIsSettled'
  BY <1>0, <1>2, <1>3, <1>5 DEF PublicIsSettled
<1>8. SignaturesBind' /\ signed' \subseteq 1..MaxVersion
  BY <1>0, <1>3, <1>6 DEF SignaturesBind, SignaturesVerify, SigningSound
<1>9. SigningSound'
  BY <1>3, <1>5, <1>7, <1>8 DEF SigningSound
<1> QED
  BY <1>0, <1>1, <1>9, SecretsStay, TokensStay DEF State, world

-----------------------------------------------------------------------------
(* The key set.                                                            *)

LEMMA FetchStep == ASSUME State, Fetch \/ FetchFails PROVE State'
<1>0. /\ WorldTyped /\ TokensSound /\ phase \in {"jwks", "serving"}
      /\ UNCHANGED <<config, now, world, launches, phase, secrets, signing, keyset>>
      /\ fetching' \in {{}, {issuer}}
  BY DEF State, Fetch, FetchFails
<1>1. issuer \in [kids : SUBSET Kids, epoch : Nat] /\ issuer' = issuer
  BY <1>0, Bounds DEF WorldTyped, world
<1>2. TokensSound'
  BY <1>0, <1>1 DEF TokensSound, OneFetch
<1> QED
  BY <1>0, <1>2, SecretsStay, SigningStays DEF State, WorldTyped, world, secrets

LEMMA StoreStep == ASSUME State, Store PROVE State' /\ keyset'.epoch >= keyset.epoch
<1>0. /\ WorldTyped /\ TokensSound /\ SigningSound /\ phase' = "serving"
      /\ UNCHANGED <<config, now, world, launches, secrets, signing>>
  BY DEF State, Store
<1>1. PICK set \in fetching : keyset' = set /\ fetching' = fetching \ {set}
  BY DEF Store
<1>2. fetching' = {} /\ phase \in {"jwks", "serving"} /\ keyset.epoch <= set.epoch
  BY <1>0, <1>1 DEF TokensSound, OneFetch
<1>3. keyset' \in [kids : SUBSET Kids, epoch : Nat] /\ keyset'.epoch <= issuer'.epoch
  BY <1>0, <1>1 DEF TokensSound, world
<1>4. TokensSound'
  BY <1>2, <1>3 DEF TokensSound, OneFetch
<1>5. Unread' = Unread /\ inUse' = inUse /\ remote' = remote /\ config' = config
  BY <1>0 DEF Unread, Leaves, world, secrets
<1>6. SigningSound'
  BY <1>0, <1>2, <1>5 DEF SigningSound, PublicIsSettled, SignaturesBind, SignaturesVerify, signing
<1>7. WorldTyped'
  BY <1>0 DEF WorldTyped, world
<1>8. keyset.epoch \in Nat /\ set.epoch \in Nat
  BY <1>0, <1>1 DEF TokensSound
<1> QED
  BY <1>0, <1>1, <1>2, <1>4, <1>6, <1>7, <1>8, SecretsStay DEF State, world

-----------------------------------------------------------------------------
(* The theorems.                                                           *)

LEMMA StateStep == ASSUME State, [Next]_vars PROVE State'
<1>1. SignSelf => State'
  BY SignStep DEF SignSelf
<1>2. Merge => State'
  BY SignStep DEF Merge
<1>3. UNCHANGED vars => State'
  <2> SUFFICES ASSUME UNCHANGED vars PROVE State'
    OBVIOUS
  <2>1. WorldTyped'
    BY DEF vars, world, State, WorldTyped
  <2> QED
    BY <2>1, SecretsStay, SigningStays, TokensStay DEF vars, world, secrets, State
<1> QED
  BY <1>1, <1>2, <1>3, TickStep, RotateStep, RotateRemoteStep, PublishStep, LaunchStep, ExitStep,
     ServeCachedStep, AskVaultStep, StampStep, VaultFailsStep, ResolvedStep, ReadPublicStep, FetchStep, StoreStep DEF Next

LEMMA InitState == Init => State
<1> SUFFICES ASSUME Init PROVE State
  OBVIOUS
<1>1. WorldTyped
  <2>1. secret = [r \in Refs |-> <<1>>] /\ <<1>> \in Seq(1..MaxTime) /\ Len(<<1>>) = 1
    BY Bounds DEF Init
  <2>2. secret \in [Refs -> Seq(1..MaxTime)] /\ \A r \in Refs : Len(secret[r]) \in 1..MaxVersion
    BY <2>1, Bounds
  <2>3. issuer \in [kids : SUBSET Kids, epoch : 1..MaxEpoch]
    BY Bounds DEF Init
  <2>4. config \in Configs /\ now \in 1..MaxTime /\ remote \in 1..MaxVersion
        /\ launches \in 0..MaxLaunches /\ phase = "down"
    BY Bounds DEF Init
  <2> QED
    BY <2>2, <2>3, <2>4 DEF WorldTyped
<1>2. SecretsSound
  <2>0. /\ cache = << >> /\ inUse = [u \in Uses |-> Unresolved] /\ outages = {} /\ now = 1
        /\ since = 0 /\ reading = NotReading
        /\ secret = [r \in Refs |-> <<1>>] /\ DOMAIN cache = {}
    BY DEF Init
  <2>1. \A i \in DOMAIN Leaves : inUse[Leaves[i].use] = Unresolved
    BY <1>1, <2>0, LeafFacts DEF WorldTyped
  <2>2. SecretsTyped
    <3>1. Unresolved \in Taken /\ NotReading \in [val : 0..MaxVersion, at : 0..MaxTime]
      BY Bounds DEF Unresolved, NotReading, Taken
    <3> QED
      BY <2>0, <3>1, Bounds DEF SecretsTyped
  <2>3. Moments /\ CacheAges /\ AnswerAges
    <3>1. \A r \in Refs : \A v \in DOMAIN secret[r] : secret[r][v] <= now
      BY <2>0
    <3> QED
      BY <2>0, <2>1, <3>1 DEF Moments, CacheAges, AnswerAges, NotReading
  <2>4. StaleOnlyInOutage /\ LaunchTakesRotations
    BY <2>1 DEF StaleOnlyInOutage, LaunchTakesRotations, IsReplaced
  <2> QED
    BY <2>2, <2>3, <2>4 DEF SecretsSound, SecretsAge
<1>3. SigningSound
  BY Bounds DEF Init, SigningSound, PublicIsSettled, SignaturesBind, SignaturesVerify
<1>4. TokensSound
  <2>1. NoSet \in [kids : SUBSET Kids, epoch : Nat] /\ NoSet.epoch = 0
    BY DEF NoSet
  <2>2. issuer.epoch \in Nat
    BY <1>1, Bounds DEF WorldTyped
  <2> QED
    BY <2>1, <2>2 DEF Init, TokensSound, OneFetch
<1> QED
  BY <1>1, <1>2, <1>3, <1>4 DEF State

LEMMA Inductive == Spec => []IInv
<1>1. Init => IInv
  BY InitState, StateIs
<1>2. IInv /\ [Next]_vars => IInv'
  BY StateStep, StateIs, StateIsNext
<1> QED
  BY <1>1, <1>2, PTL DEF Spec

\* The keys of an instance and those it holds of others are well typed, through any
\* rotations and launches (config/section.go, adapters/signer, adapters/auth/jwt).
THEOREM TypeCorrect == Spec => []TypeOK
<1>1. IInv => TypeOK
  BY DEF IInv
<1> QED
  BY Inductive, <1>1, PTL

\* The secret cache gives out a value replaced TTL ago, and the time its answer took
\* besides, only where the vault fails (config/section.go).
THEOREM CacheExpires == Spec => []StaleOnlyInOutage
<1>1. IInv => StaleOnlyInOutage
  BY DEF IInv
<1> QED
  BY Inductive, <1>1, PTL

\* Whatever the vault does, a launch runs on no secret that was replaced before it began
\* (config/section.go).
THEOREM RotationsTakeEffect == Spec => []LaunchTakesRotations
<1>1. IInv => LaunchTakesRotations
  BY DEF IInv
<1> QED
  BY Inductive, <1>1, PTL

\* What a launch signs under a resolved key or a Key Vault key verifies under the public
\* half it states, whatever rotates in the meantime (adapters/signer).
THEOREM SignaturesHold == Spec => []SignaturesBind
<1>1. IInv => SignaturesBind
  BY DEF IInv
<1> QED
  BY Inductive, <1>1, PTL

\* A running instance never goes back to an older key set of its issuer's
\* (adapters/auth/jwt/jwks.go).
THEOREM KeySetsAdvance == Spec => KeySetMovesForward
<1> DEFINE Forward == phase' # "down" => keyset'.epoch >= keyset.epoch
<1>1. ASSUME IInv, [Next]_vars PROVE Forward
  <2>1. State /\ keyset.epoch \in Nat
    BY <1>1, StateIs DEF State, TokensSound
  <2>2. CASE keyset' = keyset
    BY <2>1, <2>2
  <2>3. CASE Store
    BY <2>1, <2>3, StoreStep
  <2>4. CASE Exit
    BY <2>4 DEF Exit
  <2> QED
    BY <1>1, <2>2, <2>3, <2>4
    DEF Next, Tick, RotateRemote, Rotate, Publish, Launch, ServeCached, AskVault, Stamp, VaultFails, Resolved, ReadPublic,
        SignSelf, Merge, Sign, Fetch, FetchFails, tokens, vars
<1> HIDE DEF Forward
<1> QED
  BY <1>1, Inductive, PTL DEF Spec, KeySetMovesForward, Forward

\* Whatever is configured and whatever keys are held, a request that presents a
\* credential is never taken for anonymous (rest_http/auth.go, adapters/auth).
THEOREM AnonymousIsBare == Spec => []AnonymousPresentsNothing
<1>1. ASSUME NEW rules, NEW claim PROVE account(rules, claim).by # "noauth"
  BY DEF account, accountByRule, Unauthenticated, PrincipalOf
<1>2. ASSUME NEW cred, cred.scheme \in {"bearer", "macaroon", "apikey"}, NEW kids, NEW val
      PROVE  Authenticate(config, val, kids, cred).by # "noauth"
  BY <1>1, <1>2
  DEF Authenticate, AuthenticateBy, AuthenticateJwt, AuthenticateMacaroon, AuthenticateKey,
      Unauthenticated, PrincipalOf
<1>3. ASSUME NEW request, CallerOf(request).by = "noauth"
      PROVE  request.authorization = Absent /\ request.apikey = Absent
  <2> DEFINE header == [scheme |-> IF request.authorization.word = "macaroon" THEN "macaroon" ELSE "bearer",
                        token |-> request.authorization.token]
             key == [scheme |-> "apikey", token |-> request.apikey]
  <2>1. header.scheme \in {"bearer", "macaroon", "apikey"} /\ key.scheme \in {"bearer", "macaroon", "apikey"}
    OBVIOUS
  <2> HIDE DEF header, key
  <2>2. Presented(request) = (IF request.authorization = Absent THEN << >> ELSE <<header>>)
                             \o (IF request.apikey = Absent THEN << >> ELSE <<key>>)
    BY DEF Presented, header, key
  <2>3. Ambiguous.by # "noauth"
    BY DEF Ambiguous
  <2>4. CASE request.authorization # Absent /\ request.apikey = Absent
    <3>1. Presented(request) = <<header>>
      BY <2>2, <2>4
    <3> QED
      BY <1>2, <1>3, <2>1, <3>1 DEF CallerOf, Caller
  <2>5. CASE request.authorization = Absent /\ request.apikey # Absent
    <3>1. Presented(request) = <<key>>
      BY <2>2, <2>5
    <3> QED
      BY <1>2, <1>3, <2>1, <3>1 DEF CallerOf, Caller
  <2>6. CASE request.authorization # Absent /\ request.apikey # Absent
    <3>1. Len(Presented(request)) = 2
      BY <2>2, <2>6
    <3> QED
      BY <1>3, <2>3, <3>1 DEF CallerOf, Caller
  <2> QED
    BY <2>4, <2>5, <2>6
<1>4. AnonymousPresentsNothing
  BY <1>3 DEF AnonymousPresentsNothing
<1> QED
  BY <1>4, PTL

-----------------------------------------------------------------------------
(* What of following the issuer is safety.                                  *)

\* A set as old as the issuer's is the issuer's: what is held or on its way was published.
Published == \A set \in fetching \cup {keyset} : set.epoch = issuer.epoch => set = issuer

LEMMA PublishedStep == ASSUME State, Published, [Next]_vars PROVE Published'
<1>0. /\ issuer \in [kids : SUBSET Kids, epoch : 1..MaxEpoch] /\ issuer.epoch \in Nat
      /\ \A set \in fetching \cup {keyset} : set.epoch \in Nat /\ set.epoch <= issuer.epoch
  BY Bounds DEF State, WorldTyped, TokensSound
<1>1. CASE \E k \in Kids : Publish(k)
  <2>1. issuer'.epoch = issuer.epoch + 1 /\ UNCHANGED tokens
    BY <1>1 DEF Publish
  <2> QED
    BY <1>0, <2>1 DEF Published, tokens
<1>2. CASE Fetch
  BY <1>2 DEF Fetch, Published, world
<1>3. CASE FetchFails
  BY <1>3 DEF FetchFails, Published, world
<1>4. CASE Store
  BY <1>4 DEF Store, Published, world
<1>5. CASE Exit
  <2>1. keyset' = NoSet /\ fetching' = {} /\ issuer' = issuer
    BY <1>5 DEF Exit, EmptyMemory, world
  <2> QED
    BY <1>0, <2>1 DEF NoSet, Published
<1>6. CASE UNCHANGED <<issuer, keyset, fetching>>
  BY <1>6 DEF Published
<1> QED
  BY <1>1, <1>2, <1>3, <1>4, <1>5, <1>6
  DEF Next, Tick, RotateRemote, Rotate, Launch, ServeCached, AskVault, Stamp, VaultFails, Resolved, ReadPublic, SignSelf, Merge,
      Sign, tokens, world, vars

LEMMA AlwaysPublished == Spec => [](State /\ Published)
<1>1. Init => State /\ Published
  <2>1. Init => issuer.epoch = 1 /\ keyset = NoSet /\ fetching = {}
    BY DEF Init
  <2> QED
    BY <2>1, InitState DEF Published, NoSet
<1>2. State /\ Published /\ [Next]_vars => State' /\ Published'
  BY StateStep, PublishedStep
<1> QED
  BY <1>1, <1>2, PTL DEF Spec

\* A set learnt is kept while the issuer's stands: no answer that was slow brings an older
\* one back (adapters/auth/jwt/jwks.go), and no launch but one that ended forgets it.
THEOREM LearntStays ==
    Spec => [][keyset = issuer /\ issuer' = issuer /\ phase' # "down" => keyset' = issuer]_vars
<1> DEFINE Kept == keyset = issuer /\ issuer' = issuer /\ phase' # "down" => keyset' = issuer
<1>1. ASSUME State, Published, [Next]_vars PROVE Kept
  <2>1. CASE Store
    <3>1. PICK set \in fetching : keyset' = set
      BY <2>1 DEF Store
    <3>2. keyset = issuer => set.epoch = issuer.epoch
      <4>1. /\ keyset.epoch <= set.epoch /\ set.epoch <= issuer.epoch
            /\ set.epoch \in Nat /\ keyset.epoch \in Nat
        BY <1>1 DEF State, TokensSound, OneFetch
      <4> QED
        BY <4>1
    <3> QED
      BY <1>1, <3>1, <3>2 DEF Published
  <2>2. CASE keyset' = keyset
    BY <2>2
  <2>3. CASE Exit
    BY <2>3 DEF Exit
  <2> QED
    BY <1>1, <2>1, <2>2, <2>3
    DEF Next, Tick, RotateRemote, Rotate, Publish, Launch, ServeCached, AskVault, Stamp, VaultFails, Resolved, ReadPublic,
        SignSelf, Merge, Sign, Fetch, FetchFails, tokens, vars
<1> HIDE DEF Kept
<1>2. State /\ Published /\ [Next]_vars => [Kept]_vars
  BY <1>1
<1>3. Spec => [][Kept]_vars
  BY <1>2, AlwaysPublished, PTL DEF Spec
<1> QED
  BY <1>3 DEF Kept

\* Whoever is let in by an issuer's token holds one under a key of the set the instance
\* has, and, once that is the issuer's, under a key the issuer still publishes: one
\* withdrawn lets nobody in (adapters/auth/jwt/jwt.go, jwks.go).
THEOREM WithdrawnKeysAdmitNobody ==
    Spec => [](config.jwks =>
                 \A request \in Requests : CallerOf(request).by = "jwt" =>
                   /\ request.authorization.token.kid \in keyset.kids
                   /\ keyset.epoch = issuer.epoch =>
                        request.authorization.token.kid \in issuer.kids)
<1> DEFINE Held == config.jwks =>
                 \A request \in Requests : CallerOf(request).by = "jwt" =>
                   /\ request.authorization.token.kid \in keyset.kids
                   /\ keyset.epoch = issuer.epoch =>
                        request.authorization.token.kid \in issuer.kids
<1>1. ASSUME NEW cred, NEW kids, NEW val, config.jwks, Authenticate(config, val, kids, cred).by = "jwt"
      PROVE  cred.scheme = "bearer" /\ cred.token.kid \in kids
  BY <1>1
  DEF Authenticate, AuthenticateBy, AuthenticateJwt, AuthenticateMacaroon, AuthenticateKey,
      Unauthenticated, PrincipalOf
<1>2. ASSUME NEW request, config.jwks, CallerOf(request).by = "jwt"
      PROVE  request.authorization.token.kid \in keyset.kids
  <2> DEFINE header == [scheme |-> IF request.authorization.word = "macaroon" THEN "macaroon" ELSE "bearer",
                        token |-> request.authorization.token]
             key == [scheme |-> "apikey", token |-> request.apikey]
  <2>1. header.token = request.authorization.token /\ key.scheme # "bearer"
    OBVIOUS
  <2> HIDE DEF header, key
  <2>2. Presented(request) = (IF request.authorization = Absent THEN << >> ELSE <<header>>)
                             \o (IF request.apikey = Absent THEN << >> ELSE <<key>>)
    BY DEF Presented, header, key
  <2>3. Ambiguous.by # "jwt" /\ NoCredential.scheme # "bearer"
    BY DEF Ambiguous, NoCredential
  <2>4. CASE request.authorization # Absent /\ request.apikey = Absent
    <3>1. Presented(request) = <<header>>
      BY <2>2, <2>4
    <3> QED
      BY <1>1, <1>2, <2>1, <3>1 DEF CallerOf, Caller
  <2>5. CASE request.authorization = Absent /\ request.apikey # Absent
    <3>1. Presented(request) = <<key>>
      BY <2>2, <2>5
    <3> QED
      BY <1>1, <1>2, <2>1, <3>1 DEF CallerOf, Caller
  <2>6. CASE request.authorization # Absent /\ request.apikey # Absent
    <3>1. Len(Presented(request)) = 2
      BY <2>2, <2>6
    <3> QED
      BY <1>2, <2>3, <3>1 DEF CallerOf, Caller
  <2>7. CASE request.authorization = Absent /\ request.apikey = Absent
    <3>1. Len(Presented(request)) = 0
      BY <2>2, <2>7
    <3> QED
      BY <1>1, <1>2, <2>3, <3>1 DEF CallerOf, Caller
  <2> QED
    BY <2>4, <2>5, <2>6, <2>7
<1>3. Published => Held
  BY <1>2 DEF Published
<1> HIDE DEF Held
<1>4. Spec => []Held
  BY <1>3, AlwaysPublished, PTL
<1> QED
  BY <1>4 DEF Held

=============================================================================
