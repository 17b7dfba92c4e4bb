----------------------------- MODULE StorageTree -----------------------------
(***************************************************************************)
(* The storage a configuration describes (adapters/storage): a descriptor  *)
(* is a leaf backend, a stack of layers or a partition of shards; building *)
(* it yields a universe with capabilities, or an error.  A backend is its  *)
(* capabilities (Caps, of ranke-go's adapters) and the keys it reads.      *)
(***************************************************************************)
EXTENDS Sections

CONSTANTS
    Caps,       \* backend type -> [bookmarks, tier, cap] of the universe it builds
    Sizes,      \* the sizes that parse -> [number, unit], unit the exponent of 2
    Width,      \* bits of a size: 64 in the code
    Numbered(_, _)  \* the text of a name and a position

typeOf(d) == Value(d, "type", "")

-----------------------------------------------------------------------------
(* The leaves: the keys each must have, and may have.                      *)

buildRedis(d) ==
    /\ Get(d, "addr")
    /\ GetIfThere(d, "password")
    /\ HasValue(d, "db") => d.keys["db"] = "number"

buildS3(d) ==
    /\ \A key \in {"bucket", "region", "accessKeyId", "secretAccessKey"} : Get(d, key)
    /\ \A key \in {"endpoint", "usePathStyle"} : GetIfThere(d, key)

\* A connection string, a shared key over the url, or the ambient identity.
blobClient(d) ==
    IF HasValue(d, "connectionString") THEN Get(d, "connectionString")
    ELSE /\ Get(d, "url")
         /\ HasValue(d, "accountKey") => Get(d, "accountName") /\ Get(d, "accountKey")

buildAzure(d) ==
    /\ Get(d, "container")
    /\ blobClient(d)
    /\ HasValue(d, "concurrency") => d.keys["concurrency"] = "number"
    /\ GetIfThere(d, "readOnly")

buildNeo4j(d) ==
    /\ Get(d, "uri")
    /\ HasValue(d, "username") \/ HasValue(d, "password") => Get(d, "username") /\ Get(d, "password")
    /\ GetIfThere(d, "database")

BuildsLeaf(d) ==
    CASE typeOf(d) = "fs"     -> Get(d, "dir")
      [] typeOf(d) = "sqlite" -> Get(d, "dsn")
      [] typeOf(d) \in {"mem", "minimal"} -> TRUE
      [] typeOf(d) = "s3"     -> buildS3(d)
      [] typeOf(d) = "azure"  -> buildAzure(d)
      [] typeOf(d) = "redis"  -> buildRedis(d)
      [] typeOf(d) = "neo4j"  -> buildNeo4j(d)
      [] OTHER -> FALSE

-----------------------------------------------------------------------------
(* A layer's wishes against what its universe reports.                     *)

\* A size is a number and a unit's exponent, 2^10 for "kb"; the product wraps.
parseSize(raw) == (Sizes[raw].number * 2 ^ Sizes[raw].unit) % 2 ^ Width

Tiers == {"authoritative", "eager", "background", "lazy"}

checkLayer(d, caps) ==
    /\ HasValue(d, "mode") => d.keys["mode"] \in Tiers /\ d.keys["mode"] = caps.tier
    /\ HasValue(d, "maxContentSize") =>
          /\ d.keys["maxContentSize"] \in DOMAIN Sizes
          /\ parseSize(d.keys["maxContentSize"]) = caps.cap
    /\ HasValue(d, "noReadFill") => d.keys["noReadFill"] \notin {"unresolved", "true"}

Failed == [bookmarks |-> FALSE, tier |-> "none", cap |-> 0]

\* What stack.NewStack and partition.NewPartition report of what they hold.
StackCaps(built) ==
    [bookmarks |-> \E i \in DOMAIN built : built[i].tier = "authoritative" /\ built[i].bookmarks,
     tier |-> "authoritative", cap |-> 0]
PartitionCaps(built) ==
    [bookmarks |-> \A i \in DOMAIN built : built[i].bookmarks, tier |-> "authoritative", cap |-> 0]

\* A stack of layers that keep their promises, or a partition of bare shards.
build[d \in Tree] ==
    LET built == [i \in DOMAIN d.parts |-> build[d.parts[i]]]
        whole == d.parts # << >> /\ \A i \in DOMAIN built : built[i] # Failed
    IN  CASE typeOf(d) = "stack" ->
               IF whole /\ \A i \in DOMAIN built : checkLayer(d.parts[i], built[i])
               THEN StackCaps(built) ELSE Failed
          [] typeOf(d) = "partition" -> IF whole THEN PartitionCaps(built) ELSE Failed
          [] OTHER -> IF BuildsLeaf(d) THEN Caps[typeOf(d)] ELSE Failed

CheckBookmarks(d) == build[d].bookmarks

-----------------------------------------------------------------------------
(* What introspection reports: one layer per part of a composite, or the   *)
(* leaf itself, by its name or else its type.                              *)

Described(d) == IF typeOf(d) \in {"stack", "partition"} THEN d.parts ELSE <<d>>

Describes(d) == \A i \in DOMAIN Described(d) :
    GetIfThere(Described(d)[i], "type") /\ GetIfThere(Described(d)[i], "name")

\* A repeated name takes its position.
distinct(names) ==
    [i \in DOMAIN names |->
        IF \E j \in DOMAIN names : j # i /\ names[j] = names[i]
        THEN Numbered(names[i], i - 1) ELSE names[i]]

Describe(d) ==
    distinct([i \in DOMAIN Described(d) |->
        Value(Described(d)[i], "name", typeOf(Described(d)[i]))])
=============================================================================
