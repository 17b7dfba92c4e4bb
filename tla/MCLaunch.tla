------------------------------ MODULE MCLaunch ------------------------------
(* A host with two processes: a configuration that serves, and others that  *)
(* each differ from it in one place.                                        *)
EXTENDS Launch, FiniteSetsExt, TLC

CONSTANTS a, b

MCNumbered(name, i) == name \o "-" \o ToString(i)

MCSizes == [four |-> [number |-> 4, unit |-> 0], wraps |-> [number |-> 4, unit |-> 2]]

MCCaps ==
    LET whole == [bookmarks |-> TRUE, tier |-> "authoritative", cap |-> 0]
    IN  [t \in {"fs", "sqlite", "mem", "minimal", "s3", "azure", "redis"} |-> whole]
            @@ [neo4j |-> [bookmarks |-> FALSE, tier |-> "background", cap |-> 0]]

MCAddrs ==
    LET at(network, path) == [network |-> network, path |-> path, fits |-> TRUE, bare |-> FALSE]
    IN  (":8080"        :> at("tcp", "8080"))
     @@ ("unix://sock"  :> at("unix", "sock"))
     @@ ("unix://notes" :> at("unix", "notes"))
     @@ ("unix://"      :> at("unix", ""))
     @@ ("unix://long"  :> [at("unix", "long") EXCEPT !.fits = FALSE])
     @@ ("/sock"        :> [at("tcp", "/sock") EXCEPT !.bare = TRUE])

Leaf(keys) == [keys |-> keys, parts |-> << >>]
Type(t) == "type" :> t

File == Leaf(Type("sqlite") @@ "dsn" :> "db")
Cache == Leaf(Type("neo4j") @@ "uri" :> "graph" @@ "mode" :> "background")
Stack(layers) == [keys |-> Type("stack"), parts |-> layers]
Shards(parts) == [keys |-> Type("partition"), parts |-> parts]

Storages == {
    Empty, File, Cache, Leaf(Type("tape")), Leaf(Type("unresolved")),
    Stack(<<Cache, File>>), Stack(<<Cache>>), Stack(<< >>),
    Stack(<<Leaf(Type("mem") @@ "mode" :> "eager"), File>>),
    Stack(<<Leaf(Type("mem") @@ "maxContentSize" :> "wraps"), File>>),
    Stack(<<Leaf(Type("mem") @@ "maxContentSize" :> "four"), File>>),
    Stack(<<Leaf(Type("mem") @@ "noReadFill" :> "true"), File>>),
    Shards(<<File, Leaf(Type("fs") @@ "dir" :> "d")>>), Shards(<<File, Cache>>),
    Leaf(Type("s3") @@ "bucket" :> "b" @@ "region" :> "r" @@ "accessKeyId" :> "unresolved"),
    Leaf(Type("azure") @@ "container" :> "c" @@ "url" :> "u" @@ "accountKey" :> "k"),
    Leaf(Type("redis") @@ "addr" :> "a" @@ "db" :> "first") }

Signer == Leaf(Type("inmemory") @@ "key" :> "ed25519")
Signers == {
    Empty, Signer, Leaf(Type("inmemory") @@ "key" :> "rsa"),
    Leaf(Type("openbao") @@ "address" :> "a" @@ "token" :> "t"),
    Leaf(Type("azure") @@ "url" :> "u" @@ "key" :> "k" @@ "secret" :> "s"),
    Leaf(Type("azure") @@ "url" :> "u" @@ "secret" :> "unresolved") }

Founding == Leaf("pubkey" :> "pem" @@ "branch" :> "main")
Sequencer(keys, found) == [keys |-> keys, parts |-> found]
Concurrent == Type("concurrent") @@ "seed" :> "archive"
Sequencers == {
    Empty, Sequencer(Concurrent, <<Founding>>), Sequencer(Concurrent, << >>),
    Sequencer(Concurrent, <<Leaf("pubkey" :> "pem")>>),
    Sequencer(Concurrent @@ "bookmark" :> "archive", <<Founding>>),
    Sequencer(Type("concurrent"), <<Founding>>),
    Sequencer(Type("concurrent") @@ "bookmark" :> "archive", << >>),
    Sequencer(Type("dev") @@ "seed" :> "archive", <<Founding>>) }

Auths == {
    Leaf(Type("noauth")), Leaf(Type("macaroon")), Leaf(Type("apikey")),
    [keys |-> Type("apikey"), parts |-> <<Leaf("account" :> "a" @@ "sha256" :> "digest")>>],
    Leaf(Type("jwt") @@ "algorithm" :> "HS256" @@ "jwks_url" :> "answers" @@ "jwks_refresh" :> "zero"),
    Leaf(Type("jwt") @@ "algorithm" :> "HS256" @@ "jwks_url" :> "answers" @@ "key" :> "public") }

Rest(addr) == Leaf(Type("rest") @@ "addr" :> addr)
Endpoint(transport, auths) ==
    [transport |-> transport, byRef |-> FALSE, auth |-> auths, admit |-> {"clerk"}]
OverSocket == Endpoint(Rest("unix://sock"), <<Leaf(Type("noauth"))>>)
OverPort == Endpoint(Leaf(Type("rest")), << >>)

OneEndpoint ==
       {Endpoint(Rest(addr), << >>) : addr \in DOMAIN MCAddrs}
    \union {Endpoint(Leaf(Type(t)), << >>) : t \in {"mcp", ""}}
    \union {Endpoint(Rest("unix://sock"), <<auth>>) : auth \in Auths}
    \union {Endpoint(Rest("unix://sock"), <<Leaf(Type("noauth")), Leaf(Type("noauth"))>>),
            Endpoint(Leaf(Type("rest") @@ "addr" :> "unix://sock" @@ "mode" :> "decimal"), << >>),
            [Endpoint(Rest("/sock"), << >>) EXCEPT !.byRef = TRUE],
            [OverSocket EXCEPT !.admit = {"stranger"}]}

Good == [wellFormed |-> TRUE, accounts |-> [clerk |-> TRUE], storage |-> File,
         signer |-> Signer, sequencer |-> Sequencer(Concurrent, <<Founding>>),
         endpoints |-> <<OverSocket, OverPort>>]

Configs ==
       {[Good EXCEPT !.storage = d] : d \in Storages}
    \union {[Good EXCEPT !.signer = d] : d \in Signers}
    \union {[Good EXCEPT !.sequencer = d] : d \in Sequencers}
    \union {[Good EXCEPT !.endpoints = <<e>>] : e \in OneEndpoint}
    \union {[Good EXCEPT !.endpoints = << >>], [Good EXCEPT !.wellFormed = FALSE],
            [Good EXCEPT !.accounts = [clerk |-> FALSE]]}

Run(c) == [cmd |-> "run", level |-> "none", dev |-> FALSE, input |-> "file", ageKey |-> "none",
           sealed |-> FALSE, pass |-> "unread", pubkey |-> "unread", cfg |-> c]

Steered == [Good EXCEPT !.sequencer = Sequencer(Type("dev") @@ "seed" :> "archive", <<Founding>>)]

Lines ==
       {Run(c) : c \in Configs}
    \union {[Run(c) EXCEPT !.dev = TRUE] : c \in {Good, Steered}}
    \union {[Run(Good) EXCEPT !.cmd = "found", !.pubkey = k] : k \in {"pem", "unread", "other"}}
    \union {[Run(Good) EXCEPT !.cmd = "verify", !.level = l] : l \in {"syntax", "resolve", "connect"}}
    \union {[Run(Good) EXCEPT !.sealed = TRUE, !.ageKey = k, !.pass = w] :
               k \in {"none", "stdin", "other"}, w \in {"right", "wrong"}}
    \union {[Run(Good) EXCEPT !.input = i, !.ageKey = "stdin"] : i \in {"missing", "stdin"}}

Listed == FoldSet(LAMBDA line, jobs : Append(jobs, line), << >>, Lines)

\* The launches that meet: two that serve one socket, a founding and a check.
Meeting ==
    {Run([Good EXCEPT !.endpoints = <<OverSocket>>]),
     [Run(Good) EXCEPT !.cmd = "found", !.pubkey = "pem"],
     [Run(Good) EXCEPT !.cmd = "verify", !.level = "connect"]}

MCJobs == [i \in 1 .. Cardinality(Lines) |-> Listed[i]]

MCRivals == {i \in DOMAIN MCJobs : MCJobs[i] \in Meeting}

\* A process that is gone leaves no trace of which it was: one of them starts every job.
MCGiven == (a :> DOMAIN MCJobs) @@ (b :> MCRivals)
MCGivenRivals == (a :> MCRivals) @@ (b :> MCRivals)

Parts(D) == UNION {{d.parts[i] : i \in DOMAIN d.parts} : d \in D}
MCTree ==
    LET top == Storages \union Signers \union Sequencers \union Auths
                   \union {e.transport : e \in OneEndpoint \union {OverSocket, OverPort}}
    IN  top \union Parts(top)
=============================================================================
