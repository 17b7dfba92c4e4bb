# Ranke DB: a TLA+ verification project

This directory holds the formal models of Ranke DB kept beside its code: TLA+
modules translated from the source, TLC configurations that check them on small
instances, and theorems that TLAPS proves for every value of the constants.
Paths are relative to the repository.

Run `tlc -config X.cfg M` for the runs listed below and `tlapm M_proofs.tla` for
the proofs. `PROJECT.json` maps every definition to the lines it models.

## The system

Ranke DB is a server over the `ranke-go` library, which keeps an append-only,
content-addressed graph of signed claims. A *branch table* names the branches of
an archive; through its head each branch holds a closure of claims. A merge makes
the next table and bookmarks it. Every endpoint feeds one pipeline: authenticate,
authorize, execute. A Go client library, two commands and a browser explorer use
the same API. One launch artifact says which storage, signer, sequencer and
endpoints a process is built of.

### Inventory

| Component | State it keeps | Operations | What it talks to | Modules |
|---|---|---|---|---|
| Contribution pipeline, `internal/core/execute.go` | none between requests; each request its snapshots and constraints | the contribute arm | `access` for every right, the sequencer for snapshots and merges, storage through the contribution | `Contribution` |
| Access policy, `internal/core/access`, `core.allow` | grants per account, caveats per token | parse a grant, decide a right on a scope, attenuate a token | called by the pipeline; principals come from `adapters/auth` | `Access`, `AccessPolicy` |
| Verification registry, `internal/core/verification.go` | reports, their order, an id counter, a walk per run | start, stop, remove, collect, get, list | the library's walk handle; one goroutine per run | `VerificationRegistry` |
| Requests and answers: `internal/core/{request,domain,stream,serve}.go`, `adapters/endpoints/rest_http`, `client`, `openapi` | one request and its answer | build, route, decode, authorise, execute, frame, answer, revalidate, read back, retry | a network and a proxy in between | `HttpContract`, `ResultRecords`, `Exchange`, `RemoteCall` |
| Contributor keys, `client/contributor*.go`, `cmd/ranke-client/{contributor,branch}` | none; the branch holds the registrations | a key's window; create a branch, add a key, list keys, find the live registration | two or three requests each, over a branch others write | `ContributorWindow`, `Contributors` |
| Configuration and server command, `config`, `cmd/ranke-db` | the artifact, the assembled stack, a signal | verify, found, run, serve, shut down | every adapter it builds; the store and the host's addresses, shared with other processes | `Sections`, `LaunchConfig`, `Launch` |
| Storage composition, `adapters/storage` | a tree of layers, fixed at launch | build, check layers, describe, check bookmarks | library universes | `StorageTree` |
| Sequencer and clock, `adapters/sequencer` | the bookmark list (library), a steerable instant | new, found, now, advance | storage, signer | `LaunchConfig`, `Exchange` |
| Vaults and the secret cache, `adapters/vault`, `config/section.go` | values with the instant they run out | resolve a leaf | a vault | `Identity` |
| Signers, `adapters/signer` | the key, or its name and version | public half, sign | a vault's key service | `Identity` |
| Authenticators, `adapters/auth` | keys, a refreshed key set (jwt) | extract, dispatch by scheme, authenticate, refresh | an issuer's key set | `Authenticators`, `Identity` |
| Explorer session and graph, `frontend/src/core` | the union graph, recorded memberships, tabs, the overlay, scopes | load, select, discover, provenance, relayout, clear | a source per connection; yields to the paint between batches | `GraphUnion`, `ExplorerSession` |
| Explorer data, layout and rendering; load generator; client command | caches, positions, the camera | read, lay out, draw | the session, the API | not modelled |

### What is hard, and what must hold

*Contributions.* A request resolves one snapshot in `execute`, a second in
`contribute`, and the library opens the contribution on the head of a third
moment; the merge goes onto the head of a fourth. The grants are expanded over
the second and enforced at the third and the fourth. Must hold: what was merged
is what the principal may do to the archive it was merged onto; a success means
the claims are on their branches, a refusal that blames the caller that none is,
then or later; no head reaches a claim that is not stored, whatever was
interrupted; every request ends.

*Access.* Wildcards must not reach the reserved scopes; a caveat may only
narrow. These hold or fail over combinations of grants nobody writes a test for.

*Registry.* The mutex is released between the limit check and the registration,
and before a cancellation. Starts race starts, stops and deletes race the end of
the walk. Must hold: no walk goes on that nobody can end; a report says complete
only of a whole walk; reports are final; a deleted run stays deleted; no more walks go
on than the limit; the listing names what is retained.

*Requests and answers.* A call passes the client's builder, two generated
halves, the handlers and core before anything is decided, and the answer may be
cut, lost, replaced by a proxy's or revalidated later. Must hold: what ran is
what was asked, and for those granted it; what the caller is told is what was
decided; a cut stream is not read as a shorter whole one; a 304 leaves standing what was
just read; a call under the transport's timeout ends.

*Contributor keys.* The commands read a branch in two requests and then send a
claim, and others write in between; expiries land in any order. Must hold: a
window never grows; a listing of no single instant errs on neither side; a
refusal is true of what was read, and what a command reports is so of the
branch as it has become.

*Launch.* Two processes share one store and the host's socket paths; an
endpoint that fails, a signal and the end of the others race in one channel. Must
hold: what serves is a whole stack over an archive that exists; an archive is
founded once, and never by a check; once it serves, a stack comes up or ends,
and a failure or a signal takes the process down.

*Keys.* Secrets rotate under a cache that serves stale values in an outage, a vault's
answer is stamped when it arrives, the
signing key under a public half read once, the issuer's set under a background
refresh. Must hold: what is stale is so for a reason and for a bounded time; a
signature verifies under what the launch stated; a key withdrawn stops letting
tokens in; what is refused is never served as anonymous.

*Explorer.* Every task yields between batches while the reader starts others,
clears, changes tab or limit. Must hold: every reference read ends up drawn once
both ends are read; the overlay ends with the work; the choice is a scope the
listing holds; a membership known whole is not replaced by a part.

`PROJECT.json` lists each hazard at its line, with the properties about it, or
why there is none.

## The modules

| Module | Models |
|---|---|
| `Access` | grants, globs, reserved scopes and the decision (`access.go`), as operators |
| `AccessPolicy` | a configuration's accounts and tokens, from the written spec to what is honoured, as operators |
| `BranchTables` | bodies, branch tables, what a merge folds in and what closing a contribution imports: the library as `execute.go` uses it |
| `Contribution` | the contribute arm, many requests, one action per call |
| `AuthorisedArchive` | the abstract promise: atomic, permitted merges and true answers |
| `VerificationRegistry` | the registry, one action per critical section |
| `RunLifecycle` | the abstract promise: what a run goes through |
| `HttpContract` | what the generated client sends, the generated server routes, and the client decodes, as tables and operators |
| `ResultRecords` | the kind of a result, its form on the wire and the kind read off that form |
| `Exchange` | one call end to end, with its network and its proxy |
| `RemoteCall` | the abstract promise: run once at most, as what was asked, and heard as what came of it |
| `ContributorWindow` | the window of a key, computed and as it is meant |
| `Contributors` | the commands about keys against a branch others write, one action per request |
| `Sections` | a section of the artifact, and reading its leaves |
| `StorageTree` | the universe a storage section builds, its checks and its description |
| `LaunchConfig` | what each adapter's factory refuses, as operators |
| `Launch` | processes that check, found and serve; their endpoints' goroutines |
| `Service` | the abstract promise: what a command leaves behind and what its exit says |
| `Authenticators` | who a request is taken for, as operators |
| `Identity` | one instance launched again and again while its keys rotate |
| `GraphUnion` | a merge into the explorer's graph, as operators |
| `ExplorerSession` | the explorer's tasks, one action per stretch between two yields |
| `MC...` | instances for TLC |
| `..._proofs` | theorems |

`Contribution` EXTENDS `BranchTables` EXTENDS `Access`, so the pipeline decides
with the very operators that `AccessPolicy` studies; `Launch` EXTENDS
`LaunchConfig` EXTENDS `StorageTree` EXTENDS `Sections`. `Contribution` and
`VerificationRegistry` are related by INSTANCE to their abstract specifications.

### Contribution and the code

`Open` is `execute` up to the arm, `Declare` the reading of the header and the
second snapshot, `Authorise` the right C on each branch and the narrowing
(`readableScopes`, `creatableBranches`, `liftedTypes`), `NewContribution`,
`AddWire`, `CompleteAndVerify`, `Persist` and `Merge` the library's calls in the
code's order, `Answer` the receipt. `PersistClaim` writes one claim, because the
process may stop in between. `Merge` takes a set of requests: one for the dev
sequencer, a batch for the concurrent one. `StackFault` fails any call, with the
category its place in the code gives it; `Disconnect` and `Restart` end requests
without an answer and leave `tables` and `stored`. `Resolve` is the snapshot of
`execute`, which the contribute arm does not read but which may fail. A call of the
library fails in each of the ways `mapLibError` tells apart, and `Merge` may fail
after its head advanced: the claims are in and the caller hears of a fault.
The claims' content, the wire
format, the engine's rules of a claim (one boolean, `sound`) and the pruning of
redundant heads are abstracted. The library's behaviour is that which its
callers in `execute.go` rely on, and is marked external in the map.

### Registry and the code

`start` is `Reserve` (first critical section), `Verify` or `VerifyFails`,
`Register` (second one); `stop` and `remove` are `StopRun` and `RemoveRun`
followed, outside the lock, by `Cancel`; `Collect` is the goroutine after
`Wait`. The walk is external: it verifies claims, finds failures, ends, faults, or is
cancelled. `get` and `list` are state functions.

### Exchange and the code

`HttpContract` is the contract as both generated halves have it: a request is a
method and a path of segments, `RoutesOf` the routes it matches, `Arguments` what
the wrapper binds, `Decoders` which statuses the client's parser decodes. A
function of the client is a name (`OneRoute`, `OperationOf`); `Call` sends what
it builds. `Request` is any other caller, who may send several credentials, a
malformed body or id, and, in `Revalidate`, an If-None-Match.

An If-None-Match is a list of validators or `*` (`matches`). A request its client
gave up, or a proxy answered, may still run (`LateRun`), once the caller has been
told; a poll `WaitReady` has left for the next, or a call the caller has forgotten,
is not followed further.

`RefuseEarly` is `withCredential` and the handlers' own decoding; `Handle` is
the handler of the route found and `Executes` its `core.Handle`: authenticate, authorise, one outcome out of
those the operation's arm can return (what it does is the other modules'
matter), and the head of the answer (`respond`, `respondImmutable`,
`respondRevalidated`, `writeError`). A query or a blob then streams
(`WriteResult`, `EndStream`); `FailStream` is an error `respond` drops, `Cut` a
broken connection. `Intercept` and `GatewayTimeout` are a proxy's answers.
`Deliver` is what the client makes of an answer (`Read`: `errors.go`, the
generated parsers, `seq.go`, `read.go`, `dev.go`); `Return` is the end of a call,
or `WaitReady`'s next poll. `AskedIsRun` and the others compare `told`, `decided`
and `ask`. Left out: CORS, the explorer's files, request parsing beyond formed or
malformed, the fields of a value (a moving value is its version).

### Contributors and the code

`CreateReads`, `AddReads`, `AddAttributes`, `ListReads`, `ForReads`,
`ListReports`, `ForChooses` are the commands' requests in the code's order; `Send`
contributes, with an answer that may be lost, `Unsent` fails before. `Found`,
`Register` and `Expire` are what others contribute, accepted by ranke-go's rule
that a signer's window admits the claim's date. `WindowsOf` folds the expiry edges
as `ContributorWindows` does; `LiveAt` says without computing what a window
means. Claims are named by the place they landed in, so instants within a tick
differ; ties in "oldest first" are broken by arrival; client and server read one
clock; there is one branch.

### Launch and the code

A job is a command line with its configuration; a configuration's sections are
`Sections` records whose leaves already stand for what they resolve to. `Decode`
... `BuildEndpoints` are `config.build` in its order, each with every check of
the factory it calls (`LaunchConfig`, `StorageTree`); `foundIfConfigured`,
`Found`, `ReadsFounded` and `requireServing` follow: the read of the archive just
founded may fail, or the process be killed, so `found` may exit 1 though the
archive is there. (A `seq.Found` that fails after its own merge shows as
that.) `Stat` may fail on any path. `Stat`, `Dial`, `Unlink`, `Listen`, `Chmod` and
`Accept` are the steps of `Serve` over a socket's path, in a goroutine per
endpoint; `Send` and `Receive` are `errc`, `Shutdown` the cancelled context,
`Finish` the wait and the exit. A killed process leaves its socket files and what
it founded. Assumed: all processes run as one user, and a dial reaches whoever
listens; all jobs name one durable store; the library refuses a second founding
(`openspec/specs/adapter-sequencer/spec.md:42`). An empty array is a section
without parts. A size is a number and a unit whose product wraps at `Width` bits.

### Identity and the code

A launch resolves its secret leaves in order through the cache (`ServeCached`, `AskVault`, `Stamp` and
`VaultFails`: `vaultBox.secret`, whose answer may be on its way while the secret
rotates and is stamped when it arrives), reads the signer's public half (`ReadPublic`), signs its contributor
claim (`SignSelf`), fetches the key set and serves: `Merge` signs under
`SignsUnder`, `Fetch`, `FetchFails` and `Store` are the refresh loop. `Rotate`,
`RotateRemote` and `Publish` are the world; `Exit` empties the memory. A version
stands for a secret's or a key's bytes. `Authenticators` is who a request is
taken for: `Presented` the headers, `Authenticate` the dispatch by scheme and one
operator per backend.

### Explorer and the code

A task's `pc` names the await it is at. `Fetch` ... `Frame` are `load`;
`MergeNodes`, `MergeTurns` and `MergeEdges` are `addClaimsProgressively`, where
the turn from claims to references has no yield and so is one action;
`SelectScope`, `IdsAnswer` and `IdsFail` are `selectScope`; `Discover...` are
`discoverScopes`; `OpenProvenance`, `Closure...`, `LoadMore` and `Fill` are
`openClaimProvenance`, `readProvenance` and `loadMore`. `busy` and `shown` are
the two facts of the status line that other code branches on. A source lists its
branches, with or without `$archive`, whose head is the branch table's, and answers
a scope's claims in its own order, cut at the limit. A tab is a graph or a claim's
CBOR (`OpenCbor`); with the second in front there is no active view, and
`EnsureView` brings the last graph forward. Left out: positions, notices, history,
panes, what a CBOR tab shows, and the removal of a connection.

## The runs

| Run | Shows | Result |
|---|---|---|
| `contribution` | `ImplementsArchive` (refinement of `AuthorisedArchive`), `IInv`, `AnswersAreTrue`, `HeadIsPersisted`, `ReservedByNameOnly`, `AttenuationNarrows` | holds |
| `registry` | `IInv`, `OrderIsRetained`, `CompleteMeansWhole`, `ReportsAreFinal`, `ImplementsLifecycle` (refinement of `RunLifecycle`), `RunsSettle`, `StoppedRunsReport`, `NoOrphanWalks` | holds |
| `registry_limit` | two starts pass the check of the limit, and two walks go on where one is the limit (`verification.go:68` against `core.go:128`) | violated |
| `exchange_answers` | `AskedIsRun`, `ImplementsRemoteCall` (refinement of `RemoteCall`), `ReadsAreGranted`, `ResultsReadBack`, `RevalidatedIsCurrent`, `CallsEnd` | holds |
| `exchange_caching` | a blob cut by its store ends as a whole 200 under an immutable validator, and a 304 keeps it (`respond.go:25` against `:84`) | violated |
| `contributors` | `ListingIsBetween`, `RefusalIsTrue`, `ReportsAreTrue`, `WindowsOnlyShrink` | holds |
| `contributors_successor` | `ContributorFor` gives a registration a successor has retired (`contributor.go:65` against `:78`) | violated |
| `launch` | `ServingIsWhole`, `ImplementsService` (refinement of `Service`), `ServingSettles`, `FailureTakesDown`, `SignalStops` | holds |
| `launch_socket` | two starters over a dead socket: one removes the other's live one (`rest_http.go:228` against `:215`) | violated |
| `identity` | `StaleOnlyInOutage`, `LaunchTakesRotations`, `SignaturesBind`, `AnonymousPresentsNothing`, `KeySetMovesForward`, `KeysFollowIssuer` | holds |
| `identity_transit` | a Transit key rotates, and merges no longer verify under the public half stated (`openbao.go:81` against `openspec/specs/adapter-signer/spec.md:18`) | violated |
| `explorer_session` | `DrawnWhenRead`, `IdleIsNotBusy`, `SelectedIsListed`, `WholeStaysWhole` | holds |

A violated run checks one property, which says what a comment or a specification
of the repository says; `PROJECT.json` quotes both under `findings`.

What some of these do not say.
`ResultsReadBack` detects the cut of a query that was to end with a report; without
one a cut stream reads as a shorter one, as in the code. `DrawnWhenRead` does not
say that a node drawn is of a claim the graph still holds: a clearing amid a merge
leaves some (`build.ts:346`). `IdleIsNotBusy` has one direction: the overlay may go
while another task works. `SelectedIsListed` ties the choice to the listing
shown, which may be an earlier source's. `WholeStaysWhole` does not exclude that a
part is recorded as the whole when the limit is raised amid a read.

### Bounds, and why they are enough

*Contribution*: two requests, each with any of nine bodies and three principals; two
branches; four claims. One request moving the archive under another is every race the
pipeline has, since a request reads nothing of another but the table. Each defect
(undeclared branch, missing branch, unreadable reference, reserved type, rule
broken) is reachable by some body. Nothing else is bounded: a request is made once.
The principals are those of eight tokens whose account and caveats parse: who may
do all, who reads all and enters no branch (by a letter cut to the byte of `C`), and
one under two caveats that overlap in one branch; the other five break each a rule of
the parser. What holds of all specs is proved (`AccessPolicy_proofs`).

*Registry*: `MaxStarts` ids, `Operators` concurrent requests, `Claims` per walk,
`MaxActive` slots. Two operators, one slot and two ids let a start race a start,
a stop race a delete, and either race a start of another run.

*Exchange*: one Go client and one other caller, one call open at a time
(`MaxCallers`), since calls share nothing but the archive, which `Moves` moves
under a call as any other would; two results and a route of two claims, so that a
stream has a middle; two versions, so that a value differs from the one held, and a
list of validators holds both; two polls.

*Contributors*: two keys, one command, three claims that others contribute and
two instants. A command shares nothing with another but the branch, and whatever
another would contribute is among `Found`, `Register` and `Expire`: one command is
therefore enough, and the same properties were also found to hold for two (4
million states). Three claims are a registration, its successor and an expiry.

*Launch*: sixty-odd command lines, each differing from one that serves in one place, so
that every refusal of every factory is met; one process runs any of them, alone;
the three that can meet (a serving one over a socket, a founding and a check) run
side by side in two processes. Two launches suffice for what holds, a third leaves
behind the dead socket of `launch_socket`. `Width` is 4 bits, so that a size wraps.

*Identity*: an in-memory signer with four leaves over two secrets (one read three
times), a Transit key and a Key Vault key beside an issuer's set, and between them every
scheme; two versions, four instants and a `TTL` of two, so that a value runs out, is
replaced, and both; two launches; three epochs of the issuer's set, so that a key
is published and withdrawn.

*Explorer*: three claims in a chain with a shortcut, delivered newest first, so a
capped read always lacks a target; the top one is the branch table, so that the
archive's scope is larger than any branch's; two sources, one with a sole branch
(which is selected by itself); limits below and above the size of the closure;
`MaxStarts` actions of the reader and `MaxViews` tabs, two tasks at once. A batch
is one claim, where the code's is 4000: a larger batch only removes
interleavings.

`CHECK_DEADLOCK FALSE` is set where the bounds, or the end of all requests, let
the system stop.

### Fairness

*Registry*: weak fairness of the rest of a request that has begun, of a
collector whose walk has ended, and of a cancelled walk. No walk is assumed to end
by itself: `RunsSettle` therefore excepts a walk that hangs, and
`NoOrphanWalks` says that not even that one outlives a stop or a delete.

*Exchange* (`CallsEnd`): weak fairness of `Lose` for the `Timed` callers, the Go
clients built without `WithHTTPClient`, which alone get the sixty seconds of
`DefaultTimeout` (`client.go:55-57`, `112-115`). `CallsEnd` speaks of them only: a
script or a client with a transport of its own may wait for ever, and the server
bounds only the headers (`rest_http.go:100`). Nothing is assumed of the server, the
network or the proxy. What remains to be shown is that `WaitReady` does not poll
for ever: its window is the time it is given plus one call (`read.go:46-74`).

*Launch*: weak fairness of `Serving`, what a process does once it serves: its
endpoints' goroutines, the receive, the shutdown and the finish. They are bounded by
the dial's 200 ms and the shutdown's ten seconds (`rest_http.go`, `run.go`). Nothing
before it is fair: a launch runs on a context without a deadline, may ask a terminal
for a passphrase and talks to stores without a timeout, so that it may never get as
far, and no property says it does. Backends, signals, kills and failures of a
listener get none either.

*Identity* (`KeysFollowIssuer`): weak fairness of the ticker's `Fetch` and strong
fairness of `Store`, for an issuer that answers again and again though not every
time. Without the second a set that never arrives would refute it rightly.

*Contribution*, *Contributors*, *Explorer*: only safety is stated. A source, a
server or a storage may never answer.

## The proofs

All theorems are checked from nothing by TLAPS, for any constants that satisfy
the named assumptions beside their declarations. In each the inductive invariant
`IInv` is defined in the component's module and was checked by TLC before it was
proved.

`VerificationRegistry_proofs`. `IInv` adds to `TypeOK`: an id inside `start` was
handed out to that request alone and nothing else knows it; an id not handed out
has left no trace; every retained run has a collector, every walk a collector or
a start about to register one; a cancellation is only of a marked or removed run;
an uncut walk that is done was whole. Without the last two `CompleteMeansWhole` is not inductive: a collector
that is about to run must be known to find a whole walk. From `IInv`:
`NoWalkIsLost`, `CompleteRunsAreWhole`, `FinalReports`, `NoResurrection`,
`RegistryImplementsLifecycle`. `LimitOvershoot` counts: `active` plus the starts
under way is at most `MaxActive + |Operators| - 1`, and `SerialLimit` is its case of
one operator. `OrderCorrect` says the slice names the retained runs, each once.
`OverRunsAreDriven` and `OverRunsWindDown` are the safety in `NoOrphanWalks` and
`StoppedRunsReport`: a run that is over (registered, and no longer running) leaves
its walk, its collector or both behind; while it does, a collector that can return, a
walk that is cancelled or a request at its cancel is there; and no step brings back what
was left behind. What stays with TLC is that each of these steps is taken.

`AccessPolicy_proofs`, facts of operators, for any specs: `PrincipalsAreTyped` (what
parses makes a principal), `SpecsByName` (no pattern reaches a reserved scope, so one
among the caveats takes them all away) and `SpecsNarrow` (a decision over more caveats
implies the one over fewer).

`Contribution_proofs`. `IInv` says that tables only grow and that each request
carries what each step established, against the table it was established on:
the effective constraints are those of its snapshot, the missing branches of its
base are creatable, its claims have no defect at its base, what it persisted is
stored. Growth carries each fact to the head the merge meets: references readable
at the base remain readable, branches present remain present. Hence `Permitted`
at the merge (`PermittedAtMerge`), and `PipelineImplementsArchive`; also
`HeadsArePersisted`, `AnswersHold` and `PermissionLasts`. That each merge was permitted
by the table it met (`MergesPermitted`) is kept by every later step, since what was
merged, by whom and onto what does not change; `ReservedIsNamed` and `TokensNarrow`
follow from it. A refusal that blames the
caller must be true of some table since the request began; a fault says nothing of the
archive, since a merge may fail on either side of its head's advance.
`RequestsEnd` orders a request by its step: each step of the pipeline puts those it
touches further along (a batch, or all those a restart cuts off, together) or stores a
claim more, so an answer is final and nothing is retried behind the caller.

`ExplorerSession_proofs`. `IInv` adds `TasksCarry` (where a task is tells what it
carries: a merge of references has one left to walk) to `TypeOK`, `DrawnWhenRead`,
`IdleIsNotBusy` and `SelectedIsListed`. The heart is `DrawnStep`: `WalkFacts` and
`WalkDraws` say what a walk adds of edges and held references, and `Drawn` over the
claims walked is preserved though other tasks' pages grow the graph between two
of a merge's batches. `DrawnWhenRead` says both ways what an edge is, so that with no
merge in flight the graph is a function of its nodes (`SettledIsWhole`, with
`GraphOf` of `GraphUnion`): interleavings and clearings leave no trace in it.
`MergeIsUnion` and `MergesCommute` say it of merges in one go. A clearing amid a merge
may leave a held reference of a claim that is gone; it is why `SettledIsWhole` speaks of
the held references of nodes. `TasksDescend` and `TasksAreBounded` order a
task by its stage and by what it has left of its page: it goes down with each step of
its own and is touched by no other, so the overlay, which `OverlayEnds` ties to the
tasks, can stay up only while some source or paint does not answer. It assumes that a closure contains what its claims reference
(`OrderAssumption`), that there are two tasks for the two listings the app
mounts with, and that the limits have a least. `WholesStay` needs `TypeOK` alone.

`Contributors_proofs`. `WindowMeansLive`: the window computed by folding
expiry edges admits exactly the instants `LiveAt` admits, for finitely many
carriers (a theorem of its own); `MoreCarriers`: more carriers admit less. `IInv` adds `CommandsCarry`
(what a command holds was on the branch when it began, and what it sends is made of
that) and that what is on the branch registers or expires. `WindowsShrink`,
`ListingsHold`, `RefusalsHold` and `ReportsHold` follow for any keys, commands,
claims and instants. `CommandsEnd`: a command only goes on, its claim lands in its last
step and at most once, and a step of one leaves the others alone. The least end and the oldest claim exist by
well-foundedness of `<` on the naturals (`WFMin`, `NatLessThanWellFounded`).

`Identity_proofs`. `IInv` adds: no cached value outlives `TTL` after it was
replaced (`SecretsAge`, which also bounds the
answer of a vault that is on its way: it is no older than the question), the public half stated is of the version signed under
(`PublicIsSettled`), and one fetch is under way at a time, of a set no older than
the one held (`OneFetch`). Hence `CacheExpires`, `RotationsTakeEffect`, `SignaturesHold`,
`KeySetsAdvance`; `AnonymousIsBare` is a fact of the operators. `LearntStays` and
`WithdrawnKeysAdmitNobody` are the safety in `KeysFollowIssuer`. They need one fact more,
`Published`: a set of the issuer's epoch is the issuer's, so that an answer in flight
beside a set that is current is no older one. Assumed
(`ConfigsAssumption`): a section names each secret at a place of its own, and an
in-memory signer names one.

`Launch_proofs`. `IInv` adds `AppIsOfJob`: what a process has assembled is its own
configuration's, over a list whose archive is there once the process has seen it
or founded it (also while it still has to read what it founded, where it may yet
exit 1). The fact that carries it through the steps of *other* processes is
`ArchivesStay`: no step removes an archive. Hence `WholeServes`; `ChecksNeverFound`
follows because only a process past a genesis it saw itself, and never one asked
to verify, writes the list.

`LaunchImplementsService` maps a process to the phase its operator sees: launching
until main serves, serving, then stopping where the first thing main received was
the signal's nil and failing where it was an error. It needs two facts more than
`WholeServes` does: `Passes`, that a process at a step only one command takes
is running that command, and `NilIsASignal`, that a nil is sent only by an
endpoint whose context was cancelled, so that before main has received anything a
nil is the signal's. Without the second an endpoint's nil could end a server
nobody stopped with exit zero. `LaunchesGoOneWay` and `LaunchesAreBounded` are as
much of the liveness as is safety: `Ahead(p)` is the set of steps main and each
endpoint have before them; a step of the process's own makes it smaller, a step of
any other leaves it as it is or smaller, and it has at most thirteen elements and
nine for each endpoint. What is left to fairness is that a step that can be taken
is taken.

Assumed (`JobsAssumption`): a job's endpoints are a finite sequence, its lists are
the store's, its command is one of the three that build, and the mark of an absent
archive is no branch.

`Exchange_proofs`. `IInv` follows a call leg by leg: what is asked is a request its
function builds (`AskFits`), what core ran is the one the route of it makes
(`RunFits`), the answer is the server's to that decision as far as it is written,
or a proxy's and shows it (`AnswerFits`), and a validator names what was told
(`TellFits`). It rests on facts of the tables: `Routed` (a request matches the one
route it was built for, whatever branch and id it names), `HandledIs` and
`FunctionAsks` (the handlers' requests are the functions' meaning), `DecodersAre`,
`RecordsReadBack`; and on `ReadIs`, that a client hears a value only where its
decoder takes status and body. Hence `AskedRuns`, `TellsWhatWasDecided`,
`OnlyGrantedReads`, `RecordsAreRead`, and `StandsWhenRevalidated`: of the values its reader holds
a 304 leaves standing the one just read, and where it leaves none the reader had asked
with `*`. The tables are joined
by `++`, TLC's `@@` with a definition the provers can expand.
`ExchangeImplementsRemoteCall` hides all legs: what a client's caller sees is the
request its function means (`Meant`), the one run of it and what was heard. A step of
the router's, the stream's or a proxy's is a stutter there. Beyond `IInv` it
needs `RanIsMeant` and `HeardIsRun`, that a value told whole is all the run
yielded and a streamed one no more than that; `RunFits` therefore also says that
nothing has run for a request still on its way, so that no call is run twice.
`CallsDescend` orders a call under way by the polls it has left, the legs before it
and the records its stream still owes; every step that touches the call goes down in
that order, and `CallsAreBounded` says it is one of naturals. So a call that never
ends is one that stands still, which the transport's timeout rules out (`CallsEnd`).
Assumed (`ExchangeAssumption`): the two kinds of caller are disjoint.

*Model-checked only.* All liveness (`RunsSettle`, `StoppedRunsReport`,
`NoOrphanWalks`, `CallsEnd`, `ServingSettles`, `FailureTakesDown`, `SignalStops`,
`KeysFollowIssuer`), which is out of this prover's reach.

## Known differences

Where a line of the repository says one thing and the code does another. Five have a
run, which TLC ends with the counterexample: `registry_limit`, `exchange_caching`,
`contributors_successor`, `launch_socket` and `identity_transit`. The following were
met while translating and have no run: their step is in the models unless noted, and a
run would show no more than the two lines side by side.

- *One snapshot per request* (`execute.go:4`, `:8`): `execute` and the contribute arm each
  resolve one, and that arm uses the second only.
- *409 on a moved head* (`openspec/specs/rest-api/spec.md:174`, `:184-186`; `core.go:38`): nothing
  in `execute.go` returns `ErrConflict`, `mapLibError` has no case for it, and a moved head
  is answered as internal.
- *A poll advances* (`internal/core/verification.go:124-125`, `openapi.yaml:766-768`): `absorb` is
  called after `Wait` alone, so a poll of a running run shows zero counters.
- *Newest first* (`internal/core/verification.go:152`): of two starts that overlap, ids are handed
  out in one order and registered in the other, and the listing follows the second.
- *A rotation takes effect within minutes* (`config/section.go:12`, `:29-30`): the cache lets it,
  but every adapter resolves its leaves once, at launch, so none does before the
  next one (`LaunchTakesRotations`).
- *An expiry is exclusive* (`openspec/specs/core-key-lifecycle/spec.md:18`): `Admits` takes it as
  inclusive, as its comment and `contributor_window_test.go:58` do.
- *`already admits this key`* (`add.go:89`): said though the key's window has passed.
- *A second `branch create` is a no-op* (`create.go:79-81`): the claim is dated
  when it is made (`contributor.go:102`), so two at once differ and both land.
- *Decimal sizes* (`storage.go:430`): the units are binary.
- *`every name identifies one layer`* (`storage.go:90`): layers called `a`, `a` and `a-0` get two
  equal names.
- *A capped read is not recorded as the whole* (`session.ts:160-162`): the limit is read again
  after the answer, so one raised amid a read passes a part for the whole.

## Observed

Met while translating too; here we know of no line of the repository that says otherwise.

- A storage fault while a contribution is verified is answered 400
  (`mapVerifyError`, called at `execute.go:459`).
- A contribution whose branch is created between the snapshot and the base is
  answered *forbidden* though the principal holds C on it.
- A merge that fails after its head advanced is answered as a fault though the claims
  are in (`execute.go:465`); whether the library does so is not in this repository.
- A rights letter is cut to a byte before it is compared (`access.go:83`), so that
  `Ų` reads as `r`.
- CORS exposes `ETag` alone of the headers a browser may need (not modelled).
- A sequencer with no signer panics (`cryptosigner.go:22`), as does a
  `jwks_refresh` that is not positive (`jwks.go:72`).
- A listener that is closed after another has taken its path unlinks the other's
  socket; a failed chmod leaves both the listener and its file.
- Of two launches that found one archive the loser exits 1 although the
  archive is there; so does a `found` whose read of the new archive fails (`found.go:126`).
- A size whose product exceeds 64 bits wraps (`storage.go:454`); a shard's wishes are
  not checked as a layer's are.
- The steerable clock's first `Advance` may go behind what was handed out
  (`clock_dev.go:13`, `:41`; not modelled).
- `contributor add` signs under the oldest registration of the signing key,
  whatever its window (`add.go:92`).
- `status.busy` is one flag for all tasks: the first to end resets it while another
  works (`store.ts:104`). A clear amid a merge leaves the merge to draw from
  claims that are gone (`build.ts:346`).
- A listing asked earlier may replace a later one (`session.ts:238`); a load lays out with
  the layout its view had before the awaits (`session.ts:180`, not modelled); the content
  pane takes whichever of two reads ends last (`session.ts:533`, not modelled).

## Plan

Done in this order: the registry, access, contribution, the explorer session;
exchange, launch, contributor keys and identity; the proofs of each; four
abstract specifications refined (`RunLifecycle`, `AuthorisedArchive`, `Service`,
`RemoteCall`); the safety in each liveness property, and orders that bound what runs
(a launch, a call, a task, a request, a command). Left:

1. *Steerable clock* with the sequencer's dating: instants must not go back
   (`clock_dev.go:41` against `client/dev.go:37`); a theorem on monotonicity after
   the first advance.
2. *Composition*: the contribution pipeline under the exchange, so that what a
   caller is told is what the archive holds; calls a caller has forgotten, which may
   still run.
3. *Explorer extended*: the data source (`source.ts`, where the mock reads a
   scope by name but lists it by branch and head), the content pane, the history; that a
   node drawn is of a claim still read, and that a listing is the active source's.

## Not modelled

The library itself (its merge, its engine and its storage), except as callers use
it: it is another repository. The fields of the claims and the expression
language of a query, which are data here. The instants of the steerable clock:
what they date is the library's. The load generator and the client command's
printing. Layouts, the timeline, lenses, rendering and widgets, which are geometry and
drawing without state a property is about. The explorer's panes, history and
notices, and what a CBOR tab shows. `mcp_http`, a stub. Generated models and encodings.
