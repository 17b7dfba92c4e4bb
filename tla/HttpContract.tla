---------------------------- MODULE HttpContract ----------------------------
(***************************************************************************)
(* The HTTP contract as its two generated halves know it: the requests the *)
(* Go client builds (openapi/client), the routes and parameter wrappers    *)
(* the server answers them with (openapi), and the answers the client      *)
(* decodes.  An operation is named by its operationId.  Escaping, URL      *)
(* resolution and header spelling are left out; a path is the sequence of  *)
(* its segments.                                                           *)
(***************************************************************************)
EXTENDS Naturals, Sequences

\* Tables side by side, the first that has an entry giving it (TLC's @@, with the
\* definition a proof may expand).
f ++ g == [x \in DOMAIN f \cup DOMAIN g |-> IF x \in DOMAIN f THEN f[x] ELSE g[x]]

-----------------------------------------------------------------------------
(* What the client sends for an operation, given the branch and the claim  *)
(* or report it names.                                                     *)

Get(path) == [method |-> "GET", path |-> path]
Post(path) == [method |-> "POST", path |-> path]
Delete(path) == [method |-> "DELETE", path |-> path]

ArchiveRequests(id) ==
    [GetArchiveClaim        |-> Get(<<"archive", "claims", id>>),
     GetArchiveClaimContent |-> Get(<<"archive", "claims", id, "content">>),
     GetArchiveInfo         |-> Get(<<"archive", "info">>),
     ListBranches           |-> Get(<<"branches">>)]

BranchRequests(branch, id) ==
    [GetBranchClaim        |-> Get(<<"branches", branch, "claims", id>>),
     GetBranchClaimContent |-> Get(<<"branches", branch, "claims", id, "content">>),
     GetBranchHead         |-> Get(<<"branches", branch, "head">>),
     GetBranchInfo         |-> Get(<<"branches", branch, "info">>)]

BodyRequests ==
    [Contribute      |-> Post(<<"contribute">>),
     AdvanceDevClock |-> Post(<<"dev", "clock">>),
     Health          |-> Get(<<"health">>),
     Query           |-> Post(<<"query">>)]

SystemRequests ==
    [ListStorageLayers |-> Get(<<"system", "layers">>),
     ListVerifications |-> Get(<<"system", "verifications">>),
     StartVerification |-> Post(<<"system", "verifications">>)]

RunRequests(report) ==
    [DeleteVerification |-> Delete(<<"system", "verifications", report>>),
     GetVerification    |-> Get(<<"system", "verifications", report>>),
     CancelVerification |-> Post(<<"system", "verifications", report, "cancel">>),
     Whoami             |-> Get(<<"system", "whoami">>)]

UniverseRequests(id) ==
    [GetClaim        |-> Get(<<"universe", "claims", id>>),
     GetClaimContent |-> Get(<<"universe", "claims", id, "content">>)]

Requests(branch, id) ==
    ArchiveRequests(id) ++ BranchRequests(branch, id) ++ BodyRequests
        ++ SystemRequests ++ RunRequests(id) ++ UniverseRequests(id)

-----------------------------------------------------------------------------
(* Where the server sends a request: the pattern registered for each       *)
(* operation, and the arguments its wrapper binds from the path.           *)

Routes ==
    [Health                 |-> Get(<<"health">>),
     Query                  |-> Post(<<"query">>),
     Contribute             |-> Post(<<"contribute">>),
     ListBranches           |-> Get(<<"branches">>),
     GetBranchHead          |-> Get(<<"branches", "<branch>", "head">>),
     GetBranchInfo          |-> Get(<<"branches", "<branch>", "info">>),
     GetArchiveInfo         |-> Get(<<"archive", "info">>),
     GetBranchClaim         |-> Get(<<"branches", "<branch>", "claims", "<id>">>),
     GetBranchClaimContent  |-> Get(<<"branches", "<branch>", "claims", "<id>", "content">>),
     GetArchiveClaim        |-> Get(<<"archive", "claims", "<id>">>),
     GetArchiveClaimContent |-> Get(<<"archive", "claims", "<id>", "content">>),
     GetClaim               |-> Get(<<"universe", "claims", "<id>">>),
     GetClaimContent        |-> Get(<<"universe", "claims", "<id>", "content">>),
     AdvanceDevClock        |-> Post(<<"dev", "clock">>),
     Whoami                 |-> Get(<<"system", "whoami">>),
     ListStorageLayers      |-> Get(<<"system", "layers">>),
     ListVerifications      |-> Get(<<"system", "verifications">>),
     StartVerification      |-> Post(<<"system", "verifications">>),
     DeleteVerification     |-> Delete(<<"system", "verifications", "<reportId>">>),
     GetVerification        |-> Get(<<"system", "verifications", "<reportId>">>),
     CancelVerification     |-> Post(<<"system", "verifications", "<reportId>", "cancel">>)]

Operations == DOMAIN Routes

Wildcards == {"<branch>", "<id>", "<reportId>"}

Matches(pattern, request) ==
    /\ pattern.method = request.method
    /\ Len(pattern.path) = Len(request.path)
    /\ \A i \in DOMAIN pattern.path :
          pattern.path[i] \in Wildcards \/ pattern.path[i] = request.path[i]

RoutesOf(request) == {op \in Operations : Matches(Routes[op], request)}

\* http.Request.PathValue
PathValue(op, request, name) ==
    request.path[CHOOSE i \in DOMAIN Routes[op].path : Routes[op].path[i] = name]

ArchiveWrappers ==
    [GetArchiveClaim        |-> <<"<id>">>,
     GetArchiveClaimContent |-> <<"<id>">>,
     GetArchiveInfo         |-> << >>,
     ListBranches           |-> << >>]

BranchWrappers ==
    [GetBranchClaim        |-> <<"<branch>", "<id>">>,
     GetBranchClaimContent |-> <<"<branch>", "<id>">>,
     GetBranchHead         |-> <<"<branch>">>,
     GetBranchInfo         |-> <<"<branch>">>]

PlainWrappers ==
    [op \in {"Contribute", "AdvanceDevClock", "Health", "Query", "ListStorageLayers",
             "ListVerifications", "StartVerification", "Whoami"} |-> << >>]

RunWrappers ==
    [op \in {"DeleteVerification", "GetVerification", "CancelVerification"} |->
        <<"<reportId>">>]

UniverseWrappers ==
    [op \in {"GetClaim", "GetClaimContent"} |-> <<"<id>">>]

Wrappers ==
    ArchiveWrappers ++ BranchWrappers ++ PlainWrappers ++ RunWrappers ++ UniverseWrappers

Arguments(op, request) ==
    [i \in DOMAIN Wrappers[op] |-> PathValue(op, request, Wrappers[op][i])]

-----------------------------------------------------------------------------
(* What the client decodes: the status whose body is the operation's       *)
(* value, whether that value is read as JSON, and the statuses at which a  *)
(* body declared as JSON has to decode or the whole answer is an error.    *)
(* "paced" are the statuses whose Retry-After has to be a number.          *)

Decoder(success, json, refusals, paced) ==
    [success |-> success, json |-> json, refusals |-> refusals, paced |-> paced]

ParseArchiveClaims ==
    [op \in {"GetArchiveClaim", "GetArchiveClaimContent"} |->
        Decoder(200, FALSE, {401, 403, 404}, {})]

ParseListings ==
    [op \in {"GetArchiveInfo", "ListBranches"} |-> Decoder(200, TRUE, {401, 403}, {})]

ParseBranchClaims ==
    [op \in {"GetBranchClaim", "GetBranchClaimContent"} |->
        Decoder(200, FALSE, {401, 403, 404}, {})]

ParseBranchReads ==
    [op \in {"GetBranchHead", "GetBranchInfo"} |-> Decoder(200, TRUE, {401, 403, 404}, {})]

ParseWrites ==
    [Contribute      |-> Decoder(201, TRUE, {400, 401, 403, 404, 409}, {}),
     AdvanceDevClock |-> Decoder(200, TRUE, {400, 401, 403, 501}, {})]

ParseOpenReads ==
    [Health            |-> Decoder(200, TRUE, {}, {}),
     Query             |-> Decoder(200, FALSE, {400, 401, 403, 404}, {}),
     ListStorageLayers |-> Decoder(200, TRUE, {401, 403}, {}),
     ListVerifications |-> Decoder(200, TRUE, {401, 403}, {})]

ParseRunWrites ==
    [StartVerification  |-> Decoder(202, TRUE, {400, 401, 403, 429}, {202, 429}),
     DeleteVerification |-> Decoder(204, FALSE, {401, 403, 404}, {})]

ParseRunReads ==
    [GetVerification    |-> Decoder(200, TRUE, {401, 403, 404}, {200}),
     CancelVerification |-> Decoder(200, TRUE, {401, 403, 404}, {})]

ParseSubjectAndUniverse ==
    [Whoami          |-> Decoder(200, TRUE, {401}, {}),
     GetClaim        |-> Decoder(200, FALSE, {401, 403, 404}, {}),
     GetClaimContent |-> Decoder(200, FALSE, {401, 403, 404}, {})]

Decoders ==
    ParseArchiveClaims ++ ParseListings ++ ParseBranchClaims ++ ParseBranchReads
        ++ ParseWrites ++ ParseOpenReads ++ ParseRunWrites ++ ParseRunReads
        ++ ParseSubjectAndUniverse
=============================================================================
