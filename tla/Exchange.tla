------------------------------ MODULE Exchange ------------------------------
(***************************************************************************)
(* One request and its answer, end to end: the Go client (client/) builds  *)
(* the request, the generated router hands it to a REST handler, core      *)
(* authenticates, authorises and executes it, the endpoint writes the      *)
(* answer, and the client reads it back into a value or an error.  Between *)
(* the two stand a network that loses requests and answers and a proxy     *)
(* that answers in the server's place.  Callers that are not the Go client *)
(* (Others: a browser, a script) send what they like, several credentials, *)
(* malformed bodies and If-None-Match included, and read the raw answer.   *)
(*                                                                         *)
(* What execution does is left to the modules of each component: here it   *)
(* is the choice of an outcome out of those its arm can return.            *)
(***************************************************************************)
EXTENDS HttpContract, ResultRecords, Functions

CONSTANTS
    Clients,        \* callers that use the Go client
    Timed,          \* those that keep its own transport, and so its DefaultTimeout
    Others,         \* callers that speak HTTP themselves
    BranchNames,    \* branches a caller may name
    Ids,            \* the claims and verification reports a caller may name
    Known,          \* callers whose one credential (or none) authenticates
    Readers,        \* <<caller, scope>>: R is held
    DevStack,       \* the stack was launched --dev over a dev sequencer
    MaxResults,     \* bound: results one query yields
    RouteLength,    \* claims on a route a query yields
    MaxVersion,     \* bound: times the archive moves
    MaxPolls,       \* bound: polls that fit in the window WaitReady is given
    MaxCallers      \* bound: callers with a call open at one time

Callers == Clients \cup Others
Scopes == BranchNames \cup {"$archive", "$universe", "$branches"}

ASSUME ExchangeAssumption ==
    /\ Clients \cap Others = {} /\ Timed \subseteq Clients
    /\ Known \subseteq Callers
    /\ Readers \subseteq Callers \X Scopes
    /\ DevStack \in BOOLEAN
    /\ MaxResults \in Nat /\ RouteLength \in Nat \ {0} /\ MaxVersion \in Nat /\ MaxPolls \in Nat /\ MaxCallers \in Nat

VARIABLES
    up,         \* the endpoint accepts connections
    version,    \* how often the archive head has moved
    phase,      \* per caller: "idle", "sent", "streaming", "answered", "told"
    ask,        \* per caller: what it asked
    decided,    \* per caller: what core ran for it and the outcome
    answer,     \* per caller: the HTTP answer on its way
    told,       \* per caller: what its call returned
    polls       \* per caller: polls WaitReady has left

vars == <<up, version, phase, ask, decided, answer, told, polls>>

-----------------------------------------------------------------------------
(* The client's functions and the operation each one sends.                *)

GetClaimOp(scope) ==
    IF scope = "$archive" THEN "GetArchiveClaim"
    ELSE IF scope = "$universe" THEN "GetClaim" ELSE "GetBranchClaim"

\* Mutant: the archive's content read off the universe route.
GetContentOpMisrouted(scope) ==
    IF scope \in {"$archive", "$universe"} THEN "GetClaimContent" ELSE "GetBranchClaimContent"

GetContentOp(scope) ==
    IF scope = "$archive" THEN "GetArchiveClaimContent"
    ELSE IF scope = "$universe" THEN "GetClaimContent" ELSE "GetBranchClaimContent"

BranchReads == [Branches |-> "ListBranches", BranchHead |-> "GetBranchHead",
                BranchInfo |-> "GetBranchInfo", ArchiveInfo |-> "GetArchiveInfo"]

SystemReads == [Whoami |-> "Whoami", Layers |-> "ListStorageLayers"]

RunCalls == [Verifications |-> "ListVerifications", StartVerification |-> "StartVerification",
             Verification |-> "GetVerification", CancelVerification |-> "CancelVerification",
             DeleteVerification |-> "DeleteVerification"]

OneRoute == BranchReads ++ SystemReads ++ RunCalls
              ++ [Health |-> "Health", WaitReady |-> "Health", Query |-> "Query",
                  QueryRaw |-> "Query", QueryClaims |-> "Query", Contribute |-> "Contribute", AdvanceClock |-> "AdvanceDevClock"]

Functions == DOMAIN OneRoute \cup {"GetClaim", "GetContent"}

OperationOf(fn, scope) ==
    IF fn = "GetClaim" THEN GetClaimOp(scope)
    ELSE IF fn = "GetContent" THEN GetContentOp(scope)
    ELSE OneRoute[fn]

\* The calls that name a scope, and the operations that carry one.
Queries == {"Query", "QueryRaw", "QueryClaims"}
ByScope == Queries \cup {"GetClaim", "GetContent", "BranchHead", "BranchInfo"}
OpsByScope == {op \in Operations : op = "Query" \/ "<branch>" \in Range(Routes[op].path)}

\* Read off the plain client, the body unparsed.
Streamed == Queries \cup {"GetContent"}

-----------------------------------------------------------------------------
(* The handlers: the request core is given for an operation.  A scope in   *)
(* the body is the query's own.                                            *)

CoreRequest(core, scope, id) == [core |-> core, scope |-> scope, id |-> id]

ReadHandlers(op, args, body) ==
    CASE op = "Query"          -> CoreRequest("OpClaimQuery", body.scope, "none")
      [] op = "ListBranches"   -> CoreRequest("OpBranchList", "$branches", "none")
      [] op = "GetBranchHead"  -> CoreRequest("OpBranchHead", args[1], "none")
      [] op = "GetBranchInfo"  -> CoreRequest("OpBranchInfo", args[1], "none")
      [] op = "GetArchiveInfo" -> CoreRequest("OpArchiveInfo", "$archive", "none")
      [] op = "GetBranchClaim" -> CoreRequest("OpClaimGet", args[1], args[2])
      [] op = "GetBranchClaimContent"  -> CoreRequest("OpClaimContent", args[1], args[2])
      [] op = "GetArchiveClaim"        -> CoreRequest("OpClaimGet", "$archive", args[1])
      [] op = "GetArchiveClaimContent" -> CoreRequest("OpClaimContent", "$archive", args[1])
      [] op = "GetClaim"               -> CoreRequest("OpClaimGet", "$universe", args[1])
      [] op = "GetClaimContent"        -> CoreRequest("OpClaimContent", "$universe", args[1])

SystemHandlers ==
    [Health |-> "OpHealthGet", Whoami |-> "OpSubjectGet", ListStorageLayers |-> "OpLayerList"]

RunHandlers ==
    [StartVerification |-> "OpVerificationStart", ListVerifications |-> "OpVerificationList",
     GetVerification |-> "OpVerificationGet", CancelVerification |-> "OpVerificationCancel",
     DeleteVerification |-> "OpVerificationDelete"]

Handled(op, args, body) ==
    IF op \in DOMAIN SystemHandlers
    THEN CoreRequest(SystemHandlers[op], "none", "none")
    ELSE IF op \in DOMAIN RunHandlers
    THEN CoreRequest(RunHandlers[op], "none", IF args = << >> THEN "none" ELSE args[1])
    ELSE IF op = "Contribute" THEN CoreRequest("OpClaimContribute", "none", "none")
    ELSE IF op = "AdvanceDevClock" THEN CoreRequest("OpDevClockAdvance", "none", "none")
    ELSE ReadHandlers(op, args, body)

\* What a handler refuses before core sees it: a query, run configuration or
\* instant that does not decode, an id that does not parse.
Malformed(op) ==
    IF op \in {"Query", "StartVerification", "AdvanceDevClock"} THEN "invalid" ELSE "not_found"

Decodes == {"Query", "StartVerification", "AdvanceDevClock", "GetBranchClaim",
            "GetBranchClaimContent", "GetArchiveClaim", "GetArchiveClaimContent",
            "GetClaim", "GetClaimContent"}

-----------------------------------------------------------------------------
(* The pipeline: authenticate, authorise, execute.                         *)

\* Mutant: content is read as a claim already authorised.
NeedsRButContent == {"OpClaimQuery", "OpClaimGet", "OpBranchHead", "OpBranchInfo",
                     "OpBranchList", "OpArchiveInfo"}

NeedsR == {"OpClaimQuery", "OpClaimGet", "OpClaimContent", "OpBranchHead", "OpBranchInfo",
           "OpBranchList", "OpArchiveInfo"}

Authorised(c, req) == req.core \in NeedsR => <<c, req.scope>> \in Readers

\* The categories a library failure is resolved onto.
LibErrors == {"not_found", "unimplemented", "invalid", "busy", "forbidden", "internal"}

\* The arms that run without an archive, and the archive the others need.
Executed(core) ==
    IF core \in {"OpHealthGet", "OpSubjectGet", "OpLayerList"} THEN {"done"}
    ELSE IF core = "OpDevClockAdvance" THEN {IF DevStack THEN "done" ELSE "unimplemented"}
    ELSE {"done"} \cup LibErrors

Outcomes(c, req) ==
    IF c \notin Known THEN {"unauthenticated"}
    ELSE IF ~Authorised(c, req) THEN {"forbidden"}
    ELSE Executed(req.core)

-----------------------------------------------------------------------------
(* The endpoint's answers.                                                 *)

httpStatus(category) ==
    CASE category = "unauthenticated" -> 401
      [] category = "forbidden"       -> 403
      [] category = "not_found"       -> 404
      [] category = "conflict"        -> 409
      [] category = "busy"            -> 429
      [] category = "invalid"         -> 400
      [] category = "unimplemented"   -> 501
      [] OTHER                        -> 500

\* body: "value" (what the operation returns), "records" (a result sequence),
\* "contract" (the {code, error} document), "foreign" (JSON with a code of
\* someone else's), "mangled" (declared JSON, and not), "text", "none".
\* dated: its Retry-After is a date.  count: the results or blob parts it
\* carries, the version of a value that moves.  whole: it ended as HTTP ends one.
Answer(from, status, body, code, tag, count) ==
    [from |-> from, status |-> status, body |-> body, code |-> code, dated |-> FALSE,
     tag |-> tag, count |-> count, whole |-> TRUE, report |-> FALSE]

NoAnswer == Answer("nobody", 0, "none", "none", << >>, 0)

writeError(category) ==
    Answer("server", httpStatus(category), "contract", category, << >>, 0)

Contents == {"GetBranchClaimContent", "GetArchiveClaimContent", "GetClaimContent"}
ClaimReads == {"GetBranchClaim", "GetArchiveClaim", "GetClaim"}
Revalidated == {"ListBranches", "GetBranchHead", "GetBranchInfo", "GetArchiveInfo"}

\* Mutant: a moving value validated by its name.
EtagOfName(op, id, count) ==
    IF op \in Contents \cup ClaimReads THEN <<"id", id>>
    ELSE IF op \in Revalidated THEN <<"digest", 0>> ELSE << >>

\* The validator is the id where the id names the bytes, a digest of the body
\* where the value moves.
Etag(op, id, count) ==
    IF op \in Contents \cup ClaimReads THEN <<"id", id>>
    ELSE IF op \in Revalidated THEN <<"digest", count>> ELSE << >>

\* If-None-Match: a list of the validators held, or `*`, which matches any.
matches(a, tag) == a.any \/ \E h \in a.held : h.tag = tag

\* respond, respondImmutable and respondRevalidated; a body that streams
\* starts empty.
respond(op, id, count, a) ==
    LET tag == Etag(op, id, count)
    IN  IF tag # << >> /\ matches(a, tag)
        THEN Answer("server", 304, "none", "none", tag, count)
        ELSE Answer("server", Decoders[op].success,
                    IF op = "Query" THEN "records"
                    ELSE IF op = "DeleteVerification" THEN "none" ELSE "value",
                    "none", tag, IF op \in Contents \cup {"Query"} THEN 0 ELSE count)

\* A proxy in between: its own page, its own JSON, a backend it cannot reach.
ProxyAnswers ==
    {Answer("proxy", status, body, IF body = "foreign" THEN "foreign" ELSE "none", << >>, 0) :
        status \in {200, 404, 429, 502}, body \in {"text", "foreign", "mangled"}}
    \cup {[Answer("proxy", 429, "foreign", "foreign", << >>, 0) EXCEPT !.dated = TRUE]}

-----------------------------------------------------------------------------
(* What the client makes of an answer.                                     *)

Categories == {"unauthenticated", "forbidden", "not_found", "conflict", "busy", "invalid",
               "unimplemented"}

byStatus(status) ==
    IF \E k \in Categories : httpStatus(k) = status
    THEN CHOOSE k \in Categories : httpStatus(k) = status
    ELSE "none"

byCode(code) == IF code \in Categories THEN code ELSE "none"

Unwrap(a) == IF a.body \in {"contract", "foreign"} THEN byCode(a.code) ELSE byStatus(a.status)

Told(kind, sentinel, a) ==
    [kind |-> kind, sentinel |-> sentinel, status |-> a.status, from |-> a.from,
     tag |-> a.tag, count |-> a.count, report |-> a.report, kinds |-> {}]

Nothing == Told("none", "none", NoAnswer)
Failed == Told("failed", "none", NoAnswer)
refusal(a) == Told("refused", Unwrap(a), a)

IsJSON(a) == a.body \in {"value", "contract", "foreign", "mangled"}

\* The generated decoder returns an error of its own.
Undecodable(op, a) ==
    \/ /\ a.body = "mangled"
       /\ \/ a.status \in Decoders[op].refusals
          \/ Decoders[op].json /\ a.status = Decoders[op].success
    \/ a.dated /\ a.status \in Decoders[op].paced

\* Calls that read the body themselves: a result sequence, a blob, a claim
\* whose bytes must hash to its id.
ReadBody(fn, a) ==
    IF a.status # 200 THEN refusal(a)
    ELSE IF (fn \in Queries /\ a.body # "records") \/ (fn = "GetClaim" /\ a.from # "server")
    THEN Failed
    ELSE Told("value", "none", a)

\* Each record read back as the result it carries, the report at the tail.
KindsRead(fn, output, a) ==
    LET written == Pinned(output)
        kind == decodeRecord(FormOf(KindOf(written), written.encoding), written.encoding)
        tail == decodeRecord(FormOf("Report", written.encoding), written.encoding)
    IN  (IF a.count > 0 THEN {kind} ELSE {}) \cup (IF a.report THEN {tail} ELSE {})

ReadResults(fn, output, a) ==
    LET t == ReadBody(fn, a)
        kinds == KindsRead(fn, output, a)
    IN  IF t.kind # "value" \/ fn = "QueryRaw" THEN t
        ELSE IF "unknown" \in kinds \/ (fn = "QueryClaims" /\ kinds # {} /\ kinds # {"ClaimEnvelope"})
        THEN Failed
        ELSE [t EXCEPT !.kinds = kinds]

\* Mutant: a body that decodes is the value, whatever its status.
ReadTypedAnyStatus(op, a) ==
    IF Undecodable(op, a) THEN Failed
    ELSE IF IsJSON(a) THEN Told("value", "none", a) ELSE refusal(a)

ReadTyped(op, a) ==
    IF Undecodable(op, a) THEN Failed
    ELSE IF a.status = Decoders[op].success /\ (Decoders[op].json => IsJSON(a))
    THEN Told("value", "none", a)
    ELSE refusal(a)

\* DevClient.AdvanceClock reads two refusals as a stack without the route.
AdvanceClock(a) ==
    LET t == ReadTyped("AdvanceDevClock", a)
    IN  IF t.kind = "refused" /\ t.sentinel \in {"unimplemented", "not_found"}
        THEN Told("unavailable", t.sentinel, a) ELSE t

Read(fn, op, output, a) ==
    IF ~a.whole \/ (a.body = "mangled" /\ fn = "GetClaim" /\ a.status \in Decoders[op].refusals)
    THEN Failed
    ELSE IF fn \in Queries THEN ReadResults(fn, output, a)
    ELSE IF fn \in Streamed \cup {"GetClaim"} THEN ReadBody(fn, a)
    ELSE IF fn = "AdvanceClock" THEN AdvanceClock(a)
    ELSE ReadTyped(op, a)

settled(t) == t.kind = "refused" /\ t.sentinel # "busy" /\ t.status < 500

-----------------------------------------------------------------------------
NoAsk == [fn |-> "none", op |-> "none", scope |-> "none", id |-> "none", formed |-> TRUE,
          several |-> FALSE, output |-> QueryClaimsOutput, report |-> FALSE, held |-> {}, any |-> FALSE]

NotRun == [core |-> "none", scope |-> "none", id |-> "none", outcome |-> "none", count |-> 0]

Init ==
    /\ up = FALSE
    /\ version = 0
    /\ phase = [c \in Callers |-> "idle"]
    /\ ask = [c \in Callers |-> NoAsk]
    /\ decided = [c \in Callers |-> NotRun]
    /\ answer = [c \in Callers |-> NoAnswer]
    /\ told = [c \in Callers |-> Nothing]
    /\ polls = [c \in Callers |-> 0]

Sends(c, a) ==
    /\ phase' = [phase EXCEPT ![c] = "sent"]
    /\ ask' = [ask EXCEPT ![c] = a]
    /\ decided' = [decided EXCEPT ![c] = NotRun]
    /\ answer' = [answer EXCEPT ![c] = NoAnswer]
    /\ told' = [told EXCEPT ![c] = Nothing]
    /\ UNCHANGED <<up, version>>

Opens(c) ==
    /\ phase[c] = "idle"
    /\ Cardinality({d \in Callers : phase[d] # "idle"}) < MaxCallers

\* A function of the Go client: the request its generated method builds.
Call(c) ==
    /\ c \in Clients /\ Opens(c)
    /\ \E fn \in Functions, id \in Ids, report \in BOOLEAN :
          /\ fn \notin {"Query", "QueryRaw"} => ~report
          /\ \E scope \in IF fn \in ByScope THEN Scopes ELSE {"none"},
                output \in CASE fn = "Query" -> {o \in Outputs : routesAreReadable(o)}
                             [] fn = "QueryRaw" -> Outputs
                             [] OTHER -> {QueryClaimsOutput} :
                Sends(c, [NoAsk EXCEPT !.fn = fn, !.op = OperationOf(fn, scope), !.scope = scope,
                                       !.id = id, !.output = output, !.report = report])
          /\ polls' = [polls EXCEPT ![c] = IF fn = "WaitReady" THEN MaxPolls ELSE 0]

\* Any other caller sends what it likes, `If-None-Match: *` with nothing held included.
Request(c) ==
    /\ c \in Others /\ Opens(c)
    /\ \E op \in Operations, id \in Ids, formed, several \in BOOLEAN :
          \E scope \in IF op \in OpsByScope THEN Scopes ELSE {"none"},
             any \in IF op \in Contents \cup ClaimReads \cup Revalidated THEN BOOLEAN ELSE {FALSE} :
             Sends(c, [NoAsk EXCEPT !.op = op, !.scope = scope, !.id = id, !.any = any,
                                    !.formed = formed, !.several = several])
    /\ UNCHANGED polls

\* What a caller holds once it keeps a value it was told: one of each validator.
Holding(held, t) ==
    {h \in held : h.tag # t.tag} \cup {[tag |-> t.tag, count |-> t.count]}

\* It asks again, listing all it holds of what it reads, or with `*`.
Revalidate(c) ==
    /\ phase[c] = "told" /\ told[c].kind = "raw" /\ told[c].tag # << >>
    /\ \E any \in BOOLEAN :
          Sends(c, [ask[c] EXCEPT !.held = Holding(@, told[c]), !.any = any])
    /\ UNCHANGED polls

\* The request on the wire and the operation the router finds for it.
Wire(a) == Requests(a.scope, a.id)[a.op]

\* What an execution yields: how many results a query has, which version a
\* moving value is; a blob's length is its claim's.
Counts(op) ==
    IF op = "Query" THEN 0..MaxResults
    ELSE IF op \in Contents THEN {MaxResults}
    ELSE IF op \in Revalidated THEN {version} ELSE {0}

Reply(c, a) ==
    /\ answer' = [answer EXCEPT ![c] = a]
    /\ phase' = [phase EXCEPT ![c] = "answered"]

\* withCredential and the handlers' own decoding, ahead of core.
RefuseEarly(c) ==
    /\ up /\ phase[c] = "sent"
    /\ ask[c].several \/ (~ask[c].formed /\ ask[c].op \in Decodes)
    /\ Reply(c, writeError(IF ask[c].several THEN "invalid" ELSE Malformed(ask[c].op)))
    /\ UNCHANGED <<up, version, ask, decided, told, polls>>

\* What core runs of the request a route makes: authenticated, authorised, executed.
Runs(c, op, req, outcome, n) ==
    /\ op = "Query" /\ outcome = "done" => EngineAccepts(Pinned(ask[c].output))
    /\ decided' = [decided EXCEPT ![c] =
          [core |-> req.core, scope |-> req.scope, id |-> req.id,
           outcome |-> outcome, count |-> n]]
    /\ IF op = "Contribute" /\ outcome = "done"
       THEN version < MaxVersion /\ version' = version + 1
       ELSE UNCHANGED version

\* core.Handle, and the answer to it.
Executes(c, op, req) ==
    \E outcome \in Outcomes(c, req), n \in Counts(op) :
      /\ Runs(c, op, req, outcome, n)
      /\ IF outcome # "done" THEN Reply(c, writeError(outcome))
         ELSE LET a == respond(op, req.id, n, ask[c])
              IN  /\ answer' = [answer EXCEPT ![c] = a]
                  /\ phase' = [phase EXCEPT ![c] =
                        IF op \in Contents \cup {"Query"} /\ a.status = 200
                        THEN "streaming" ELSE "answered"]

Handle(c) ==
    /\ up /\ phase[c] = "sent"
    /\ ~ask[c].several /\ (ask[c].formed \/ ask[c].op \notin Decodes)
    /\ \E op \in RoutesOf(Wire(ask[c])) :
          Executes(c, op, Handled(op, Arguments(op, Wire(ask[c])), ask[c]))
    /\ UNCHANGED <<up, ask, told, polls>>

\* A request whose caller was told by somebody else, or gave up, may still reach
\* the server: core runs it and nobody reads the answer.
LateRun(c) ==
    /\ up /\ phase[c] = "told" /\ told[c].from # "server" /\ decided[c] = NotRun
    /\ ~ask[c].several /\ (ask[c].formed \/ ask[c].op \notin Decodes)
    /\ \E op \in RoutesOf(Wire(ask[c])) :
          LET req == Handled(op, Arguments(op, Wire(ask[c])), ask[c])
          IN  \E outcome \in Outcomes(c, req), n \in Counts(op) : Runs(c, op, req, outcome, n)
    /\ UNCHANGED <<up, phase, ask, answer, told, polls>>

\* The records the results of a query make, the parts of a blob.
Length(c) ==
    IF ask[c].op = "Query"
    THEN decided[c].count * RecordsOf(KindOf(Pinned(ask[c].output)), RouteLength)
    ELSE decided[c].count

\* The stream writes one more record, or one more part of a blob.
WriteResult(c) ==
    /\ phase[c] = "streaming" /\ answer[c].count < Length(c)
    /\ answer' = [answer EXCEPT ![c].count = @ + 1]
    /\ UNCHANGED <<up, version, phase, ask, decided, told, polls>>

\* The store fails underneath it: WriteTo returns the error, respond drops it
\* and the handler returns, so the body ends as a whole one does.
FailStream(c) ==
    /\ phase[c] = "streaming" /\ answer[c].count < Length(c)
    /\ phase' = [phase EXCEPT ![c] = "answered"]
    /\ UNCHANGED <<up, version, ask, decided, answer, told, polls>>

\* Mutant: the stream's error is not looked at before the report.
EndStreamUnchecked(c) ==
    /\ phase[c] = "streaming"
    /\ Reply(c, [answer[c] EXCEPT !.report = ask[c].report])
    /\ UNCHANGED <<up, version, ask, decided, told, polls>>

\* The results are out: the report follows, if one was asked for.
EndStream(c) ==
    /\ phase[c] = "streaming" /\ answer[c].count = Length(c)
    /\ Reply(c, [answer[c] EXCEPT !.report = ask[c].report])
    /\ UNCHANGED <<up, version, ask, decided, told, polls>>

\* The connection breaks inside the body, which no terminator then ends.
Cut(c) ==
    /\ phase[c] = "streaming"
    /\ Reply(c, [answer[c] EXCEPT !.whole = FALSE])
    /\ UNCHANGED <<up, version, ask, decided, told, polls>>

\* A proxy answers: without the server, or tired of waiting for it.
Intercept(c) ==
    /\ phase[c] = "sent"
    /\ \E a \in ProxyAnswers : Reply(c, a)
    /\ UNCHANGED <<up, version, ask, decided, told, polls>>

GatewayTimeout(c) ==
    /\ phase[c] \in {"streaming", "answered"} /\ answer[c].from = "server"
    /\ Reply(c, Answer("proxy", 504, "text", "none", << >>, 0))
    /\ UNCHANGED <<up, version, ask, decided, told, polls>>

\* Mutant: the window is never looked at.
ReturnNeverGivesUp(c, t) ==
    IF ask[c].fn = "WaitReady" /\ t.kind # "value" /\ ~settled(t)
    THEN IF polls[c] \in Nat
         THEN /\ UNCHANGED polls
              /\ phase' = [phase EXCEPT ![c] = "sent"]
              /\ decided' = [decided EXCEPT ![c] = NotRun]
              /\ answer' = [answer EXCEPT ![c] = NoAnswer]
              /\ UNCHANGED told
         ELSE /\ told' = [told EXCEPT ![c] = [t EXCEPT !.kind = "gaveUp"]]
              /\ phase' = [phase EXCEPT ![c] = "told"]
              /\ UNCHANGED <<polls, decided, answer>>
    ELSE /\ told' = [told EXCEPT ![c] = t]
         /\ phase' = [phase EXCEPT ![c] = "told"]
         /\ UNCHANGED <<polls, decided, answer>>

\* What the call returns.  WaitReady keeps polling through what waiting may
\* change, for as long as its window lasts.
Return(c, t) ==
    IF ask[c].fn = "WaitReady" /\ t.kind # "value" /\ ~settled(t)
    THEN IF polls[c] > 0
         THEN /\ polls' = [polls EXCEPT ![c] = @ - 1]
              /\ phase' = [phase EXCEPT ![c] = "sent"]
              /\ decided' = [decided EXCEPT ![c] = NotRun]
              /\ answer' = [answer EXCEPT ![c] = NoAnswer]
              /\ UNCHANGED told
         ELSE /\ told' = [told EXCEPT ![c] = [t EXCEPT !.kind = "gaveUp"]]
              /\ phase' = [phase EXCEPT ![c] = "told"]
              /\ UNCHANGED <<polls, decided, answer>>
    ELSE /\ told' = [told EXCEPT ![c] = t]
         /\ phase' = [phase EXCEPT ![c] = "told"]
         /\ UNCHANGED <<polls, decided, answer>>

\* What one who reads the raw answer makes of it: a 304 names, by its validator, which
\* of the values held still stands, and none where a `*` matched what is not held.
Raw(c) ==
    LET a == answer[c]
        t == Told("raw", "none", a)
        standing == {h \in ask[c].held : h.tag = a.tag}
    IN  IF ~a.whole THEN Failed
        ELSE IF a.status # 304 THEN t
        ELSE IF standing = {} THEN [t EXCEPT !.tag = << >>, !.count = 0]
        ELSE [t EXCEPT !.count = (CHOOSE h \in standing : TRUE).count]

Deliver(c) ==
    /\ phase[c] = "answered"
    /\ IF c \in Clients THEN Return(c, Read(ask[c].fn, ask[c].op, ask[c].output, answer[c]))
       ELSE Return(c, Raw(c))
    /\ UNCHANGED <<up, version, ask>>

\* No connection, a connection reset, or the client's own timeout.
Lose(c) ==
    /\ phase[c] \in {"sent", "streaming", "answered"}
    /\ Return(c, Failed)
    /\ UNCHANGED <<up, version, ask>>

\* The caller is done with what its call returned.
Forget(c) ==
    /\ phase[c] = "told"
    /\ phase' = [phase EXCEPT ![c] = "idle"]
    /\ ask' = [ask EXCEPT ![c] = NoAsk]
    /\ decided' = [decided EXCEPT ![c] = NotRun]
    /\ answer' = [answer EXCEPT ![c] = NoAnswer]
    /\ told' = [told EXCEPT ![c] = Nothing]
    /\ polls' = [polls EXCEPT ![c] = 0]
    /\ UNCHANGED <<up, version>>

\* The server comes up or goes down; a merge by anyone else moves the archive.
Start == ~up /\ up' = TRUE
           /\ UNCHANGED <<version, phase, ask, decided, answer, told, polls>>
Stop == up /\ up' = FALSE
           /\ UNCHANGED <<version, phase, ask, decided, answer, told, polls>>
Moves == /\ up /\ version < MaxVersion /\ version' = version + 1
         /\ UNCHANGED <<up, phase, ask, decided, answer, told, polls>>

Next ==
    \/ Start \/ Stop \/ Moves
    \/ \E c \in Callers :
          Call(c) \/ Request(c) \/ Revalidate(c) \/ RefuseEarly(c) \/ Handle(c) \/ LateRun(c)
            \/ WriteResult(c) \/ FailStream(c) \/ EndStream(c) \/ Cut(c) \/ Intercept(c)
            \/ GatewayTimeout(c) \/ Deliver(c) \/ Lose(c) \/ Forget(c)

Spec == Init /\ [][Next]_vars

\* DefaultTimeout bounds a request of a client that was given no transport of its
\* own; any other may wait for ever.
FairSpec == Spec /\ \A c \in Timed : WF_vars(Lose(c))

-----------------------------------------------------------------------------
Tags == {<< >>} \cup ({"id"} \X Ids) \cup ({"digest"} \X Nat)
Named == Ids \cup {"none"}

Asks ==
    [fn : Functions \cup {"none"}, op : Operations \cup {"none"}, scope : Scopes \cup {"none"},
     id : Named, formed : BOOLEAN, several : BOOLEAN, output : Outputs, report : BOOLEAN,
     held : SUBSET [tag : Tags, count : Nat], any : BOOLEAN]

Cores ==
    NeedsR \cup {"OpHealthGet", "OpSubjectGet", "OpLayerList", "OpClaimContribute",
                 "OpDevClockAdvance", "OpVerificationStart", "OpVerificationList",
                 "OpVerificationGet", "OpVerificationCancel", "OpVerificationDelete"}

Decisions ==
    [core : Cores \cup {"none"}, scope : Scopes \cup {"none"}, id : Named,
     outcome : {"none", "done", "unauthenticated"} \cup LibErrors, count : Nat]

Senders == {"nobody", "server", "proxy"}

Answers ==
    [from : Senders, status : Nat,
     body : {"value", "records", "contract", "foreign", "mangled", "text", "none"},
     code : Categories \cup {"internal", "foreign", "none"}, dated : BOOLEAN,
     tag : Tags, count : Nat, whole : BOOLEAN, report : BOOLEAN]

Results ==
    [kind : {"none", "value", "refused", "failed", "unavailable", "gaveUp", "raw"},
     sentinel : Categories \cup {"none"}, status : Nat, from : Senders, tag : Tags,
     count : Nat, report : BOOLEAN,
     kinds : SUBSET {"ClaimId", "PathId", "ClaimEncoded", "ClaimEnvelope", "Report"}]

\* Type invariant.
TypeOK ==
    /\ up \in BOOLEAN
    /\ version \in 0..MaxVersion
    /\ phase \in [Callers -> {"idle", "sent", "streaming", "answered", "told"}]
    /\ ask \in [Callers -> Asks]
    /\ decided \in [Callers -> Decisions]
    /\ answer \in [Callers -> Answers]
    /\ told \in [Callers -> Results]
    /\ polls \in [Callers -> 0..MaxPolls]

\* What each function of the client promises to have run.
Means ==
    [Health |-> "OpHealthGet", WaitReady |-> "OpHealthGet", Query |-> "OpClaimQuery",
     QueryRaw |-> "OpClaimQuery", QueryClaims |-> "OpClaimQuery", GetClaim |-> "OpClaimGet", GetContent |-> "OpClaimContent",
     Branches |-> "OpBranchList", BranchHead |-> "OpBranchHead",
     BranchInfo |-> "OpBranchInfo", ArchiveInfo |-> "OpArchiveInfo",
     Whoami |-> "OpSubjectGet", Layers |-> "OpLayerList",
     Contribute |-> "OpClaimContribute", AdvanceClock |-> "OpDevClockAdvance",
     Verifications |-> "OpVerificationList", StartVerification |-> "OpVerificationStart",
     Verification |-> "OpVerificationGet", CancelVerification |-> "OpVerificationCancel",
     DeleteVerification |-> "OpVerificationDelete"]

ById == {"GetClaim", "GetContent", "Verification", "CancelVerification",
         "DeleteVerification"}

\* Through the builder, the router, the wrapper and the handler, core runs
\* the operation the client's function stands for, in the scope and on the
\* claim or report its caller named (client/read.go:175, endpoints_read.go:97).
AskedIsRun ==
    \A c \in Clients : decided[c] # NotRun =>
        /\ decided[c].core = Means[ask[c].fn]
        /\ ask[c].fn \in ByScope => decided[c].scope = ask[c].scope
        /\ ask[c].fn \in ById => decided[c].id = ask[c].id

\* What a caller means by a call: a request of core's, whether it waits for an answer
\* that may change, and whether it reads the value as it comes.
MeantScope(fn, scope) ==
    IF fn \in ByScope THEN scope
    ELSE IF fn = "Branches" THEN "$branches" ELSE IF fn = "ArchiveInfo" THEN "$archive" ELSE "none"

Meant(fn, scope, id) ==
    [what |-> CoreRequest(Means[fn], MeantScope(fn, scope), IF fn \in ById THEN id ELSE "none"),
     patient |-> fn = "WaitReady", streamed |-> fn \in Streamed]

AllMeant ==
    {Meant(fn, scope, id) : fn \in Functions, scope \in Scopes \cup {"none"}, id \in Ids}

AskedOf(c) == 
    IF phase[c] = "idle"
    THEN [what |-> CoreRequest("none", "none", "none"), patient |-> FALSE, streamed |-> FALSE]
    ELSE Meant(ask[c].fn, ask[c].scope, ask[c].id)

RanOf(c) ==
    [what |-> CoreRequest(decided[c].core, decided[c].scope, decided[c].id),
     ending |-> decided[c].outcome, yield |-> Length(c)]

HeardOf(c) ==
    IF phase[c] # "told" THEN [as |-> "nothing", got |-> 0]
    ELSE IF told[c].from # "server" THEN [as |-> "elsewhere", got |-> 0]
    ELSE IF told[c].kind = "value" THEN [as |-> "value", got |-> told[c].count]
    ELSE [as |-> told[c].sentinel, got |-> 0]

Remote == INSTANCE RemoteCall WITH
    NoRequest <- CoreRequest("none", "none", "none"),
    Meanings <- AllMeant, Endings <- {"done", "unauthenticated"} \cup LibErrors, Sentinels <- Categories,
    asked <- [c \in Clients |-> AskedOf(c)], ran <- [c \in Clients |-> RanOf(c)],
    heard <- [c \in Clients |-> HeardOf(c)]

\* Through routes, handlers, streams, proxies and lost answers, a call of the client is
\* what its function says: run once at most, as what was asked, and answered with what
\* came of that run (client/read.go, client/errors.go).
ImplementsRemoteCall == Remote!Spec

\* A client told a value by the server was not refused by core, and one told
\* a refusal matches exactly the sentinel of the category core refused it
\* with (client/errors.go:92: never "whichever sentinel its status happens
\* to share").
ToldIsDecided ==
    /\ TypeOK
    /\ \A c \in Clients : phase[c] = "told" /\ told[c].from = "server" =>
          IF told[c].kind = "value" THEN decided[c].outcome = "done"
          ELSE /\ decided[c].outcome # "done"
               /\ told[c].sentinel = byCode(decided[c].outcome)

\* Nobody reads a scope without R on it: a value of a scoped read, told or
\* kept by a 304, was read for a caller that holds the grant.
ReadsAreGranted ==
    \A c \in Callers :
        (told[c].kind = "value" \/ (told[c].kind = "raw" /\ told[c].status \in {200, 304}))
          /\ told[c].from = "server" /\ decided[c].scope # "none" =>
            c \in Known /\ <<c, decided[c].scope>> \in Readers

\* Every record is read as the kind the engine yielded it with, in either
\* encoding and with no tag on the wire, and a query that ends with its report
\* is whole: a read cut short, by the store or by the network, never carries
\* one (client/seq.go:94, internal/core/serve.go:73).
ResultsReadBack ==
    \A c \in Clients :
        told[c].kind = "value" /\ ask[c].fn \in {"Query", "QueryClaims"} =>
            /\ told[c].kinds \subseteq {KindOf(ask[c].output), "Report"}
            /\ told[c].count <= decided[c].count
            /\ told[c].report <=> "Report" \in told[c].kinds
            /\ told[c].report => told[c].count = decided[c].count

\* What a 304 says is true: of the values its reader holds it leaves standing the one
\* core just read, though the archive moved in between, and where it leaves none the
\* reader had asked with `*` (respond.go:99, 116).
Stands(c) ==
    /\ decided[c].outcome = "done"
    /\ IF told[c].tag # << >> THEN told[c].count = decided[c].count ELSE ask[c].any

RevalidatedIsCurrent ==
    \A c \in Others :
        told[c].kind = "raw" /\ told[c].status = 304 /\ ask[c].op \notin Contents => Stands(c)

\* The same of every read the contract declares cacheable: "caching changes
\* no answer" (respond.go:84).
CachingChangesNoAnswer ==
    \A c \in Others : told[c].kind = "raw" /\ told[c].status = 304 => Stands(c)

\* Every call of a client that keeps the default transport returns, WaitReady's
\* polling included (client/client.go:55, 112).
CallsEnd == \A c \in Timed : phase[c] = "sent" ~> phase[c] \in {"told", "idle"}

\* Where a call under way stands: the polls it has left, the legs before it, and
\* what its stream still has to carry.
Underway(c) == phase[c] \in {"sent", "streaming", "answered"}

Legs(c) ==
    IF phase[c] = "sent" THEN 4
    ELSE IF phase[c] = "streaming" THEN 3
    ELSE IF phase[c] = "answered" THEN IF answer[c].from = "server" THEN 2 ELSE 1
    ELSE 0

Left(c) == IF phase[c] = "streaming" THEN Length(c) - answer[c].count ELSE 0

Place(c) == <<polls[c], Legs(c), Left(c)>>

Before(x, y) ==
    \/ x[1] < y[1]
    \/ x[1] = y[1] /\ (x[2] < y[2] \/ (x[2] = y[2] /\ x[3] < y[3]))

\* Every step that touches a call under way, its caller's, the server's, the network's
\* or a proxy's, brings it nearer to its end: nothing is polled, streamed or answered
\* round in a circle (client/read.go:71).
CallsRunDown ==
    [][\A c \in Callers : Underway(c) =>
          \/ UNCHANGED <<phase[c], ask[c], decided[c], answer[c], told[c], polls[c]>>
          \/ Before(Place(c)', Place(c))]_vars

-----------------------------------------------------------------------------
(* The inductive invariant: what each leg of the way has established.      *)

\* A validator names the value it came with.
Validates(tag, a, count) ==
    /\ tag # << >> /\ tag = Etag(a.op, a.id, count)
    /\ a.op \in ClaimReads => count = 0

\* What a caller asks is a request it may build, and a validator it holds is of the
\* version it kept.
AskFits(c) ==
    phase[c] # "idle" =>
        /\ ask[c].op \in Operations /\ ask[c].id \in Ids
        /\ ask[c].report => ask[c].op = "Query"
        /\ \A h \in ask[c].held : Validates(h.tag, ask[c], h.count)
        /\ c \in Clients =>
              /\ ask[c].fn \in Functions /\ ask[c].op = OperationOf(ask[c].fn, ask[c].scope)
              /\ ask[c].formed /\ ~ask[c].several /\ ask[c].held = {} /\ ~ask[c].any
              /\ ask[c].fn \in {"Query", "QueryClaims"} => routesAreReadable(ask[c].output)

\* What core ran is the request that the route of what was asked makes, with an
\* outcome of that request's.
RunOf(a) == Handled(a.op, Arguments(a.op, Wire(a)), a)

RunFits(c) ==
    decided[c] # NotRun =>
        /\ phase[c] \notin {"idle", "sent"}
        /\ decided[c].core = RunOf(ask[c]).core /\ decided[c].scope = RunOf(ask[c]).scope
        /\ decided[c].id = RunOf(ask[c]).id
        /\ decided[c].outcome \in Outcomes(c, RunOf(ask[c]))
        /\ ask[c].op \in ClaimReads => decided[c].count = 0
        /\ ask[c].op = "Query" /\ decided[c].outcome = "done" =>
              EngineAccepts(Pinned(ask[c].output))

\* The answer on its way is the server's to what core decided, as far as it is
\* written, or is a proxy's and shows it.
Refuses(c) ==
    /\ phase[c] = "answered" /\ answer[c] = writeError(answer[c].code)
    /\ answer[c].code \in Categories \cup {"internal"}
    /\ c \in Clients => decided[c].outcome = answer[c].code

InParts(c) == ask[c].op \in Contents \cup {"Query"} /\ answer[c].status = 200

Serves(c) ==
    LET whole == respond(ask[c].op, ask[c].id, decided[c].count, ask[c])
    IN  /\ decided[c].outcome = "done"
        /\ answer[c].status = whole.status /\ answer[c].body = whole.body
        /\ answer[c].code = "none" /\ ~answer[c].dated /\ answer[c].tag = whole.tag
        /\ IF InParts(c) THEN answer[c].count <= Length(c) ELSE answer[c].count = decided[c].count
        /\ answer[c].report => InParts(c) /\ answer[c].count = Length(c)

Interposes(c) ==
    /\ phase[c] = "answered" /\ answer[c].tag = << >>
    /\ answer[c].body \in {"text", "foreign", "mangled"} /\ answer[c].status # 304

AnswerFits(c) ==
    /\ phase[c] = "streaming" => answer[c].from = "server" /\ InParts(c) /\ Serves(c)
    /\ phase[c] \in {"streaming", "answered"} =>
          \/ answer[c].from = "server" /\ (Refuses(c) \/ Serves(c))
          \/ answer[c].from = "proxy" /\ Interposes(c)

\* A caller is told once its call is over, and a validator it was given names what
\* it was told.
TellFits(c) ==
    /\ told[c] # Nothing => phase[c] = "told"
    /\ told[c].kind = "raw" => c \in Others
    /\ told[c].kind = "raw" /\ told[c].tag # << >> =>
          Validates(told[c].tag, ask[c], told[c].count)
    /\ told[c].kind = "value" /\ ask[c].fn \in {"Query", "QueryClaims"} => told[c].from = "server"

IInv ==
    /\ TypeOK
    /\ \A c \in Callers : AskFits(c) /\ RunFits(c) /\ AnswerFits(c) /\ TellFits(c)
    /\ ToldIsDecided /\ ReadsAreGranted /\ ResultsReadBack /\ RevalidatedIsCurrent
=============================================================================
