---------------------------- MODULE ResultRecords ----------------------------
(***************************************************************************)
(* The records of a query's answer: the kind of result the read engine     *)
(* yields for an output (external), the form the server writes it in       *)
(* (internal/core/serve.go) and the kind the client reads off that form    *)
(* (client/seq.go), no tag travelling beside it.  A form is all a reader   *)
(* can tell: the JSON shape or the CBOR major type, for a map that of its  *)
(* first key, for a JSON object whether it has a claim's two fields.       *)
(***************************************************************************)
EXTENDS FiniteSets

Outputs == [detail : {"id", "claim", "envelope"}, shape : {"claim", "path"},
            encoding : {"native", "json", "cbor"}]

\* The encoding core pins before the engine runs.
Pinned(output) ==
    IF output.encoding = "native" THEN [output EXCEPT !.encoding = "json"] ELSE output

\* A stored record has no JSON rendering.
EngineAccepts(output) == output.detail = "envelope" => output.encoding = "cbor"

KindOf(output) ==
    LET single == output.shape = "claim"
    IN  CASE output.detail = "id"       -> IF single THEN "ClaimId" ELSE "PathId"
          [] output.detail = "claim"    -> IF single THEN "ClaimEncoded" ELSE "PathEncoded"
          [] output.detail = "envelope" -> IF single THEN "ClaimEnvelope" ELSE "PathEnvelope"

\* One record a result, but for a route of claims: one record a claim.
RecordsOf(kind, routeLength) ==
    IF kind \in {"PathEncoded", "PathEnvelope"} THEN routeLength ELSE 1

\* The form of one record, the report's included.
FormOf(kind, encoding) ==
    IF encoding = "cbor"
    THEN CASE kind = "ClaimId" -> "text"
           [] kind = "PathId"  -> "array"
           [] kind \in {"ClaimEncoded", "PathEncoded"}   -> "map_of_integers"
           [] kind \in {"ClaimEnvelope", "PathEnvelope"} -> "tag"
           [] kind = "Report"  -> "map_of_texts"
    ELSE CASE kind = "ClaimId" -> "string"
           [] kind = "PathId"  -> "list"
           [] kind \in {"ClaimEncoded", "PathEncoded"}   -> "object_of_a_claim"
           [] kind = "Report"  -> "object"

decodeJSONRecord(form) ==
    CASE form = "string" -> "ClaimId"
      [] form = "list"   -> "PathId"
      [] form = "object_of_a_claim" -> "ClaimEncoded"
      [] form = "object" -> "Report"
      [] OTHER -> "unknown"

decodeCBORRecord(form) ==
    CASE form = "text"  -> "ClaimId"
      [] form = "array" -> "PathId"
      [] form = "map_of_integers" -> "ClaimEncoded"
      [] form = "map_of_texts"    -> "Report"
      [] form = "tag"   -> "ClaimEnvelope"
      [] OTHER -> "unknown"

decodeRecord(form, encoding) ==
    IF encoding = "cbor" THEN decodeCBORRecord(form) ELSE decodeJSONRecord(form)

\* Query refuses to send what it could not tell apart again; QueryClaims
\* asks for stored records, and no report.
routesAreReadable(output) == ~(output.shape = "path" /\ output.detail # "id")
QueryClaimsOutput == [detail |-> "envelope", shape |-> "claim", encoding |-> "cbor"]
=============================================================================
