------------------------- MODULE AuthorisedArchive -------------------------
(***************************************************************************)
(* What the contribute endpoint promises, with nothing of how: an archive  *)
(* that grows by atomic merges, each permitted, at the instant it happens, *)
(* by the grants of whoever asked, and answers that tell what happened.    *)
(***************************************************************************)
EXTENDS BranchTables, Sequences, Naturals

CONSTANTS Requests

VARIABLES
    tables,  \* every branch table there has been; the last is the archive
    asked,   \* what each request asked, and as whom
    merged,  \* the index of the table a request's claims landed in, or 0
    told     \* what each request was told

avars == <<tables, asked, merged, told>>

Nobody == [grants |-> {}, caveats |-> {}]
NoBody == [branches |-> {}, creatable |-> {}, referencable |-> {},
           adds |-> [b \in BranchNames |-> {}], decodes |-> TRUE, sound |-> TRUE]

Last == tables[Len(tables)]

Readable(who, table) ==
    IF Allow(who, Read, Universe)
    THEN Claims
    ELSE UNION {table.holds[b] : b \in {n \in BranchNames : Allow(who, Read, n)}}

(* What the grants of who allow of a body, against one branch table.       *)
Permitted(body, who, table) ==
    /\ body.branches # {}
    /\ \A b \in body.branches : Allow(who, Contribute, b)
    /\ \A b \in BranchNames \ body.branches : body.adds[b] = {}
    /\ MissingBranches(table, body.branches) # {} =>
           /\ Allow(who, Contribute, Branches)
           /\ MissingBranches(table, body.branches) \subseteq body.creatable
    /\ AllAdds(body) \cap TableClaims # {} => Allow(who, Contribute, Branches)
    /\ \A b \in BranchNames : Imports(body, b, table) \subseteq Readable(who, table)

AInit ==
    /\ tables = <<FoundedTable>>
    /\ asked = [r \in Requests |-> [body |-> NoBody, who |-> Nobody]]
    /\ merged = [r \in Requests |-> 0]
    /\ told = [r \in Requests |-> "unasked"]

AAsk(r) ==
    /\ told[r] = "unasked"
    /\ asked' \in [Requests -> [body : Body, who : Principal]]
    /\ \A q \in Requests \ {r} : asked'[q] = asked[q]
    /\ told' = [told EXCEPT ![r] = "nothing"]
    /\ UNCHANGED <<tables, merged>>

AMerge(B) ==
    /\ B # {}
    /\ \A r \in B : /\ told[r] = "nothing"
                    /\ merged[r] = 0
                    /\ Permitted(asked[r].body, asked[r].who, Last)
    /\ tables' = Append(tables, Fold(Last, {asked[r].body : r \in B}))
    /\ merged' = [r \in Requests |-> IF r \in B THEN Len(tables) + 1 ELSE merged[r]]
    /\ UNCHANGED <<asked, told>>

(* A request is told it succeeded only once its claims are in, and that it *)
(* is refused only when they are not and never will be. One told of a      *)
(* failure of the server knows neither; one cut off is told nothing.       *)
ATell(r) ==
    /\ told[r] = "nothing"
    /\ \E word \in {"created", "refused", "failed"} :
          /\ word = "created" => merged[r] > 0
          /\ word = "refused" => merged[r] = 0
          /\ told' = [told EXCEPT ![r] = word]
    /\ UNCHANGED <<tables, asked, merged>>

ACutOff(B) ==
    /\ B # {}
    /\ \A r \in B : told[r] = "nothing"
    /\ told' = [r \in Requests |-> IF r \in B THEN "cut off" ELSE told[r]]
    /\ UNCHANGED <<tables, asked, merged>>

ANext ==
    \/ \E r \in Requests : AAsk(r) \/ ATell(r)
    \/ \E B \in SUBSET Requests : AMerge(B) \/ ACutOff(B)

ASpec == AInit /\ [][ANext]_avars
=============================================================================
