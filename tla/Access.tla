------------------------------- MODULE Access -------------------------------
(***************************************************************************)
(* The grants policy of internal/core/access/access.go: a grant confers    *)
(* CRUD rights over the branches a glob matches, an account holds any      *)
(* number of grants, and a token's caveats attenuate them.                 *)
(*                                                                         *)
(* A glob is abstracted to what a comparison can learn of it: the text     *)
(* itself, where that text names a scope literally, and the set of scope   *)
(* names path.Match says it matches. The shell pattern "*" matches every   *)
(* name, the reserved ones included: it is matchBranch that keeps it away  *)
(* from them, so that is modelled and not assumed.                         *)
(***************************************************************************)
CONSTANTS
    BranchNames   \* the ordinary branch names, none beginning with '$'

Universe    == "$universe"
ArchiveName == "$archive"
Branches    == "$branches"
Reserved    == {Universe, ArchiveName, "$sequencer", Branches}
Scopes      == BranchNames \cup Reserved

Contribute == "C"
Read       == "R"
Rights     == {Contribute, Read, "U", "D"}

ASSUME NamesAreOrdinary == BranchNames \cap Reserved = {}

(* The text of a glob that holds a wildcard: no scope is called this.      *)
Wildcard == "*?"

ASSUME WildcardIsNoScope == Wildcard \notin Scopes

(* A glob naming one scope, and one written with wildcards. A wildcard     *)
(* holds at least one character of "*?", which no reserved name contains.  *)
Literals  == {[text |-> s, matches |-> {s}] : s \in Scopes}
Wildcards == [text : {Wildcard}, matches : SUBSET Scopes]
Globs     == Literals \cup Wildcards

(* Texts that name no branch: one that begins with '$' and is not reserved, *)
(* one that begins with '_', and one with a letter no branch has. What they *)
(* would match is immaterial.                                               *)
UnknownReserved == "$other"
Malformed == [text : {UnknownReserved, "_private", "Main"}, matches : SUBSET Scopes]

(* The names that begin with '$'. *)
Dollar == Reserved \cup {UnknownReserved}

(* Every grant that can be written down, and those ParseGrant accepts:     *)
(* only R applies to $universe.                                            *)
GrantSpec == [rights : (SUBSET Rights) \ {{}}, glob : Globs \cup Malformed]

ParseGrantAccepts(g) ==
    IF g.glob.text \in Dollar
    THEN g.glob.text \in Reserved /\ (g.glob.text = Universe => g.rights = {Read})
    ELSE g.glob \notin Malformed

Grant == {g \in GrantSpec : ParseGrantAccepts(g)}

(* Mutant: every name is matched by pattern. *)
MatchByPattern(glob, scope) == scope \in glob.matches

(* matchBranch: a reserved name is reached by its literal alone.           *)
MatchBranch(glob, scope) ==
    \/ scope \in Reserved /\ glob.text = scope
    \/ scope \notin Reserved /\ scope \in glob.matches

(* Grant.Allows *)
Allows(g, right, scope) == right \in g.rights /\ MatchBranch(g.glob, scope)

(* A principal is the account's grants and the caveats of its token.       *)
Principal == [grants : SUBSET Grant, caveats : SUBSET Grant]

AnyAllows(gs, right, scope) == \E g \in gs : Allows(g, right, scope)

(* Mutant: caveats are alternatives, as grants are. *)
SomeCaveatAllows(gs, right, scope) ==
    gs = {} \/ \E g \in gs : Allows(g, right, scope)

AllAllows(gs, right, scope) == \A g \in gs : Allows(g, right, scope)

(* Checker.Allow *)
Allow(who, right, scope) ==
    AnyAllows(who.grants, right, scope) /\ AllAllows(who.caveats, right, scope)
=============================================================================
