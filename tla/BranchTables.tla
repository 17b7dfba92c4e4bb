---------------------------- MODULE BranchTables ----------------------------
(***************************************************************************)
(* What a contribution asks for, and what a branch table holds, as         *)
(* internal/core/execute.go uses them. The archive is ranke-go's: its      *)
(* branch table names branches and, through each branch's head, the claims *)
(* in that branch's closure. A table is immutable; a merge makes the next. *)
(***************************************************************************)
EXTENDS Access

CONSTANTS
    Claims,        \* content-addressed claims, the ones not yet written included
    Closure,       \* Closure[c]: every claim c references, directly or not
    TableClaims,   \* the claims of the reserved type contribution/branches
    FoundedBranch, \* the branch the archive was founded on
    FoundedClaim   \* the first contributor's claim, bound to it

ASSUME ClosureAssumption ==
    /\ Closure \in [Claims -> SUBSET Claims]
    /\ \A c \in Claims : \A d \in Closure[c] : Closure[d] \subseteq Closure[c]

ASSUME FoundingAssumption ==
    /\ FoundedBranch \in BranchNames
    /\ FoundedClaim \in Claims
    /\ Closure[FoundedClaim] = {}
    /\ TableClaims \subseteq Claims

(* A request body: the constraints its header declares, the claims it adds *)
(* to each branch, whether there is a body and its header decodes, and     *)
(* whether its claims keep the rules a verification judges (heights,       *)
(* signatures, hashes).                                                    *)
Body == [branches     : SUBSET BranchNames,
         creatable    : SUBSET BranchNames,
         referencable : SUBSET (BranchNames \cup {Universe}),
         adds         : [BranchNames -> SUBSET Claims],
         decodes      : BOOLEAN,
         sound        : BOOLEAN]

Table == [names : SUBSET BranchNames, holds : [BranchNames -> SUBSET Claims]]

FoundedTable ==
    [names |-> {FoundedBranch},
     holds |-> [b \in BranchNames |->
                   IF b = FoundedBranch THEN {FoundedClaim} ELSE {}]]

(* Archive.MissingBranches *)
MissingBranches(table, declared) == declared \ table.names

ClosureOf(cs) == cs \cup UNION {Closure[c] : c \in cs}

AllAdds(body) == UNION {body.adds[b] : b \in BranchNames}

(* Closing a contribution pulls every claim referenced from outside into   *)
(* the branch that references it.                                          *)
Absorbs(body, b) == ClosureOf(body.adds[b])

Imports(body, b, table) ==
    Absorbs(body, b) \ (body.adds[b] \cup table.holds[b])

(* The claims the scopes in ss reach: a branch's closure in the table, and *)
(* all that is persisted for $universe.                                    *)
Reach(ss, table, persisted) ==
    UNION ({table.holds[b] : b \in ss \cap BranchNames}
              \cup {p \in {persisted} : Universe \in ss})

(* A merge folds a set of bodies onto a table. *)
Fold(table, bodies) ==
    [names |-> table.names \cup UNION {body.branches : body \in bodies},
     holds |-> [b \in BranchNames |->
                   table.holds[b] \cup UNION {Absorbs(body, b) : body \in bodies}]]
=============================================================================
