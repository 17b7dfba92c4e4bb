---------------------------- MODULE Contribution ----------------------------
(***************************************************************************)
(* The contribute arm of internal/core/execute.go: many requests in flight *)
(* at once, each taking its snapshots, narrowing what its body declares to *)
(* what its grants allow, and driving one contribution through ranke-go's  *)
(* Sequencer. Between any two calls the archive may move under a request,  *)
(* and at any point the stack may fail, the client go away or the server   *)
(* stop; the claims written and the bookmarked head outlive all of them.   *)
(***************************************************************************)
EXTENDS BranchTables, Sequences, Naturals, FiniteSets

CONSTANTS
    Requests,    \* the requests that may be made
    Bodies,      \* the bodies a request may carry
    Principals   \* the principals a credential may resolve to

ASSUME BodiesAssumption == Bodies \subseteq Body
ASSUME PrincipalsAssumption == Principals \subseteq Principal

VARIABLES
    tables,   \* the branch tables the bookmark list has named; the last is the head
    stored,   \* the claims the storage stack holds
    req       \* each request's progress through contribute

vars == <<tables, stored, req>>

InFlight == {"asked", "opened", "declared", "narrowed", "pinned", "added",
             "verified", "persisted", "merged"}
PCs == InFlight \cup {"idle", "answered", "lost"}

(* What a call on the library can fail with: a defect of the contribution,  *)
(* a head that moved, or a stack, whatever the contribution, that cannot    *)
(* answer, in a way the library has an error for or in another.             *)
StackErrors == {"NotFound", "Unsupported", "SequencerGenesis", "StackFault"}
LibErrors == StackErrors \cup {"QueryTimeOperand", "BranchNotCreatable",
                "UnreadableReference", "ReservedType", "Undeclared",
                "RuleBroken", "HeadConflict"}

(* What an answer can be; "conflict" and "busy" are core's other two.       *)
Categories == {"created", "forbidden", "invalid", "not_found", "unimplemented",
               "busy", "conflict", "internal"}

(* The refusals that blame what was sent, or who sent it. *)
CallersFault == {"forbidden", "invalid"}

Constraints == [referencable : SUBSET (BranchNames \cup {Universe}),
                creatable    : SUBSET BranchNames,
                lifted       : BOOLEAN]

Request == [pc     : PCs,
            body   : Body,
            who    : Principal,
            snap   : Nat,          \* the snapshot contribute resolved
            base   : Nat,          \* the head NewContribution opened against
            eff    : Constraints,  \* the effective constraints
            head   : Nat,          \* the head the merge advanced to, or 0
            answer : Categories \cup {"none"}]

NoRequest ==
    [pc |-> "idle",
     body |-> [branches |-> {}, creatable |-> {}, referencable |-> {},
               adds |-> [b \in BranchNames |-> {}], decodes |-> TRUE, sound |-> TRUE],
     who |-> [grants |-> {}, caveats |-> {}],
     snap |-> 0, base |-> 0,
     eff |-> [referencable |-> {}, creatable |-> {}, lifted |-> FALSE],
     head |-> 0, answer |-> "none"]

HeadIndex == Len(tables)
Current == tables[HeadIndex]

Init ==
    /\ tables = <<FoundedTable>>
    /\ stored = {FoundedClaim}
    /\ req = [r \in Requests |-> NoRequest]

(* mapLibError: Nothing maps to "conflict". *)
MapLibError(e) ==
    CASE e = "NotFound"         -> "not_found"
      [] e = "Unsupported"      -> "unimplemented"
      [] e = "QueryTimeOperand" -> "invalid"
      [] e = "SequencerGenesis" -> "busy"
      [] e \in {"BranchNotCreatable", "UnreadableReference", "ReservedType"} -> "forbidden"
      [] OTHER                  -> "internal"

(* mapVerifyError: what has no category is the contribution's defect. *)
MapVerifyError(e) ==
    IF MapLibError(e) = "internal" THEN "invalid" ELSE MapLibError(e)

(* AddWire's failures are all the caller's. *)
MapWireError(e) == "invalid"

Refuse(r, category) ==
    req' = [req EXCEPT ![r].pc = "answered", ![r].answer = category]

-----------------------------------------------------------------------------
Open(r) ==
    /\ req[r].pc = "idle"
    /\ \E body \in Bodies, who \in Principals :
           req' = [req EXCEPT ![r].pc = "asked", ![r].body = body, ![r].who = who]
    /\ UNCHANGED <<tables, stored>>

(* execute resolves a snapshot before it chooses the arm. The contribute   *)
(* arm never reads it: it matters only in that resolving it may fail.      *)
Resolve(r) ==
    /\ req[r].pc = "asked"
    /\ req' = [req EXCEPT ![r].pc = "opened"]
    /\ UNCHANGED <<tables, stored>>

(* There is a body, its constraints decode, and they name a branch. *)
DeclaresBranches(body) == body.decodes /\ body.branches # {}

(* contribute reads the header and resolves a snapshot of its own. *)
Declare(r) ==
    /\ req[r].pc = "opened"
    /\ IF DeclaresBranches(req[r].body)
       THEN req' = [req EXCEPT ![r].pc = "declared", ![r].snap = HeadIndex]
       ELSE Refuse(r, "invalid")
    /\ UNCHANGED <<tables, stored>>

(* readableScopes, liftedTypes and creatableBranches: the grants as sets   *)
(* the Sequencer can enforce, over the branches of one snapshot.           *)
ReadableScopes(who, table) ==
    IF Allow(who, Read, Universe)
    THEN {Universe}
    ELSE {b \in table.names : Allow(who, Read, b)}

LiftedTypes(who) == Allow(who, Contribute, Branches)

CreatableBranches(who, table, declared) ==
    IF Allow(who, Contribute, Branches)
    THEN MissingBranches(table, declared)
    ELSE {}

(* Narrow takes the overlap of two sets of scopes, $universe holding all.  *)
OverlapScopes(ss, granted) ==
    IF Universe \in granted THEN ss
    ELSE IF Universe \in ss THEN granted
    ELSE ss \cap granted

Effective(body, who, table) ==
    [referencable |-> OverlapScopes(body.referencable, ReadableScopes(who, table)),
     creatable |-> body.creatable \cap CreatableBranches(who, table, body.branches),
     lifted |-> LiftedTypes(who)]

(* Mutant: C is asked of one declared branch instead of each. *)
AuthoriseAny(r) ==
    /\ req[r].pc = "declared"
    /\ IF \E b \in req[r].body.branches : Allow(req[r].who, Contribute, b)
       THEN req' = [req EXCEPT
                ![r].pc = "narrowed",
                ![r].eff = Effective(req[r].body, req[r].who, tables[req[r].snap])]
       ELSE Refuse(r, "forbidden")
    /\ UNCHANGED <<tables, stored>>

MayContribute(who, body) == \A b \in body.branches : Allow(who, Contribute, b)

(* C on every declared branch, then the narrowing. *)
Authorise(r) ==
    /\ req[r].pc = "declared"
    /\ IF MayContribute(req[r].who, req[r].body)
       THEN req' = [req EXCEPT
                ![r].pc = "narrowed",
                ![r].eff = Effective(req[r].body, req[r].who, tables[req[r].snap])]
       ELSE Refuse(r, "forbidden")
    /\ UNCHANGED <<tables, stored>>

(* Mutant: the branches that may be created are asked of the snapshot only. *)
NewContributionUnchecked(r) ==
    /\ req[r].pc = "narrowed"
    /\ req' = [req EXCEPT ![r].pc = "pinned", ![r].base = HeadIndex]
    /\ UNCHANGED <<tables, stored>>

(* NewContribution opens against the head of its own moment. *)
NewContribution(r) ==
    /\ req[r].pc = "narrowed"
    /\ IF MissingBranches(Current, req[r].body.branches) \subseteq req[r].eff.creatable
       THEN req' = [req EXCEPT ![r].pc = "pinned", ![r].base = HeadIndex]
       ELSE Refuse(r, MapLibError("BranchNotCreatable"))
    /\ UNCHANGED <<tables, stored>>

(* A claim joins only a branch the body declared. *)
AddsUndeclared(body) ==
    \E b \in BranchNames \ body.branches : body.adds[b] # {}

AddWire(r) ==
    /\ req[r].pc = "pinned"
    /\ IF AddsUndeclared(req[r].body)
       THEN Refuse(r, MapWireError("Undeclared"))
       ELSE req' = [req EXCEPT ![r].pc = "added"]
    /\ UNCHANGED <<tables, stored>>

(* CompleteAndVerify judges the claims against the base: the reserved      *)
(* types, what the closing would pull in, and the rules of a claim.        *)
Defects(q) ==
    LET table == tables[q.base]
    IN  {e \in {"ReservedType"} : AllAdds(q.body) \cap TableClaims # {} /\ ~q.eff.lifted}
          \cup {e \in {"UnreadableReference"} :
                   \E b \in BranchNames :
                      ~ Imports(q.body, b, table)
                          \subseteq Reach(q.eff.referencable, table, stored)}
          \cup {e \in {"RuleBroken"} : ~q.body.sound}

CompleteAndVerify(r) ==
    /\ req[r].pc = "added"
    /\ \/ /\ Defects(req[r]) = {}
          /\ req' = [req EXCEPT ![r].pc = "verified"]
       \/ \E e \in Defects(req[r]) : Refuse(r, MapVerifyError(e))
    /\ UNCHANGED <<tables, stored>>

(* Persist writes claim by claim, so a fault or a crash may come between. *)
PersistClaim(r) ==
    /\ req[r].pc = "verified"
    /\ \E c \in AllAdds(req[r].body) \ stored : stored' = stored \cup {c}
    /\ UNCHANGED <<tables, req>>

Persist(r) ==
    /\ req[r].pc = "verified"
    /\ AllAdds(req[r].body) \subseteq stored
    /\ req' = [req EXCEPT ![r].pc = "persisted"]
    /\ UNCHANGED <<tables, stored>>

(* Mutant: a contribution is merged before it is persisted. *)
MergeUnpersisted(B) ==
    /\ B # {}
    /\ \A r \in B : req[r].pc \in {"verified", "persisted"}
    /\ tables' = Append(tables, Fold(Current, {req[r].body : r \in B}))
    /\ req' = [r \in Requests |->
                  IF r \in B
                  THEN [req[r] EXCEPT !.pc = "merged", !.head = HeadIndex + 1]
                  ELSE req[r]]
    /\ UNCHANGED stored

(* Merge: one head advance absorbs one contribution (the dev sequencer) or *)
(* a batch of them (the concurrent one), onto the head of that moment.     *)
Merge(B) ==
    /\ B # {}
    /\ \A r \in B : req[r].pc = "persisted"
    /\ tables' = Append(tables, Fold(Current, {req[r].body : r \in B}))
    /\ req' = [r \in Requests |->
                  IF r \in B
                  THEN [req[r] EXCEPT !.pc = "merged", !.head = HeadIndex + 1]
                  ELSE req[r]]
    /\ UNCHANGED stored

(* The Sequencer may refuse a merge whose head moved since its base. *)
MergeConflicts(r) ==
    /\ req[r].pc = "persisted"
    /\ req[r].base < HeadIndex
    /\ Refuse(r, MapLibError("HeadConflict"))
    /\ UNCHANGED <<tables, stored>>

(* The receipt becomes the answer. *)
Answer(r) ==
    /\ req[r].pc = "merged"
    /\ req' = [req EXCEPT ![r].pc = "answered", ![r].answer = "created"]
    /\ UNCHANGED <<tables, stored>>

-----------------------------------------------------------------------------
(* Mutant: what Merge fails with is taken for the contribution's defect too. *)
FaultBlamesCaller(pc, e) ==
    CASE pc = "pinned" -> MapWireError(e)
      [] pc \in {"added", "merged"} -> MapVerifyError(e)
      [] OTHER         -> MapLibError(e)

(* A call on the library finds the stack unable to answer. Which step it   *)
(* was decides the answer.                                                 *)
FaultCategory(pc, e) ==
    CASE pc = "pinned" -> MapWireError(e)
      [] pc = "added"  -> MapVerifyError(e)
      [] OTHER         -> MapLibError(e)

(* What contribute can settle by itself it settles before it calls. *)
CallsLibrary(q) ==
    /\ q.pc \in InFlight
    /\ q.pc = "opened" => DeclaresBranches(q.body)
    /\ q.pc = "declared" => MayContribute(q.who, q.body)

(* Merge, too, may fail once the head has moved: then the claims are in     *)
(* and the caller is told of a fault.                                       *)
StackFault(r) ==
    /\ CallsLibrary(req[r])
    /\ \E e \in StackErrors : Refuse(r, FaultCategory(req[r].pc, e))
    /\ UNCHANGED <<tables, stored>>

(* The client goes away and its context is cancelled, or the server stops. *)
CutOff(B) ==
    /\ req' = [r \in Requests |->
                  IF r \in B /\ req[r].pc \in InFlight
                  THEN [req[r] EXCEPT !.pc = "lost"]
                  ELSE req[r]]
    /\ UNCHANGED <<tables, stored>>

Disconnect(r) == req[r].pc \in InFlight /\ CutOff({r})
Restart == (\E r \in Requests : req[r].pc \in InFlight) /\ CutOff(Requests)

Advance(r) ==
    \/ Resolve(r)
    \/ Declare(r)
    \/ Authorise(r)
    \/ NewContribution(r)
    \/ AddWire(r)
    \/ CompleteAndVerify(r)
    \/ PersistClaim(r)
    \/ Persist(r)
    \/ \E B \in SUBSET Requests : r \in B /\ Merge(B)
    \/ MergeConflicts(r)
    \/ Answer(r)

Next ==
    \/ \E r \in Requests : Open(r) \/ Advance(r) \/ StackFault(r) \/ Disconnect(r)
    \/ Restart

Spec == Init /\ [][Next]_vars

-----------------------------------------------------------------------------
TypeOK ==
    /\ tables \in Seq(Table) /\ HeadIndex > 0
    /\ stored \in SUBSET Claims
    /\ req \in [Requests -> Request]

(* No head ever points at a claim that failed to persist: every claim every *)
(* branch table reaches is stored, whatever was interrupted.                *)
HeadIsPersisted ==
    \A k \in 1 .. HeadIndex : \A b \in BranchNames : tables[k].holds[b] \subseteq stored

(* A success names a head under which everything sent is on its branch. A   *)
(* refusal that blames the caller means that nothing of the request entered *)
(* any table, then or later. A fault says neither (execute.go:465-468).     *)
AnswersAreTrue ==
    \A r \in Requests :
        /\ req[r].answer = "created" =>
               /\ req[r].head \in 1 .. HeadIndex
               /\ \A b \in BranchNames :
                      req[r].body.adds[b] \subseteq tables[req[r].head].holds[b]
        /\ req[r].answer \in CallersFault => req[r].head = 0

(* However many heads passed between the snapshot the grants were expanded  *)
(* over and the merge, what was merged is what the principal's grants allow *)
(* of the archive it was merged onto; and answers tell what happened.       *)
Told(q) ==
    CASE q.pc = "idle" -> "unasked"
      [] q.pc \in InFlight -> "nothing"
      [] q.pc = "lost" -> "cut off"
      [] OTHER -> IF q.answer = "created" THEN "created"
                  ELSE IF q.answer \in CallersFault THEN "refused" ELSE "failed"

Archive == INSTANCE AuthorisedArchive WITH
    asked  <- [r \in Requests |-> [body |-> req[r].body, who |-> req[r].who]],
    merged <- [r \in Requests |-> req[r].head],
    told   <- [r \in Requests |-> Told(req[r])]

ImplementsArchive == Archive!ASpec

(* The table a merged request was merged onto. *)
MetTable(q) == tables[q.head - 1]

(* What only a reserved scope's own name confers was conferred by it, written *)
(* out with the right in a grant of the account and in every caveat of the    *)
(* token: no wildcard ever entered a branch, carried a branch table, or read  *)
(* past the branches it matches (access.go:211).                              *)
Names(who, right, scope) ==
    /\ \E g \in who.grants : g.glob.text = scope /\ right \in g.rights
    /\ \A g \in who.caveats : g.glob.text = scope /\ right \in g.rights

ReadsOfBranches(who, table) ==
    UNION {table.holds[b] : b \in {n \in BranchNames : Allow(who, Read, n)}}

ReservedByNameOnly ==
    \A r \in Requests : req[r].head # 0 =>
        LET q == req[r]
        IN  /\ \/ MissingBranches(MetTable(q), q.body.branches) # {}
               \/ AllAdds(q.body) \cap TableClaims # {}
               => Names(q.who, Contribute, Branches)
            /\ (\E b \in BranchNames :
                   ~ Imports(q.body, b, MetTable(q)) \subseteq ReadsOfBranches(q.who, MetTable(q)))
               => Names(q.who, Read, Universe)

(* "Caveats are successive attenuations": what was merged under a token would *)
(* have been permitted, by the very archive it met, under the same token with *)
(* any of its caveats, or all of them, taken away (access.go:180).            *)
AttenuationNarrows ==
    \A r \in Requests : req[r].head # 0 =>
        \A fewer \in SUBSET req[r].who.caveats :
            Archive!Permitted(req[r].body, [req[r].who EXCEPT !.caveats = fewer],
                              MetTable(req[r]))

-----------------------------------------------------------------------------
(* The inductive invariant. Tables only grow; each request carries, from    *)
(* the step that established it on, what that step established, against     *)
(* the table it was established on.                                         *)
Declared  == {"declared", "narrowed", "pinned", "added", "verified", "persisted", "merged"}
Narrowed  == Declared \ {"declared"}
Pinned    == Narrowed \ {"narrowed"}
Added     == Pinned \ {"pinned"}
Verified  == Added \ {"added"}
Persisted == Verified \ {"verified"}

TablesGrow ==
    \A i, j \in 1 .. HeadIndex : i <= j =>
        /\ tables[i].names \subseteq tables[j].names
        /\ \A b \in BranchNames : tables[i].holds[b] \subseteq tables[j].holds[b]

SnapshotsAreHeads(q) ==
    /\ q.pc \in Declared => q.snap \in 1 .. HeadIndex
    /\ q.pc \in Pinned => q.base \in q.snap .. HeadIndex

DeclaredNames(q) == q.pc \in Declared => DeclaresBranches(q.body)

NarrowedIsGranted(q) ==
    q.pc \in Narrowed =>
        /\ MayContribute(q.who, q.body)
        /\ q.eff = Effective(q.body, q.who, tables[q.snap])

PinnedIsCreatable(q) ==
    q.pc \in Pinned =>
        MissingBranches(tables[q.base], q.body.branches) \subseteq q.eff.creatable

AddedIsDeclared(q) == q.pc \in Added => ~ AddsUndeclared(q.body)

VerifiedHasNoDefect(q) == q.pc \in Verified => Defects(q) = {}

PersistedIsStored(q) == q.pc \in Persisted => AllAdds(q.body) \subseteq stored

HeadHolds(q) ==
    /\ q.head # 0 =>
           /\ q.pc \in {"merged", "answered", "lost"}
           /\ q.head \in 1 .. HeadIndex
           /\ \A b \in BranchNames : q.body.adds[b] \subseteq tables[q.head].holds[b]
    /\ q.pc = "merged" => q.head # 0
    /\ q.answer = "created" => q.head # 0
    /\ q.answer \in CallersFault => q.head = 0
    /\ q.pc = "answered" => q.answer # "none"
    /\ q.pc # "answered" => q.answer = "none"

RequestInv(q) ==
    /\ SnapshotsAreHeads(q)
    /\ DeclaredNames(q)
    /\ NarrowedIsGranted(q)
    /\ PinnedIsCreatable(q)
    /\ AddedIsDeclared(q)
    /\ VerifiedHasNoDefect(q)
    /\ PersistedIsStored(q)
    /\ HeadHolds(q)

IInv ==
    /\ TypeOK
    /\ TablesGrow
    /\ HeadIsPersisted
    /\ \A r \in Requests : RequestInv(req[r])

=============================================================================
