------------------------ MODULE Contribution_proofs ------------------------
(***************************************************************************)
(* For any branches, claims, bodies, principals and number of requests: a  *)
(* head only ever reaches stored claims, merges drop nothing, answers are  *)
(* true, and the pipeline implements an archive that grows by atomic       *)
(* merges, each permitted against the archive it is merged onto.           *)
(*                                                                         *)
(* The argument rests on IInv: whatever a step established about a request *)
(* was established against some table of the history, tables only grow,    *)
(* and what the later steps need of that table survives growth.            *)
(***************************************************************************)
EXTENDS Contribution, TLAPS

-----------------------------------------------------------------------------
(* The operators the pipeline is built from. *)

LEMMA AbsorbsType ==
    ASSUME NEW body \in Body, NEW b \in BranchNames
    PROVE  /\ body.adds[b] \subseteq Absorbs(body, b)
           /\ Absorbs(body, b) \subseteq Claims
BY ClosureAssumption DEF Body, Absorbs, ClosureOf

LEMMA FoldType ==
    ASSUME NEW t \in Table, NEW bodies \in SUBSET Body
    PROVE  /\ Fold(t, bodies) \in Table
           /\ t.names \subseteq Fold(t, bodies).names
           /\ \A b \in BranchNames : t.holds[b] \subseteq Fold(t, bodies).holds[b]
<1>1. t.names \cup UNION {body.branches : body \in bodies} \subseteq BranchNames
  BY DEF Table, Body
<1>2. ASSUME NEW b \in BranchNames
      PROVE  t.holds[b] \cup UNION {Absorbs(body, b) : body \in bodies} \subseteq Claims
  <2>1. t.holds[b] \subseteq Claims
    BY DEF Table
  <2>2. \A body \in bodies : Absorbs(body, b) \subseteq Claims
    BY AbsorbsType
  <2> QED  BY <2>1, <2>2
<1> QED  BY <1>1, <1>2 DEF Fold, Table

(* A folded body's claims are held where the body put them, and whatever a *)
(* branch holds more than before, some folded body absorbed.               *)
LEMMA FoldHolds ==
    ASSUME NEW t \in Table, NEW bodies \in SUBSET Body, NEW b \in BranchNames
    PROVE  /\ Fold(t, bodies).holds[b]
                = t.holds[b] \cup UNION {Absorbs(body, b) : body \in bodies}
           /\ \A body \in bodies : body.adds[b] \subseteq Fold(t, bodies).holds[b]
<1>1. \A body \in bodies : body.adds[b] \subseteq Absorbs(body, b)
  BY AbsorbsType
<1> QED  BY <1>1 DEF Fold

LEMMA EffectiveType ==
    ASSUME NEW body \in Body, NEW who \in Principal, NEW t \in Table
    PROVE  Effective(body, who, t) \in Constraints
<1>1. ReadableScopes(who, t) \subseteq BranchNames \cup {Universe}
  BY DEF ReadableScopes, Table
<1>2. OverlapScopes(body.referencable, ReadableScopes(who, t))
        \subseteq BranchNames \cup {Universe}
  BY <1>1 DEF OverlapScopes, Body
<1>3. body.creatable \cap CreatableBranches(who, t, body.branches) \subseteq BranchNames
  BY DEF Body
<1>4. LiftedTypes(who) \in BOOLEAN
  BY DEF LiftedTypes, Allow
<1> QED  BY <1>2, <1>3, <1>4 DEF Effective, Constraints

LEMMA NoDefect ==
    ASSUME NEW q
    PROVE  Defects(q) = {} <=>
             /\ AllAdds(q.body) \cap TableClaims # {} => q.eff.lifted
             /\ \A b \in BranchNames :
                    Imports(q.body, b, tables[q.base])
                       \subseteq Reach(q.eff.referencable, tables[q.base], stored)
             /\ q.body.sound
BY DEF Defects

(* What the scopes reach only grows with the storage. *)
LEMMA ReachGrows ==
    ASSUME NEW ss, NEW t, NEW few, NEW many, few \subseteq many
    PROVE  Reach(ss, t, few) \subseteq Reach(ss, t, many)
<1> SUFFICES ASSUME NEW c \in Reach(ss, t, few) PROVE c \in Reach(ss, t, many)
  OBVIOUS
<1>1. (\E b \in ss \cap BranchNames : c \in t.holds[b]) \/ (c \in few /\ Universe \in ss)
  BY DEF Reach
<1> QED  BY <1>1 DEF Reach

LEMMA ReachStored ==
    ASSUME NEW ss, NEW t, NEW persisted,
           \A b \in BranchNames : t.holds[b] \subseteq persisted
    PROVE  Reach(ss, t, persisted) \subseteq persisted
BY DEF Reach

-----------------------------------------------------------------------------
(* The invariant. *)

LEMMA NoRequestType == NoRequest \in Request
<1>1. NoRequest.body \in Body
  BY DEF NoRequest, Body
<1>2. NoRequest.who \in Principal
  BY DEF NoRequest, Principal
<1>3. NoRequest.eff \in Constraints
  BY DEF NoRequest, Constraints
<1> QED  BY <1>1, <1>2, <1>3 DEF NoRequest, Request, PCs, Categories

LEMMA FoundedTableType == FoundedTable \in Table
BY FoundingAssumption DEF FoundedTable, Table

LEMMA InitIInv == Init => IInv
<1> SUFFICES ASSUME Init PROVE IInv
  OBVIOUS
<1> USE DEF Init
<1>1. HeadIndex = 1 /\ tables[1] = FoundedTable
  BY DEF HeadIndex
<1>2. TypeOK
  BY <1>1, NoRequestType, FoundedTableType, FoundingAssumption DEF TypeOK
<1>3. TablesGrow
  BY <1>1 DEF TablesGrow
<1>4. HeadIsPersisted
  <2>1. \A k \in 1 .. HeadIndex : k = 1
    BY <1>1
  <2>2. \A b \in BranchNames : FoundedTable.holds[b] \subseteq {FoundedClaim}
    BY DEF FoundedTable
  <2>3. \A b \in BranchNames : tables[1].holds[b] \subseteq stored
    BY <1>1, <2>2
  <2> QED  BY <2>1, <2>3 DEF HeadIsPersisted
<1>5. ASSUME NEW r \in Requests PROVE RequestInv(req[r])
  <2>1. req[r].pc = "idle" /\ req[r].head = 0 /\ req[r].answer = "none"
    BY DEF NoRequest
  <2> QED  BY <2>1 DEF RequestInv, SnapshotsAreHeads, NarrowedIsGranted, PinnedIsCreatable,
               AddedIsDeclared, VerifiedHasNoDefect, PersistedIsStored, HeadHolds, DeclaredNames,
               Declared, Narrowed, Pinned, Added, Verified, Persisted
<1> QED  BY <1>2, <1>3, <1>4, <1>5 DEF IInv

(* What holds of a request goes on holding while history is appended to    *)
(* and storage grows.                                                      *)
LEMMA Carried ==
    ASSUME IInv, NEW q \in Request, RequestInv(q),
           HeadIndex' \in Nat, HeadIndex <= HeadIndex',
           \A k \in 1 .. HeadIndex : tables'[k] = tables[k],
           stored \subseteq stored'
    PROVE  RequestInv(q)'
<1>0. HeadIndex \in Nat
  BY DEF IInv, TypeOK, HeadIndex
<1>a. q.snap \in Nat /\ q.base \in Nat /\ q.head \in Nat
  BY DEF Request
<1>b. \A k \in 1 .. HeadIndex : k \in 1 .. HeadIndex'
  BY <1>0
<1>c. \A k \in q.snap .. HeadIndex : k \in q.snap .. HeadIndex'
  BY <1>0, <1>a
<1>d. q.pc \in Pinned => q.pc \in Declared
  BY DEF Pinned, Narrowed
<1>1. SnapshotsAreHeads(q)'
  BY <1>b, <1>c DEF RequestInv, SnapshotsAreHeads
<1>2. q.pc \in Declared => tables'[q.snap] = tables[q.snap]
  BY DEF RequestInv, SnapshotsAreHeads
<1>3. q.pc \in Pinned => tables'[q.base] = tables[q.base]
  <2> SUFFICES ASSUME q.pc \in Pinned PROVE q.base \in 1 .. HeadIndex
    OBVIOUS
  <2>1. q.snap \in 1 .. HeadIndex /\ q.base \in q.snap .. HeadIndex
    BY <1>d DEF RequestInv, SnapshotsAreHeads
  <2> QED  BY <2>1, <1>0, <1>a
<1>e. DeclaredNames(q)'
  BY DEF RequestInv, DeclaredNames
<1>4. NarrowedIsGranted(q)'
  BY <1>2 DEF RequestInv, NarrowedIsGranted, Narrowed
<1>5. PinnedIsCreatable(q)'
  BY <1>3 DEF RequestInv, PinnedIsCreatable
<1>6. AddedIsDeclared(q)'
  BY DEF RequestInv, AddedIsDeclared
<1>7. VerifiedHasNoDefect(q)'
  <2> SUFFICES ASSUME q.pc \in Verified PROVE Defects(q)' = {}
    BY DEF VerifiedHasNoDefect
  <2>1. tables'[q.base] = tables[q.base]
    BY <1>3 DEF Verified, Added
  <2>2. Defects(q) = {}
    BY DEF RequestInv, VerifiedHasNoDefect
  <2>3. Reach(q.eff.referencable, tables[q.base], stored)
          \subseteq Reach(q.eff.referencable, tables[q.base], stored')
    BY ReachGrows
  <2>4. /\ AllAdds(q.body) \cap TableClaims # {} => q.eff.lifted
        /\ \A b \in BranchNames :
               Imports(q.body, b, tables[q.base])
                  \subseteq Reach(q.eff.referencable, tables[q.base], stored)
        /\ q.body.sound
    BY <2>2, NoDefect
  <2> QED  BY <2>1, <2>3, <2>4 DEF Defects
<1>8. PersistedIsStored(q)'
  BY DEF RequestInv, PersistedIsStored
<1>9. HeadHolds(q)'
  BY <1>b DEF RequestInv, HeadHolds
<1> QED  BY <1>1, <1>e, <1>4, <1>5, <1>6, <1>7, <1>8, <1>9 DEF RequestInv

(* A step of one request that moves neither the archive nor the storage.   *)
LEMMA LocalStep ==
    ASSUME IInv, NEW r \in Requests, NEW q \in Request, RequestInv(q),
           req' = [req EXCEPT ![r] = q], UNCHANGED <<tables, stored>>
    PROVE  IInv'
<1>1. TypeOK'
  BY DEF IInv, TypeOK, HeadIndex
<1>2. TablesGrow' /\ HeadIsPersisted'
  BY DEF IInv, TablesGrow, HeadIsPersisted, HeadIndex
<1>3. HeadIndex' \in Nat /\ HeadIndex <= HeadIndex'
  BY DEF IInv, TypeOK, HeadIndex
<1>4. ASSUME NEW p \in Requests PROVE RequestInv(req[p])'
  <2>1. PICK s : s = req'[p]
    OBVIOUS
  <2>2. s \in Request /\ RequestInv(s)
    BY <2>1 DEF IInv, TypeOK
  <2>3. RequestInv(s)'
    BY <1>3, <2>2, Carried
  <2> QED  BY <2>1, <2>3
<1> QED  BY <1>1, <1>2, <1>4 DEF IInv

-----------------------------------------------------------------------------
(* The steps of one request. *)

(* What a request in flight and short of its merge knows of its head. *)
LEMMA NotMerged ==
    ASSUME NEW q \in Request, RequestInv(q), q.pc \notin {"merged", "answered", "lost"}
    PROVE  q.head = 0 /\ q.answer = "none"
BY DEF RequestInv, HeadHolds

LEMMA Categorised ==
    ASSUME NEW e \in LibErrors
    PROVE  /\ MapLibError(e) \in Categories \ {"created"}
           /\ MapVerifyError(e) \in Categories \ {"created"}
           /\ MapWireError(e) \in Categories \ {"created"}
BY DEF LibErrors, StackErrors, MapLibError, MapVerifyError, MapWireError, Categories

(* A stack that cannot answer a merge is never the caller's fault.         *)
LEMMA FaultsCategorised ==
    ASSUME NEW e \in StackErrors, NEW pc
    PROVE  /\ FaultCategory(pc, e) \in Categories \ {"created"}
           /\ pc = "merged" => FaultCategory(pc, e) \notin CallersFault
<1>1. e \in LibErrors
  BY DEF LibErrors
<1>2. MapLibError(e) \notin CallersFault
  BY DEF StackErrors, MapLibError, CallersFault
<1>3. FaultCategory("merged", e) = MapLibError(e)
  BY DEF FaultCategory
<1>4. FaultCategory(pc, e) \in {MapWireError(e), MapVerifyError(e), MapLibError(e)}
  BY DEF FaultCategory
<1> QED  BY <1>1, <1>2, <1>3, <1>4, Categorised

LEMMA RefuseStep ==
    ASSUME IInv, NEW r \in Requests,
           req[r].pc \in InFlight,
           NEW category \in Categories \ {"created"},
           category \in CallersFault => req[r].pc # "merged",
           Refuse(r, category), UNCHANGED <<tables, stored>>
    PROVE  IInv'
<1>1. req[r] \in Request /\ RequestInv(req[r])
  BY DEF IInv, TypeOK
<1>2. PICK q : q = [req[r] EXCEPT !.pc = "answered", !.answer = category]
  OBVIOUS
<1>3. q \in Request
  BY <1>1, <1>2 DEF Request, PCs
<1>4. q.pc = "answered" /\ q.answer = category /\ q.head = req[r].head
         /\ q.body = req[r].body
  BY <1>1, <1>2 DEF Request
<1>5. category # "none" /\ category # "created"
  BY DEF Categories
<1>6. category \in CallersFault => req[r].head = 0
  BY <1>1, NotMerged DEF InFlight
<1>7. HeadHolds(q)
  BY <1>1, <1>4, <1>5, <1>6 DEF RequestInv, HeadHolds
<1>8. RequestInv(q)
  BY <1>4, <1>7 DEF RequestInv, SnapshotsAreHeads, NarrowedIsGranted, PinnedIsCreatable,
        AddedIsDeclared, VerifiedHasNoDefect, PersistedIsStored, DeclaredNames,
        Declared, Narrowed, Pinned, Added, Verified, Persisted
<1>9. req' = [req EXCEPT ![r] = q]
  BY <1>2 DEF Refuse, IInv, TypeOK
<1> QED  BY <1>3, <1>8, <1>9, LocalStep

LEMMA OpenStep ==
    ASSUME IInv, NEW r \in Requests, Open(r)
    PROVE  IInv'
<1>1. req[r] \in Request /\ RequestInv(req[r]) /\ req[r].pc = "idle"
  BY DEF IInv, TypeOK, Open
<1>2. PICK body \in Bodies, who \in Principals :
         req' = [req EXCEPT ![r].pc = "asked", ![r].body = body, ![r].who = who]
  BY DEF Open
<1>3. PICK q : q = [req[r] EXCEPT !.pc = "asked", !.body = body, !.who = who]
  OBVIOUS
<1>5. q \in Request
  BY <1>1, <1>3, BodiesAssumption, PrincipalsAssumption DEF Request, PCs, InFlight
<1>6. q.pc = "asked" /\ q.answer = "none" /\ q.head = 0
  BY <1>1, <1>3, NotMerged DEF Request
<1>7. RequestInv(q)
  BY <1>6 DEF RequestInv, SnapshotsAreHeads, NarrowedIsGranted, PinnedIsCreatable,
        AddedIsDeclared, VerifiedHasNoDefect, PersistedIsStored, HeadHolds, DeclaredNames,
        CallersFault, Declared, Narrowed, Pinned, Added, Verified, Persisted
<1>8. req' = [req EXCEPT ![r] = q]
  BY <1>2, <1>3 DEF IInv, TypeOK
<1> QED  BY <1>5, <1>7, <1>8, LocalStep DEF Open

LEMMA ResolveStep ==
    ASSUME IInv, NEW r \in Requests, Resolve(r)
    PROVE  IInv'
<1>1. req[r] \in Request /\ RequestInv(req[r]) /\ req[r].pc = "asked"
  BY DEF IInv, TypeOK, Resolve
<1>2. PICK q : q = [req[r] EXCEPT !.pc = "opened"]
  OBVIOUS
<1>3. q \in Request
  BY <1>1, <1>2 DEF Request, PCs, InFlight
<1>4. q.pc = "opened" /\ q.answer = "none" /\ q.head = 0
  BY <1>1, <1>2, NotMerged DEF Request
<1>5. RequestInv(q)
  BY <1>4 DEF RequestInv, SnapshotsAreHeads, NarrowedIsGranted, PinnedIsCreatable,
        AddedIsDeclared, VerifiedHasNoDefect, PersistedIsStored, HeadHolds, DeclaredNames,
        CallersFault, Declared, Narrowed, Pinned, Added, Verified, Persisted
<1>6. req' = [req EXCEPT ![r] = q]
  BY <1>2 DEF Resolve, IInv, TypeOK
<1> QED  BY <1>3, <1>5, <1>6, LocalStep DEF Resolve

LEMMA DeclareStep ==
    ASSUME IInv, NEW r \in Requests, Declare(r)
    PROVE  IInv'
<1>1. req[r] \in Request /\ RequestInv(req[r]) /\ req[r].pc = "opened"
  BY DEF IInv, TypeOK, Declare
<1>2. CASE Refuse(r, "invalid")
  <2>1. req[r].pc \in InFlight /\ req[r].pc # "merged"
    BY <1>1 DEF InFlight
  <2> QED  BY <1>2, <2>1, RefuseStep DEF Declare, Categories
<1>3. CASE /\ DeclaresBranches(req[r].body)
           /\ req' = [req EXCEPT ![r].pc = "declared", ![r].snap = HeadIndex]
  <2>1. PICK q : q = [req[r] EXCEPT !.pc = "declared", !.snap = HeadIndex]
    OBVIOUS
  <2>2. HeadIndex \in Nat \ {0}
    BY DEF IInv, TypeOK, HeadIndex
  <2>3. q \in Request
    BY <1>1, <2>1, <2>2 DEF Request, PCs, InFlight
  <2>4. /\ q.pc = "declared" /\ q.snap = HeadIndex /\ q.answer = "none" /\ q.head = 0
        /\ DeclaresBranches(q.body)
    BY <1>1, <1>3, <2>1, NotMerged DEF Request
  <2>5. q.snap \in 1 .. HeadIndex
    BY <2>2, <2>4
  <2>6. RequestInv(q)
    BY <2>4, <2>5 DEF RequestInv, SnapshotsAreHeads, NarrowedIsGranted, PinnedIsCreatable,
          AddedIsDeclared, VerifiedHasNoDefect, PersistedIsStored, HeadHolds, DeclaredNames,
          CallersFault, Narrowed, Pinned, Added, Verified, Persisted
  <2>7. req' = [req EXCEPT ![r] = q]
    BY <1>3, <2>1 DEF IInv, TypeOK
  <2> QED  BY <2>3, <2>6, <2>7, LocalStep DEF Declare
<1> QED  BY <1>2, <1>3 DEF Declare

LEMMA AuthoriseStep ==
    ASSUME IInv, NEW r \in Requests, Authorise(r)
    PROVE  IInv'
<1>1. req[r] \in Request /\ RequestInv(req[r]) /\ req[r].pc = "declared"
  BY DEF IInv, TypeOK, Authorise
<1>2. CASE Refuse(r, "forbidden")
  <2>1. req[r].pc \in InFlight /\ req[r].pc # "merged"
    BY <1>1 DEF InFlight
  <2> QED  BY <1>2, <2>1, RefuseStep DEF Authorise, Categories
<1>3. CASE /\ MayContribute(req[r].who, req[r].body)
           /\ req' = [req EXCEPT
                  ![r].pc = "narrowed",
                  ![r].eff = Effective(req[r].body, req[r].who, tables[req[r].snap])]
  <2>1. PICK q : q = [req[r] EXCEPT
                  !.pc = "narrowed",
                  !.eff = Effective(req[r].body, req[r].who, tables[req[r].snap])]
    OBVIOUS
  <2>2. req[r].snap \in 1 .. HeadIndex
    BY <1>1 DEF RequestInv, SnapshotsAreHeads, Declared
  <2>3. tables[req[r].snap] \in Table
    BY <2>2 DEF IInv, TypeOK, HeadIndex
  <2>4. Effective(req[r].body, req[r].who, tables[req[r].snap]) \in Constraints
    BY <1>1, <2>3, EffectiveType DEF Request
  <2>5. q \in Request
    BY <1>1, <2>1, <2>4 DEF Request, PCs, InFlight
  <2>6. /\ q.pc = "narrowed" /\ q.answer = "none" /\ q.head = 0
        /\ q.snap = req[r].snap /\ q.body = req[r].body /\ q.who = req[r].who
        /\ q.eff = Effective(q.body, q.who, tables[q.snap])
    BY <1>1, <2>1, NotMerged DEF Request
  <2>7. DeclaresBranches(req[r].body)
    BY <1>1 DEF RequestInv, DeclaredNames, Declared
  <2>8. RequestInv(q)
    BY <1>3, <2>2, <2>6, <2>7 DEF RequestInv, SnapshotsAreHeads, NarrowedIsGranted,
          PinnedIsCreatable, AddedIsDeclared, VerifiedHasNoDefect, PersistedIsStored,
          HeadHolds, DeclaredNames, CallersFault, Pinned, Added, Verified, Persisted
  <2>9. req' = [req EXCEPT ![r] = q]
    BY <1>3, <2>1 DEF IInv, TypeOK
  <2> QED  BY <2>5, <2>8, <2>9, LocalStep DEF Authorise
<1> QED  BY <1>2, <1>3 DEF Authorise

LEMMA NewContributionStep ==
    ASSUME IInv, NEW r \in Requests, NewContribution(r)
    PROVE  IInv'
<1>1. req[r] \in Request /\ RequestInv(req[r]) /\ req[r].pc = "narrowed"
  BY DEF IInv, TypeOK, NewContribution
<1>2. CASE Refuse(r, MapLibError("BranchNotCreatable"))
  <2>1. "BranchNotCreatable" \in LibErrors /\ req[r].pc \in InFlight /\ req[r].pc # "merged"
    BY <1>1 DEF LibErrors, InFlight
  <2> QED  BY <1>2, <2>1, Categorised, RefuseStep DEF NewContribution
<1>3. CASE /\ MissingBranches(Current, req[r].body.branches) \subseteq req[r].eff.creatable
           /\ req' = [req EXCEPT ![r].pc = "pinned", ![r].base = HeadIndex]
  <2>1. PICK q : q = [req[r] EXCEPT !.pc = "pinned", !.base = HeadIndex]
    OBVIOUS
  <2>2. HeadIndex \in Nat
    BY DEF IInv, TypeOK, HeadIndex
  <2>3. q \in Request
    BY <1>1, <2>1, <2>2 DEF Request, PCs, InFlight
  <2>4. /\ q.pc = "pinned" /\ q.base = HeadIndex /\ q.answer = "none" /\ q.head = 0
        /\ q.body = req[r].body /\ q.who = req[r].who /\ q.snap = req[r].snap
        /\ q.eff = req[r].eff
    BY <1>1, <2>1, NotMerged DEF Request
  <2>5. req[r].snap \in 1 .. HeadIndex /\ DeclaresBranches(req[r].body)
    BY <1>1 DEF RequestInv, SnapshotsAreHeads, DeclaredNames, Declared
  <2>6. SnapshotsAreHeads(q)
    BY <2>2, <2>4, <2>5 DEF SnapshotsAreHeads
  <2>7. NarrowedIsGranted(q)
    BY <1>1, <2>4 DEF RequestInv, NarrowedIsGranted, Narrowed, Declared
  <2>8. RequestInv(q)
    BY <1>3, <2>4, <2>5, <2>6, <2>7 DEF RequestInv, PinnedIsCreatable, AddedIsDeclared,
          VerifiedHasNoDefect, PersistedIsStored, HeadHolds, DeclaredNames, CallersFault, Current,
          Added, Verified, Persisted
  <2>9. req' = [req EXCEPT ![r] = q]
    BY <1>3, <2>1 DEF IInv, TypeOK
  <2> QED  BY <2>3, <2>8, <2>9, LocalStep DEF NewContribution
<1> QED  BY <1>2, <1>3 DEF NewContribution

(* A step that only moves a request on keeps all that is known of it, and  *)
(* adds what it established.                                               *)
LEMMA MovedOn ==
    ASSUME NEW q \in Request, RequestInv(q), q.pc \in Pinned, q.pc # "merged",
           NEW p \in Request,
           NEW pc \in {"added", "verified", "persisted"},
           p = [q EXCEPT !.pc = pc],
           AddedIsDeclared(p), VerifiedHasNoDefect(p), PersistedIsStored(p)
    PROVE  RequestInv(p)
<1>1. /\ p.pc = pc /\ p.body = q.body /\ p.who = q.who /\ p.eff = q.eff
      /\ p.snap = q.snap /\ p.base = q.base /\ p.head = q.head /\ p.answer = q.answer
  BY DEF Request
<1>2. q.pc \in Narrowed /\ q.pc \in Declared
  BY DEF Pinned, Narrowed
<1>3. q.head = 0 /\ q.answer = "none"
  BY NotMerged DEF Pinned, Narrowed, Declared
<1>4. HeadHolds(p)
  BY <1>1, <1>3 DEF HeadHolds, CallersFault
<1>5. SnapshotsAreHeads(p) /\ DeclaredNames(p)
  BY <1>1, <1>2 DEF RequestInv, SnapshotsAreHeads, DeclaredNames
<1>6. NarrowedIsGranted(p) /\ PinnedIsCreatable(p)
  BY <1>1, <1>2 DEF RequestInv, NarrowedIsGranted, PinnedIsCreatable
<1> QED  BY <1>4, <1>5, <1>6 DEF RequestInv

LEMMA AddWireStep ==
    ASSUME IInv, NEW r \in Requests, AddWire(r)
    PROVE  IInv'
<1>1. req[r] \in Request /\ RequestInv(req[r]) /\ req[r].pc = "pinned"
  BY DEF IInv, TypeOK, AddWire
<1>2. CASE Refuse(r, MapWireError("Undeclared"))
  <2>1. "Undeclared" \in LibErrors /\ req[r].pc \in InFlight /\ req[r].pc # "merged"
    BY <1>1 DEF LibErrors, InFlight
  <2> QED  BY <1>2, <2>1, Categorised, RefuseStep DEF AddWire
<1>3. CASE ~ AddsUndeclared(req[r].body) /\ req' = [req EXCEPT ![r].pc = "added"]
  <2>1. PICK q : q = [req[r] EXCEPT !.pc = "added"]
    OBVIOUS
  <2>2. q \in Request
    BY <1>1, <2>1 DEF Request, PCs, InFlight
  <2>3. q.pc = "added" /\ q.body = req[r].body
    BY <1>1, <2>1 DEF Request
  <2>4. AddedIsDeclared(q) /\ VerifiedHasNoDefect(q) /\ PersistedIsStored(q)
    BY <1>3, <2>3 DEF AddedIsDeclared, VerifiedHasNoDefect, PersistedIsStored,
          Verified, Persisted
  <2>5. RequestInv(q)
    BY <1>1, <2>1, <2>2, <2>4, MovedOn DEF Pinned, Narrowed, Declared
  <2>6. req' = [req EXCEPT ![r] = q]
    BY <1>3, <2>1 DEF IInv, TypeOK
  <2> QED  BY <2>2, <2>5, <2>6, LocalStep DEF AddWire
<1> QED  BY <1>2, <1>3 DEF AddWire

LEMMA CompleteAndVerifyStep ==
    ASSUME IInv, NEW r \in Requests, CompleteAndVerify(r)
    PROVE  IInv'
<1>1. req[r] \in Request /\ RequestInv(req[r]) /\ req[r].pc = "added"
  BY DEF IInv, TypeOK, CompleteAndVerify
<1>2. ASSUME NEW e \in Defects(req[r]), Refuse(r, MapVerifyError(e))
      PROVE  IInv'
  <2>1. e \in LibErrors /\ req[r].pc \in InFlight /\ req[r].pc # "merged"
    BY <1>1 DEF LibErrors, Defects, InFlight
  <2> QED  BY <1>2, <2>1, Categorised, RefuseStep DEF CompleteAndVerify
<1>3. CASE Defects(req[r]) = {} /\ req' = [req EXCEPT ![r].pc = "verified"]
  <2>1. PICK q : q = [req[r] EXCEPT !.pc = "verified"]
    OBVIOUS
  <2>2. q \in Request
    BY <1>1, <2>1 DEF Request, PCs, InFlight
  <2>3. q.pc = "verified" /\ q.body = req[r].body /\ q.eff = req[r].eff
           /\ q.base = req[r].base
    BY <1>1, <2>1 DEF Request
  <2>4. AddedIsDeclared(q) /\ PersistedIsStored(q)
    BY <1>1, <2>3 DEF RequestInv, AddedIsDeclared, PersistedIsStored, Added, Persisted,
          Verified, Pinned, Narrowed, Declared
  <2>5. VerifiedHasNoDefect(q)
    BY <1>3, <2>3 DEF VerifiedHasNoDefect, Defects
  <2>6. RequestInv(q)
    BY <1>1, <2>1, <2>2, <2>4, <2>5, MovedOn DEF Pinned, Narrowed, Declared
  <2>7. req' = [req EXCEPT ![r] = q]
    BY <1>3, <2>1 DEF IInv, TypeOK
  <2> QED  BY <2>2, <2>6, <2>7, LocalStep DEF CompleteAndVerify
<1> QED  BY <1>2, <1>3 DEF CompleteAndVerify

LEMMA PersistStep ==
    ASSUME IInv, NEW r \in Requests, Persist(r)
    PROVE  IInv'
<1>1. req[r] \in Request /\ RequestInv(req[r]) /\ req[r].pc = "verified"
  BY DEF IInv, TypeOK, Persist
<1>2. PICK q : q = [req[r] EXCEPT !.pc = "persisted"]
  OBVIOUS
<1>3. q \in Request
  BY <1>1, <1>2 DEF Request, PCs, InFlight
<1>4. q.pc = "persisted" /\ q.body = req[r].body /\ q.eff = req[r].eff
         /\ q.base = req[r].base
  BY <1>1, <1>2 DEF Request
<1>5. AddedIsDeclared(q) /\ PersistedIsStored(q)
  BY <1>1, <1>4 DEF RequestInv, AddedIsDeclared, PersistedIsStored, Added, Persist,
        Verified, Pinned, Narrowed, Declared
<1>6. VerifiedHasNoDefect(q)
  BY <1>1, <1>4 DEF RequestInv, VerifiedHasNoDefect, Defects, Added,
        Verified, Pinned, Narrowed, Declared
<1>7. RequestInv(q)
  BY <1>1, <1>2, <1>3, <1>5, <1>6, MovedOn DEF Pinned, Narrowed, Declared
<1>8. req' = [req EXCEPT ![r] = q]
  BY <1>2 DEF Persist, IInv, TypeOK
<1> QED  BY <1>3, <1>7, <1>8, LocalStep DEF Persist

LEMMA PersistClaimStep ==
    ASSUME IInv, NEW r \in Requests, PersistClaim(r)
    PROVE  IInv'
<1>1. req[r] \in Request
  BY DEF IInv, TypeOK
<1>2. AllAdds(req[r].body) \subseteq Claims
  <2>1. req[r].body \in Body
    BY <1>1 DEF Request
  <2>2. \A b \in BranchNames : req[r].body.adds[b] \subseteq Claims
    BY <2>1 DEF Body
  <2> QED  BY <2>2 DEF AllAdds
<1>3. stored \subseteq stored' /\ stored' \subseteq Claims
  BY <1>2 DEF PersistClaim, IInv, TypeOK
<1>4. UNCHANGED <<tables, req>> /\ HeadIndex' = HeadIndex /\ HeadIndex \in Nat
  BY DEF PersistClaim, HeadIndex, IInv, TypeOK
<1>5. TypeOK'
  BY <1>3, <1>4 DEF IInv, TypeOK
<1>6. TablesGrow' /\ HeadIsPersisted'
  BY <1>3, <1>4 DEF IInv, TablesGrow, HeadIsPersisted
<1>7. ASSUME NEW p \in Requests PROVE RequestInv(req[p])'
  <2>1. PICK s : s = req'[p]
    OBVIOUS
  <2>2. s \in Request /\ RequestInv(s)
    BY <1>4, <2>1 DEF IInv, TypeOK
  <2>3. RequestInv(s)'
    BY <1>3, <1>4, <2>2, Carried
  <2> QED  BY <2>1, <2>3
<1> QED  BY <1>5, <1>6, <1>7 DEF IInv

LEMMA AnswerStep ==
    ASSUME IInv, NEW r \in Requests, Answer(r)
    PROVE  IInv'
<1>1. req[r] \in Request /\ RequestInv(req[r]) /\ req[r].pc = "merged"
  BY DEF IInv, TypeOK, Answer
<1>2. PICK q : q = [req[r] EXCEPT !.pc = "answered", !.answer = "created"]
  OBVIOUS
<1>3. q \in Request
  BY <1>1, <1>2 DEF Request, PCs, Categories
<1>4. q.pc = "answered" /\ q.answer = "created" /\ q.head = req[r].head
         /\ q.body = req[r].body
  BY <1>1, <1>2 DEF Request
<1>5. HeadHolds(q)
  BY <1>1, <1>4 DEF RequestInv, HeadHolds, CallersFault
<1>6. RequestInv(q)
  BY <1>4, <1>5 DEF RequestInv, SnapshotsAreHeads, NarrowedIsGranted, PinnedIsCreatable,
        AddedIsDeclared, VerifiedHasNoDefect, PersistedIsStored, DeclaredNames,
        Declared, Narrowed, Pinned, Added, Verified, Persisted
<1>7. req' = [req EXCEPT ![r] = q]
  BY <1>2 DEF Answer, IInv, TypeOK
<1> QED  BY <1>3, <1>6, <1>7, LocalStep DEF Answer

-----------------------------------------------------------------------------
(* The merge. *)

(* Nothing a verified and persisted request absorbs is missing from the    *)
(* storage: what it does not add itself, its base or its scopes reach.     *)
LEMMA AbsorbedIsStored ==
    ASSUME IInv, NEW r \in Requests, req[r].pc = "persisted", NEW b \in BranchNames
    PROVE  Absorbs(req[r].body, b) \subseteq stored
<1>1. RequestInv(req[r]) /\ req[r] \in Request
  BY DEF IInv, TypeOK
<1>2. PICK t : t = tables[req[r].base]
  OBVIOUS
<1>3. req[r].base \in 1 .. HeadIndex
  <2>1. req[r].snap \in 1 .. HeadIndex /\ req[r].base \in req[r].snap .. HeadIndex
    BY <1>1 DEF RequestInv, SnapshotsAreHeads, Pinned, Narrowed, Declared
  <2>2. HeadIndex \in Nat
    BY DEF IInv, TypeOK, HeadIndex
  <2> QED  BY <2>1, <2>2
<1>4. \A n \in BranchNames : t.holds[n] \subseteq stored
  BY <1>2, <1>3 DEF IInv, HeadIsPersisted
<1>5. Imports(req[r].body, b, t) \subseteq stored
  <2>1. Defects(req[r]) = {}
    BY <1>1 DEF RequestInv, VerifiedHasNoDefect, Verified, Added, Pinned, Narrowed, Declared
  <2>2. Imports(req[r].body, b, t) \subseteq Reach(req[r].eff.referencable, t, stored)
    BY <1>2, <2>1, NoDefect
  <2>3. Reach(req[r].eff.referencable, t, stored) \subseteq stored
    BY <1>4, ReachStored
  <2> QED  BY <2>2, <2>3
<1>6. AllAdds(req[r].body) \subseteq stored
  BY <1>1 DEF RequestInv, PersistedIsStored, Persisted, Verified, Added, Pinned, Narrowed, Declared
<1>7. req[r].body.adds[b] \subseteq stored
  BY <1>6 DEF AllAdds
<1> QED  BY <1>4, <1>5, <1>7 DEF Imports

(* What a merge does to the history. *)
LEMMA MergeAppends ==
    ASSUME IInv, NEW B \in SUBSET Requests, Merge(B)
    PROVE  /\ HeadIndex \in Nat \ {0} /\ HeadIndex' = HeadIndex + 1
           /\ \A k \in 1 .. HeadIndex : tables'[k] = tables[k]
           /\ tables'[HeadIndex + 1] = Fold(Current, {req[r].body : r \in B})
           /\ Current \in Table /\ {req[r].body : r \in B} \in SUBSET Body
           /\ tables' \in Seq(Table)
<1>1. tables \in Seq(Table) /\ HeadIndex \in Nat \ {0}
  BY DEF IInv, TypeOK, HeadIndex
<1>2. Current \in Table
  BY <1>1 DEF Current, HeadIndex
<1>3. \A r \in B : req[r].body \in Body
  BY DEF IInv, TypeOK, Request
<1>4. {req[r].body : r \in B} \in SUBSET Body
  BY <1>3
<1>5. Fold(Current, {req[r].body : r \in B}) \in Table
  BY <1>2, <1>4, FoldType
<1>6. tables' = Append(tables, Fold(Current, {req[r].body : r \in B}))
  BY DEF Merge
<1>7. PICK t \in Table : t = Fold(Current, {req[r].body : r \in B})
  BY <1>5
<1>8. tables' = Append(tables, t)
  BY <1>6, <1>7
<1>9. /\ Len(tables') = Len(tables) + 1
      /\ \A k \in 1 .. Len(tables) : tables'[k] = tables[k]
      /\ tables'[Len(tables) + 1] = t
      /\ tables' \in Seq(Table)
  BY <1>1, <1>8
<1> QED  BY <1>1, <1>2, <1>4, <1>7, <1>9 DEF HeadIndex

LEMMA MergeStep ==
    ASSUME IInv, NEW B \in SUBSET Requests, Merge(B)
    PROVE  IInv'
<1>1. PICK n \in Nat \ {0}, bodies \in SUBSET Body, old \in Table, grown \in Table :
         /\ n = HeadIndex /\ bodies = {req[r].body : r \in B}
         /\ old = Current /\ grown = Fold(old, bodies)
  BY MergeAppends, FoldType
<1>2. /\ HeadIndex' = n + 1 /\ tables[n] = old /\ tables'[n + 1] = grown
      /\ \A k \in 1 .. n : tables'[k] = tables[k]
      /\ tables' \in Seq(Table) /\ stored' = stored
  BY <1>1, MergeAppends DEF Merge, Current
<1>3. old.names \subseteq grown.names
         /\ \A b \in BranchNames : old.holds[b] \subseteq grown.holds[b]
  BY <1>1, FoldType
<1>4. \A r \in B : req[r] \in Request /\ RequestInv(req[r]) /\ req[r].pc = "persisted"
  BY DEF Merge, IInv, TypeOK
<1>5. req' = [r \in Requests |->
                 IF r \in B THEN [req[r] EXCEPT !.pc = "merged", !.head = n + 1]
                 ELSE req[r]]
  BY <1>1 DEF Merge
<1>6. TypeOK'
  <2>1. ASSUME NEW r \in Requests PROVE req'[r] \in Request
    <3>1. CASE r \in B
      <4>1. [req[r] EXCEPT !.pc = "merged", !.head = n + 1] \in Request
        <5>1. n + 1 \in Nat /\ req[r] \in Request
          BY <1>4, <3>1
        <5> QED  BY <5>1 DEF Request, PCs, InFlight
      <4> QED  BY <1>5, <3>1, <4>1
    <3>2. CASE r \notin B
      BY <1>5, <3>2 DEF IInv, TypeOK
    <3> QED  BY <3>1, <3>2
  <2>2. req' \in [Requests -> Request]
    BY <1>5, <2>1
  <2> QED  BY <1>2, <2>2 DEF IInv, TypeOK, HeadIndex
<1>7. TablesGrow'
  <2> SUFFICES ASSUME NEW i \in 1 .. n + 1, NEW j \in 1 .. n + 1, i <= j
               PROVE  /\ tables'[i].names \subseteq tables'[j].names
                      /\ \A b \in BranchNames : tables'[i].holds[b] \subseteq tables'[j].holds[b]
    BY <1>2 DEF TablesGrow
  <2>1. CASE j \in 1 .. n
    <3>1. i \in 1 .. n
      BY <2>1
    <3> QED  BY <1>1, <1>2, <2>1, <3>1 DEF IInv, TablesGrow
  <2>2. CASE j = n + 1 /\ i \in 1 .. n
    <3>1. n \in 1 .. n /\ i <= n
      BY <2>2
    <3>2. tables[i].names \subseteq old.names
             /\ \A b \in BranchNames : tables[i].holds[b] \subseteq old.holds[b]
      BY <1>1, <1>2, <2>2, <3>1 DEF IInv, TablesGrow
    <3> QED  BY <1>2, <1>3, <2>2, <3>2
  <2>3. CASE i = j
    BY <2>3
  <2>4. j \in 1 .. n \/ (j = n + 1 /\ i \in 1 .. n) \/ i = j
    OBVIOUS
  <2> QED  BY <2>1, <2>2, <2>3, <2>4
<1>8. HeadIsPersisted'
  <2> SUFFICES ASSUME NEW k \in 1 .. n + 1, NEW b \in BranchNames
               PROVE  tables'[k].holds[b] \subseteq stored
    BY <1>2 DEF HeadIsPersisted
  <2>1. CASE k \in 1 .. n
    BY <1>1, <1>2, <2>1 DEF IInv, HeadIsPersisted
  <2>2. CASE k = n + 1
    <3>1. old.holds[b] \subseteq stored
      BY <1>1, <1>2 DEF IInv, HeadIsPersisted
    <3>2. \A r \in B : Absorbs(req[r].body, b) \subseteq stored
      BY <1>4, AbsorbedIsStored
    <3>3. \A body \in bodies : Absorbs(body, b) \subseteq stored
      BY <1>1, <3>2
    <3>4. grown.holds[b] = old.holds[b] \cup UNION {Absorbs(body, b) : body \in bodies}
      BY <1>1, FoldHolds
    <3> QED  BY <1>2, <2>2, <3>1, <3>3, <3>4
  <2>3. k \in 1 .. n \/ k = n + 1
    OBVIOUS
  <2> QED  BY <2>1, <2>2, <2>3
<1>9. ASSUME NEW r \in Requests PROVE RequestInv(req[r])'
  <2>1. PICK p : p = req[r]
    OBVIOUS
  <2>2. p \in Request /\ RequestInv(p)
    BY <2>1 DEF IInv, TypeOK
  <2>3. RequestInv(p)'
    BY <1>1, <1>2, <2>2, Carried
  <2>4. CASE r \notin B
    BY <1>5, <2>1, <2>3, <2>4
  <2>5. CASE r \in B
    <3>1. PICK q : q = [p EXCEPT !.pc = "merged", !.head = n + 1]
      OBVIOUS
    <3>2. req'[r] = q
      BY <1>5, <2>1, <2>5, <3>1
    <3>3. p.pc = "persisted"
      BY <1>4, <2>1, <2>5
    <3>4. /\ q.pc = "merged" /\ q.head = n + 1 /\ q.body = p.body /\ q.who = p.who
          /\ q.snap = p.snap /\ q.base = p.base /\ q.eff = p.eff /\ q.answer = "none"
      BY <2>2, <3>1, <3>3, NotMerged DEF Request
    <3>5. p.body \in bodies
      BY <1>1, <2>1, <2>5
    <3>6. \A b \in BranchNames : q.body.adds[b] \subseteq tables'[q.head].holds[b]
      BY <1>1, <1>2, <3>4, <3>5, FoldHolds
    <3>7. q.head \in 1 .. HeadIndex' /\ q.head # 0
      BY <1>2, <3>4
    <3>8. HeadHolds(q)'
      BY <3>4, <3>6, <3>7 DEF HeadHolds, CallersFault
    <3>9. SnapshotsAreHeads(q)' /\ DeclaredNames(q)'
      BY <2>3, <3>3, <3>4 DEF RequestInv, SnapshotsAreHeads, DeclaredNames,
            Pinned, Narrowed, Declared
    <3>10. NarrowedIsGranted(q)' /\ PinnedIsCreatable(q)'
      BY <2>3, <3>3, <3>4 DEF RequestInv, NarrowedIsGranted, PinnedIsCreatable,
            Pinned, Narrowed, Declared
    <3>11. AddedIsDeclared(q)' /\ PersistedIsStored(q)'
      BY <2>3, <3>3, <3>4 DEF RequestInv, AddedIsDeclared, PersistedIsStored,
            Persisted, Verified, Added, Pinned, Narrowed, Declared
    <3>12. VerifiedHasNoDefect(q)'
      BY <2>3, <3>3, <3>4 DEF RequestInv, VerifiedHasNoDefect, Defects,
            Verified, Added, Pinned, Narrowed, Declared
    <3>13. RequestInv(q)'
      BY <3>8, <3>9, <3>10, <3>11, <3>12 DEF RequestInv
    <3> QED  BY <3>2, <3>13
  <2> QED  BY <2>4, <2>5
<1> QED  BY <1>6, <1>7, <1>8, <1>9 DEF IInv

-----------------------------------------------------------------------------
(* The steps that go wrong. *)

LEMMA MergeConflictsStep ==
    ASSUME IInv, NEW r \in Requests, MergeConflicts(r)
    PROVE  IInv'
<1>1. "HeadConflict" \in LibErrors
  BY DEF LibErrors
<1>2. req[r].pc \in InFlight /\ req[r].pc # "merged"
  BY DEF MergeConflicts, InFlight
<1> QED  BY <1>1, <1>2, Categorised, RefuseStep DEF MergeConflicts

LEMMA StackFaultStep ==
    ASSUME IInv, NEW r \in Requests, StackFault(r)
    PROVE  IInv'
<1>1. req[r].pc \in InFlight /\ UNCHANGED <<tables, stored>>
  BY DEF StackFault, CallsLibrary
<1>2. PICK e \in StackErrors : Refuse(r, FaultCategory(req[r].pc, e))
  BY DEF StackFault
<1> QED  BY <1>1, <1>2, FaultsCategorised, RefuseStep

LEMMA CutOffStep ==
    ASSUME IInv, NEW B, CutOff(B)
    PROVE  IInv'
<1>1. tables' = tables /\ stored' = stored /\ HeadIndex' = HeadIndex /\ HeadIndex \in Nat
  BY DEF CutOff, HeadIndex, IInv, TypeOK
<1>2. ASSUME NEW r \in Requests PROVE req'[r] \in Request /\ RequestInv(req[r])'
  <2>1. PICK p : p = req[r]
    OBVIOUS
  <2>2. p \in Request /\ RequestInv(p)
    BY <2>1 DEF IInv, TypeOK
  <2>3. RequestInv(p)'
    BY <1>1, <2>2, Carried
  <2>4. CASE ~ (r \in B /\ p.pc \in InFlight)
    BY <2>1, <2>2, <2>3, <2>4 DEF CutOff
  <2>5. CASE r \in B /\ p.pc \in InFlight
    <3>1. PICK q : q = [p EXCEPT !.pc = "lost"]
      OBVIOUS
    <3>2. req'[r] = q
      BY <2>1, <2>5, <3>1 DEF CutOff
    <3>3. q \in Request
      BY <2>2, <3>1 DEF Request, PCs
    <3>4. q.pc = "lost" /\ q.head = p.head /\ q.body = p.body /\ q.answer = p.answer
      BY <2>2, <3>1 DEF Request
    <3>5. p.answer = "none"
      BY <2>2, <2>5 DEF RequestInv, HeadHolds, InFlight
    <3>6. HeadHolds(q)'
      BY <2>3, <3>4, <3>5 DEF RequestInv, HeadHolds
    <3>7. RequestInv(q)'
      BY <3>4, <3>6 DEF RequestInv, SnapshotsAreHeads, NarrowedIsGranted,
            PinnedIsCreatable, AddedIsDeclared, VerifiedHasNoDefect, PersistedIsStored,
            DeclaredNames, Declared, Narrowed, Pinned, Added, Verified, Persisted
    <3> QED  BY <3>2, <3>3, <3>7
  <2> QED  BY <2>4, <2>5
<1>3. req' \in [Requests -> Request]
  BY <1>2 DEF CutOff
<1>4. TypeOK' /\ TablesGrow' /\ HeadIsPersisted'
  BY <1>1, <1>3 DEF IInv, TypeOK, TablesGrow, HeadIsPersisted
<1> QED  BY <1>2, <1>4 DEF IInv

-----------------------------------------------------------------------------
(* The theorems. *)

LEMMA AdvanceStep ==
    ASSUME IInv, NEW r \in Requests, Advance(r)
    PROVE  IInv'
<1>1. ASSUME NEW B \in SUBSET Requests, Merge(B) PROVE IInv'
  BY <1>1, MergeStep
<1> QED  BY <1>1, DeclareStep, AuthoriseStep, NewContributionStep, AddWireStep,
            CompleteAndVerifyStep, PersistClaimStep, PersistStep, MergeConflictsStep,
            AnswerStep, ResolveStep DEF Advance

LEMMA NextIInv == IInv /\ [Next]_vars => IInv'
<1> SUFFICES ASSUME IInv, [Next]_vars PROVE IInv'
  OBVIOUS
<1>1. ASSUME NEW r \in Requests, Open(r) PROVE IInv'
  BY <1>1, OpenStep
<1>2. ASSUME NEW r \in Requests, Advance(r) PROVE IInv'
  BY <1>2, AdvanceStep
<1>3. ASSUME NEW r \in Requests, StackFault(r) PROVE IInv'
  BY <1>3, StackFaultStep
<1>4. ASSUME NEW r \in Requests, Disconnect(r) PROVE IInv'
  BY <1>4, CutOffStep DEF Disconnect
<1>5. CASE Restart
  BY <1>5, CutOffStep DEF Restart
<1>6. CASE UNCHANGED vars
  <2>1. CutOff({})
    BY <1>6 DEF vars, CutOff, IInv, TypeOK
  <2> QED  BY <2>1, CutOffStep
<1> QED  BY <1>1, <1>2, <1>3, <1>4, <1>5, <1>6 DEF Next

(* Whatever the interleaving of requests, faults, disconnects and restarts, *)
(* every request carries what its steps established, against a table of an  *)
(* only growing history. This is what the other theorems follow from.       *)
THEOREM Inductive == Spec => []IInv
<1>1. Init => IInv
  BY InitIInv
<1>2. IInv /\ [Next]_vars => IInv'
  BY NextIInv
<1> QED  BY <1>1, <1>2, PTL DEF Spec

(* The state of the archive and of every request keeps its type: a head is  *)
(* never withdrawn, and a refusal always has a category of its own.         *)
THEOREM TypeCorrect == Spec => []TypeOK
<1>1. IInv => TypeOK
  BY DEF IInv
<1> QED  BY <1>1, Inductive, PTL

(* No head ever points at a claim that failed to persist, through crashes   *)
(* and faults between any two claims written.                               *)
THEOREM HeadsArePersisted == Spec => []HeadIsPersisted
<1>1. IInv => HeadIsPersisted
  BY DEF IInv
<1> QED  BY <1>1, Inductive, PTL

(* A success names a head that holds all that was sent; a request refused   *)
(* for what it asked, or for who asked it, left nothing in any table, though *)
(* a fault may strike after the head has moved (execute.go:465-468).        *)
THEOREM AnswersHold == Spec => []AnswersAreTrue
<1>1. IInv => AnswersAreTrue
  <2> SUFFICES ASSUME IInv, NEW r \in Requests
               PROVE  /\ req[r].answer = "created" =>
                             /\ req[r].head \in 1 .. HeadIndex
                             /\ \A b \in BranchNames :
                                    req[r].body.adds[b] \subseteq tables[req[r].head].holds[b]
                      /\ req[r].answer \in CallersFault => req[r].head = 0
    BY DEF AnswersAreTrue
  <2>1. HeadHolds(req[r])
    BY DEF IInv, RequestInv
  <2> QED  BY <2>1 DEF HeadHolds
<1> QED  BY <1>1, Inductive, PTL

-----------------------------------------------------------------------------
(* The refinement. *)

(* Both specifications speak of the same grants and tables. *)
LEMMA SameAllow ==
    /\ Archive!Universe = Universe /\ Archive!Branches = Branches
    /\ Archive!Read = Read /\ Archive!Contribute = Contribute
    /\ \A who, right, scope : Archive!Allow(who, right, scope) = Allow(who, right, scope)
<1>1. Archive!Reserved = Reserved
  BY DEF Archive!Reserved, Reserved, Archive!Universe, Universe, Archive!ArchiveName,
         ArchiveName, Archive!Branches, Branches
<1>2. \A glob, scope : Archive!MatchBranch(glob, scope) = MatchBranch(glob, scope)
  BY <1>1 DEF Archive!MatchBranch, MatchBranch
<1>3. \A g, right, scope : Archive!Allows(g, right, scope) = Allows(g, right, scope)
  BY <1>2 DEF Archive!Allows, Allows
<1>4. \A who, right, scope : Archive!Allow(who, right, scope) = Allow(who, right, scope)
  BY <1>3 DEF Archive!Allow, Allow, Archive!AnyAllows, AnyAllows, Archive!AllAllows, AllAllows
<1> QED  BY <1>4 DEF Archive!Universe, Universe, Archive!Branches, Branches, Archive!Read,
                    Read, Archive!Contribute, Contribute

LEMMA SameTables ==
    /\ \A table, declared :
          Archive!MissingBranches(table, declared) = MissingBranches(table, declared)
    /\ \A body : Archive!AllAdds(body) = AllAdds(body)
    /\ \A body, b, table : Archive!Imports(body, b, table) = Imports(body, b, table)
    /\ \A table, bodies : Archive!Fold(table, bodies) = Fold(table, bodies)
    /\ Archive!FoundedTable = FoundedTable
<1>1. \A body, b : Archive!Absorbs(body, b) = Absorbs(body, b)
  BY DEF Archive!Absorbs, Absorbs, Archive!ClosureOf, ClosureOf
<1>2. \A body, b, table : Archive!Imports(body, b, table) = Imports(body, b, table)
  BY <1>1 DEF Archive!Imports, Imports
<1>3. \A table, bodies : Archive!Fold(table, bodies) = Fold(table, bodies)
  BY <1>1 DEF Archive!Fold, Fold
<1> QED  BY <1>2, <1>3 DEF Archive!MissingBranches, MissingBranches, Archive!AllAdds, AllAdds,
                    Archive!FoundedTable, FoundedTable

(* What the effective constraints let a merge reference, the grants let    *)
(* the principal read, whichever later table it is read from.              *)
LEMMA ImportsAreReadable ==
    ASSUME IInv, NEW r \in Requests, req[r].pc = "persisted", NEW b \in BranchNames
    PROVE  Imports(req[r].body, b, Current) \subseteq Archive!Readable(req[r].who, Current)
<1>1. PICK q : q = req[r]
  OBVIOUS
<1>2. q \in Request /\ RequestInv(q) /\ q.pc = "persisted"
  BY <1>1 DEF IInv, TypeOK
<1>3. q.pc \in Verified /\ q.pc \in Pinned /\ q.pc \in Narrowed /\ q.pc \in Declared
  BY <1>2 DEF Verified, Added, Pinned, Narrowed, Declared
<1>4. HeadIndex \in Nat \ {0} /\ Current = tables[HeadIndex]
  BY DEF IInv, TypeOK, HeadIndex, Current
<1>5. q.snap \in 1 .. HeadIndex /\ q.base \in q.snap .. HeadIndex
  BY <1>2, <1>3 DEF RequestInv, SnapshotsAreHeads
<1>6. q.base \in 1 .. HeadIndex /\ q.base <= HeadIndex /\ HeadIndex \in 1 .. HeadIndex
  BY <1>4, <1>5
<1>7. \A n \in BranchNames : tables[q.base].holds[n] \subseteq Current.holds[n]
  BY <1>4, <1>6 DEF IInv, TablesGrow
<1>8. Imports(q.body, b, Current) \subseteq Imports(q.body, b, tables[q.base])
  BY <1>7 DEF Imports
<1>9. Imports(q.body, b, tables[q.base])
         \subseteq Reach(q.eff.referencable, tables[q.base], stored)
  BY <1>2, <1>3, NoDefect DEF RequestInv, VerifiedHasNoDefect
<1>10. CASE Allow(q.who, Read, Universe)
  <2>1. Imports(q.body, b, Current) \subseteq Claims
    <3>1. q.body \in Body
      BY <1>2 DEF Request
    <3> QED  BY <3>1, AbsorbsType DEF Imports
  <2> QED  BY <1>1, <1>10, <2>1, SameAllow DEF Archive!Readable
<1>11. CASE ~ Allow(q.who, Read, Universe)
  <2>1. q.eff.referencable
          \subseteq {n \in tables[q.snap].names : Allow(q.who, Read, n)}
    <3>1. tables[q.snap] \in Table
      BY <1>5 DEF IInv, TypeOK, HeadIndex
    <3>2. ReadableScopes(q.who, tables[q.snap])
             = {n \in tables[q.snap].names : Allow(q.who, Read, n)}
      BY <1>11 DEF ReadableScopes
    <3>3. Universe \notin ReadableScopes(q.who, tables[q.snap])
      BY <1>11, <3>2
    <3>4. q.eff.referencable
             = OverlapScopes(q.body.referencable, ReadableScopes(q.who, tables[q.snap]))
      BY <1>2, <1>3 DEF RequestInv, NarrowedIsGranted, Effective
    <3> QED  BY <3>2, <3>3, <3>4 DEF OverlapScopes
  <2>2. Universe \notin q.eff.referencable
    BY <1>11, <2>1
  <2>3. Reach(q.eff.referencable, tables[q.base], stored)
           \subseteq UNION {tables[q.base].holds[n] :
                               n \in q.eff.referencable \cap BranchNames}
    BY <2>2 DEF Reach
  <2>4. ASSUME NEW c \in Imports(q.body, b, Current)
        PROVE  c \in Archive!Readable(q.who, Current)
    <3>1. PICK n \in q.eff.referencable \cap BranchNames : c \in tables[q.base].holds[n]
      BY <1>8, <1>9, <2>3, <2>4
    <3>2. n \in BranchNames /\ Allow(q.who, Read, n) /\ c \in Current.holds[n]
      BY <1>7, <2>1, <3>1
    <3> QED  BY <1>11, <3>2, SameAllow DEF Archive!Readable
  <2> QED  BY <1>1, <2>4
<1> QED  BY <1>10, <1>11

(* Everything a merge does is permitted against the archive it extends,    *)
(* though nothing was asked of the grants since an earlier table.          *)
LEMMA PermittedAtMerge ==
    ASSUME IInv, NEW r \in Requests, req[r].pc = "persisted"
    PROVE  Archive!Permitted(req[r].body, req[r].who, Current)
<1>1. PICK q : q = req[r]
  OBVIOUS
<1>2. q \in Request /\ RequestInv(q) /\ q.pc = "persisted"
  BY <1>1 DEF IInv, TypeOK
<1>3. /\ q.pc \in Verified /\ q.pc \in Added /\ q.pc \in Pinned
      /\ q.pc \in Narrowed /\ q.pc \in Declared
  BY <1>2 DEF Verified, Added, Pinned, Narrowed, Declared
<1>4. HeadIndex \in Nat \ {0} /\ Current = tables[HeadIndex]
  BY DEF IInv, TypeOK, HeadIndex, Current
<1>5. q.snap \in 1 .. HeadIndex /\ q.base \in q.snap .. HeadIndex
  BY <1>2, <1>3 DEF RequestInv, SnapshotsAreHeads
<1>6. q.base \in 1 .. HeadIndex /\ q.base <= HeadIndex /\ HeadIndex \in 1 .. HeadIndex
  BY <1>4, <1>5
<1>7. tables[q.base].names \subseteq Current.names
  BY <1>4, <1>6 DEF IInv, TablesGrow
<1>8. /\ \A b \in q.body.branches : Allow(q.who, Contribute, b)
      /\ q.eff = Effective(q.body, q.who, tables[q.snap])
  BY <1>2, <1>3 DEF RequestInv, NarrowedIsGranted, MayContribute
<1>9. q.body.branches # {}
  BY <1>2, <1>3 DEF RequestInv, DeclaredNames, DeclaresBranches
<1>10. \A b \in BranchNames \ q.body.branches : q.body.adds[b] = {}
  BY <1>2, <1>3 DEF RequestInv, AddedIsDeclared, AddsUndeclared
<1>11. ASSUME MissingBranches(Current, q.body.branches) # {}
       PROVE  /\ Allow(q.who, Contribute, Branches)
              /\ MissingBranches(Current, q.body.branches) \subseteq q.body.creatable
  <2>1. MissingBranches(Current, q.body.branches)
           \subseteq MissingBranches(tables[q.base], q.body.branches)
    BY <1>7 DEF MissingBranches
  <2>2. MissingBranches(tables[q.base], q.body.branches) \subseteq q.eff.creatable
    BY <1>2, <1>3 DEF RequestInv, PinnedIsCreatable
  <2>3. q.eff.creatable = q.body.creatable
           \cap CreatableBranches(q.who, tables[q.snap], q.body.branches)
    BY <1>8 DEF Effective
  <2> QED  BY <1>11, <2>1, <2>2, <2>3 DEF CreatableBranches
<1>12. AllAdds(q.body) \cap TableClaims # {} => Allow(q.who, Contribute, Branches)
  <2>1. AllAdds(q.body) \cap TableClaims # {} => q.eff.lifted
    BY <1>2, <1>3, NoDefect DEF RequestInv, VerifiedHasNoDefect
  <2>2. q.eff.lifted <=> Allow(q.who, Contribute, Branches)
    BY <1>8 DEF Effective, LiftedTypes
  <2> QED  BY <2>1, <2>2
<1>13. \A b \in BranchNames :
          Imports(q.body, b, Current) \subseteq Archive!Readable(q.who, Current)
  BY <1>1, <1>2, ImportsAreReadable
<1> QED  BY <1>1, <1>8, <1>9, <1>10, <1>11, <1>12, <1>13, SameAllow, SameTables
        DEF Archive!Permitted

(* A step of one request that neither its asker nor the archive can see.   *)
LEMMA Unseen ==
    ASSUME IInv, NEW r \in Requests, NEW q,
           req' = [req EXCEPT ![r] = q], tables' = tables,
           q.body = req[r].body, q.who = req[r].who, q.head = req[r].head,
           Told(q) = Told(req[r])
    PROVE  UNCHANGED Archive!avars
<1>1. \A p \in Requests : req'[p] = IF p = r THEN q ELSE req[p]
  BY DEF IInv, TypeOK
<1>2. /\ \A p \in Requests : /\ req'[p].body = req[p].body /\ req'[p].who = req[p].who
                              /\ req'[p].head = req[p].head
                              /\ Told(req'[p]) = Told(req[p])
  BY <1>1
<1>3. [p \in Requests |-> [body |-> req[p].body, who |-> req[p].who]]'
        = [p \in Requests |-> [body |-> req[p].body, who |-> req[p].who]]
  BY <1>2
<1>4. [p \in Requests |-> req[p].head]' = [p \in Requests |-> req[p].head]
  BY <1>2
<1>5. [p \in Requests |-> Told(req[p])]' = [p \in Requests |-> Told(req[p])]
  BY <1>2
<1> QED  BY <1>3, <1>4, <1>5 DEF Archive!avars

(* A step that answers a request tells it what happened. *)
LEMMA Telling ==
    ASSUME IInv, NEW r \in Requests, NEW q,
           req' = [req EXCEPT ![r] = q], tables' = tables,
           q.body = req[r].body, q.who = req[r].who, q.head = req[r].head,
           Told(req[r]) = "nothing",
           Told(q) \in {"created", "refused", "failed"},
           Told(q) = "created" => req[r].head > 0,
           Told(q) = "refused" => req[r].head = 0
    PROVE  Archive!ATell(r)
<1>1. \A p \in Requests : req'[p] = IF p = r THEN q ELSE req[p]
  BY DEF IInv, TypeOK
<1>2. \A p \in Requests : /\ req'[p].body = req[p].body /\ req'[p].who = req[p].who
                          /\ req'[p].head = req[p].head
  BY <1>1
<1>3. [p \in Requests |-> [body |-> req[p].body, who |-> req[p].who]]'
        = [p \in Requests |-> [body |-> req[p].body, who |-> req[p].who]]
  BY <1>2
<1>4. [p \in Requests |-> req[p].head]' = [p \in Requests |-> req[p].head]
  BY <1>2
<1>5. \A p \in Requests : Told(req'[p]) = IF p = r THEN Told(q) ELSE Told(req[p])
  BY <1>1
<1>6. [p \in Requests |-> Told(req[p])]'
        = [[p \in Requests |-> Told(req[p])] EXCEPT ![r] = Told(q)]
  BY <1>5
<1>7. [p \in Requests |-> req[p].head][r] = req[r].head
  OBVIOUS
<1>8. [p \in Requests |-> Told(req[p])][r] = "nothing"
  OBVIOUS
<1> QED  BY <1>3, <1>4, <1>6, <1>7, <1>8 DEF Archive!ATell

LEMMA RefuseTells ==
    ASSUME IInv, NEW r \in Requests,
           req[r].pc \in InFlight,
           NEW category \in Categories \ {"created"},
           category \in CallersFault => req[r].pc # "merged",
           Refuse(r, category), UNCHANGED tables
    PROVE  Archive!ATell(r)
<1>1. req[r] \in Request /\ RequestInv(req[r])
  BY DEF IInv, TypeOK
<1>2. PICK q : q = [req[r] EXCEPT !.pc = "answered", !.answer = category]
  OBVIOUS
<1>3. /\ q.pc = "answered" /\ q.answer = category
      /\ q.body = req[r].body /\ q.who = req[r].who /\ q.head = req[r].head
  BY <1>1, <1>2 DEF Request
<1>4. category \in CallersFault => req[r].head = 0
  BY <1>1, NotMerged DEF InFlight
<1>5. Told(q) = IF category \in CallersFault THEN "refused" ELSE "failed"
  BY <1>3 DEF Told, InFlight
<1>6. Told(req[r]) = "nothing"
  BY DEF Told, InFlight
<1>7. req' = [req EXCEPT ![r] = q]
  BY <1>2 DEF Refuse, IInv, TypeOK
<1>8. /\ Told(q) \in {"created", "refused", "failed"} /\ Told(q) # "created"
      /\ Told(q) = "refused" => req[r].head = 0
  BY <1>4, <1>5
<1>9. tables' = tables
  OBVIOUS
<1> QED  BY <1>3, <1>6, <1>7, <1>8, <1>9, Telling

LEMMA AnswerTells ==
    ASSUME IInv, NEW r \in Requests, Answer(r)
    PROVE  Archive!ATell(r)
<1>1. req[r] \in Request /\ RequestInv(req[r]) /\ req[r].pc = "merged"
  BY DEF IInv, TypeOK, Answer
<1>2. PICK q : q = [req[r] EXCEPT !.pc = "answered", !.answer = "created"]
  OBVIOUS
<1>3. /\ q.pc = "answered" /\ q.answer = "created"
      /\ q.body = req[r].body /\ q.who = req[r].who /\ q.head = req[r].head
  BY <1>1, <1>2 DEF Request
<1>4. req[r].head \in Nat \ {0}
  BY <1>1 DEF RequestInv, HeadHolds, Request
<1>5. Told(q) = "created"
  BY <1>3 DEF Told, InFlight
<1>6. Told(req[r]) = "nothing"
  BY <1>1 DEF Told, InFlight
<1>7. req' = [req EXCEPT ![r] = q] /\ tables' = tables
  BY <1>2 DEF Answer, IInv, TypeOK
<1>8. /\ Told(q) \in {"created", "refused", "failed"} /\ Told(q) # "refused"
      /\ Told(q) = "created" => req[r].head > 0
  BY <1>4, <1>5
<1> QED  BY <1>3, <1>6, <1>7, <1>8, Telling

(* A step that leaves a request in flight where it was in flight. *)
LEMMA MovesUnseen ==
    ASSUME IInv, NEW r \in Requests, req[r].pc \in InFlight, NEW q,
           req' = [req EXCEPT ![r] = q], tables' = tables,
           q.pc \in InFlight, q.body = req[r].body, q.who = req[r].who,
           q.head = req[r].head
    PROVE  UNCHANGED Archive!avars
<1>1. Told(q) = "nothing" /\ Told(req[r]) = "nothing"
  BY DEF Told, InFlight
<1> QED  BY <1>1, Unseen

LEMMA OpenAsks ==
    ASSUME IInv, NEW r \in Requests, Open(r)
    PROVE  Archive!AAsk(r)
<1>1. PICK body \in Bodies, who \in Principals :
         req' = [req EXCEPT ![r].pc = "asked", ![r].body = body, ![r].who = who]
  BY DEF Open
<1>2. PICK q : q = [req[r] EXCEPT !.pc = "asked", !.body = body, !.who = who]
  OBVIOUS
<1>3. req[r] \in Request /\ req[r].pc = "idle" /\ tables' = tables
  BY DEF IInv, TypeOK, Open
<1>4. q.pc = "asked" /\ q.body = body /\ q.who = who /\ q.head = req[r].head
  BY <1>2, <1>3 DEF Request
<1>5. \A p \in Requests : req'[p] = IF p = r THEN q ELSE req[p]
  BY <1>1, <1>2 DEF IInv, TypeOK
<1>6. \A p \in Requests : req[p] \in Request
  BY DEF IInv, TypeOK
<1>7. \A p \in Requests : req'[p].body \in Body /\ req'[p].who \in Principal
  BY <1>4, <1>5, <1>6, BodiesAssumption, PrincipalsAssumption DEF Request
<1>8. Archive!Body = Body /\ Archive!Principal = Principal
  <2>1. Archive!Body = Body
    BY DEF Archive!Body, Body, Archive!Universe, Universe
  <2>2. Archive!Scopes = Scopes
    BY DEF Archive!Scopes, Scopes, Archive!Reserved, Reserved, Archive!Universe, Universe,
           Archive!ArchiveName, ArchiveName, Archive!Branches, Branches
  <2>3. Archive!Globs = Globs
    BY <2>2 DEF Archive!Globs, Globs, Archive!Literals, Literals, Archive!Wildcards, Wildcards,
           Archive!Wildcard, Wildcard
  <2>4. Archive!Rights = Rights
    BY DEF Archive!Rights, Rights, Archive!Contribute, Contribute, Archive!Read, Read
  <2>m. Archive!Malformed = Malformed
    BY <2>2 DEF Archive!Malformed, Malformed, Archive!UnknownReserved, UnknownReserved
  <2>5. Archive!GrantSpec = GrantSpec
    BY <2>3, <2>4, <2>m DEF Archive!GrantSpec, GrantSpec
  <2>6. \A g : Archive!ParseGrantAccepts(g) = ParseGrantAccepts(g)
    <3>1. Archive!Reserved = Reserved /\ Archive!Dollar = Dollar
      BY DEF Archive!Reserved, Reserved, Archive!Dollar, Dollar, Archive!UnknownReserved,
             UnknownReserved, Archive!Universe, Universe, Archive!ArchiveName, ArchiveName,
             Archive!Branches, Branches
    <3> QED
      BY <2>m, <3>1 DEF Archive!ParseGrantAccepts, ParseGrantAccepts, Archive!Universe, Universe,
             Archive!Read, Read
  <2>7. Archive!Grant = Grant
    BY <2>5, <2>6 DEF Archive!Grant, Grant
  <2> QED  BY <2>1, <2>7 DEF Archive!Principal, Principal
<1>9. [p \in Requests |-> [body |-> req[p].body, who |-> req[p].who]]'
        \in [Requests -> [body : Body, who : Principal]]
  BY <1>7
<1>10. \A p \in Requests \ {r} : [body |-> req'[p].body, who |-> req'[p].who]
                                 = [body |-> req[p].body, who |-> req[p].who]
  BY <1>5
<1>11. [p \in Requests |-> req[p].head]' = [p \in Requests |-> req[p].head]
  BY <1>4, <1>5
<1>12. Told(q) = "nothing" /\ Told(req[r]) = "unasked"
  BY <1>3, <1>4 DEF Told, InFlight
<1>13. [p \in Requests |-> Told(req[p])]'
        = [[p \in Requests |-> Told(req[p])] EXCEPT ![r] = "nothing"]
  BY <1>5, <1>12
<1> QED  BY <1>3, <1>8, <1>9, <1>10, <1>11, <1>12, <1>13 DEF Archive!AAsk

LEMMA MergeMaps ==
    ASSUME IInv, NEW B \in SUBSET Requests, Merge(B)
    PROVE  Archive!AMerge(B)
<1>1. \A r \in B : req[r] \in Request /\ RequestInv(req[r]) /\ req[r].pc = "persisted"
  BY DEF Merge, IInv, TypeOK
<1>2. \A r \in B : Told(req[r]) = "nothing" /\ req[r].head = 0
  BY <1>1, NotMerged DEF Told, InFlight
<1>3. Archive!Last = Current
  BY DEF Archive!Last, Current, HeadIndex
<1>4. \A r \in B : Archive!Permitted(req[r].body, req[r].who, Archive!Last)
  BY <1>1, <1>3, PermittedAtMerge
<1>5. \A p \in Requests : req'[p] = IF p \in B
                                   THEN [req[p] EXCEPT !.pc = "merged", !.head = HeadIndex + 1]
                                   ELSE req[p]
  BY DEF Merge
<1>6. \A p \in B : /\ req'[p].body = req[p].body /\ req'[p].who = req[p].who
                   /\ req'[p].head = HeadIndex + 1 /\ req'[p].pc = "merged"
  BY <1>1, <1>5 DEF Request
<1>7. \A p \in B : Told(req'[p]) = "nothing"
  BY <1>6 DEF Told, InFlight
<1>8. [p \in Requests |-> [body |-> req[p].body, who |-> req[p].who]]'
        = [p \in Requests |-> [body |-> req[p].body, who |-> req[p].who]]
  BY <1>5, <1>6
<1>9. [p \in Requests |-> req[p].head]'
        = [p \in Requests |-> IF p \in B THEN Len(tables) + 1 ELSE req[p].head]
  BY <1>5, <1>6 DEF HeadIndex
<1>10. [p \in Requests |-> Told(req[p])]' = [p \in Requests |-> Told(req[p])]
  BY <1>2, <1>5, <1>7
<1>11. {[body |-> req[r].body, who |-> req[r].who].body : r \in B} = {req[r].body : r \in B}
  OBVIOUS
<1>12. tables' = Append(tables, Archive!Fold(Archive!Last, {req[r].body : r \in B}))
  BY <1>3, SameTables DEF Merge
<1>13. \A r \in B : [p \in Requests |-> [body |-> req[p].body, who |-> req[p].who]][r]
                     = [body |-> req[r].body, who |-> req[r].who]
  OBVIOUS
<1>14. {[p \in Requests |-> [body |-> req[p].body, who |-> req[p].who]][r].body : r \in B}
         = {req[r].body : r \in B}
  BY <1>13
<1>15. B # {}
  BY DEF Merge
<1> QED  BY <1>2, <1>4, <1>8, <1>9, <1>10, <1>12, <1>14, <1>15 DEF Archive!AMerge

LEMMA CutOffMaps ==
    ASSUME IInv, NEW B \in SUBSET Requests, CutOff(B), \E r \in B : req[r].pc \in InFlight
    PROVE  \E C \in SUBSET Requests : Archive!ACutOff(C)
<1>1. PICK C : C = {r \in B : req[r].pc \in InFlight}
  OBVIOUS
<1>2. C \in SUBSET Requests /\ C # {} /\ tables' = tables
  BY <1>1 DEF CutOff
<1>3. \A p \in Requests : req'[p] = IF p \in C THEN [req[p] EXCEPT !.pc = "lost"] ELSE req[p]
  BY <1>1 DEF CutOff
<1>4. \A p \in Requests : /\ req'[p].body = req[p].body /\ req'[p].who = req[p].who
                          /\ req'[p].head = req[p].head
                          /\ p \in C => req'[p].pc = "lost"
  BY <1>3 DEF IInv, TypeOK, Request
<1>5. \A p \in C : Told(req[p]) = "nothing" /\ Told(req'[p]) = "cut off"
  BY <1>1, <1>2, <1>4 DEF Told, InFlight
<1>6. [p \in Requests |-> [body |-> req[p].body, who |-> req[p].who]]'
        = [p \in Requests |-> [body |-> req[p].body, who |-> req[p].who]]
  BY <1>4
<1>7. [p \in Requests |-> req[p].head]' = [p \in Requests |-> req[p].head]
  BY <1>4
<1>8. [p \in Requests |-> Told(req[p])]'
        = [p \in Requests |-> IF p \in C THEN "cut off" ELSE Told(req[p])]
  BY <1>3, <1>5
<1>9. Archive!ACutOff(C)
  BY <1>2, <1>5, <1>6, <1>7, <1>8 DEF Archive!ACutOff
<1> QED  BY <1>2, <1>9

LEMMA AdvanceMaps ==
    ASSUME IInv, NEW r \in Requests, Advance(r)
    PROVE  Archive!ANext \/ UNCHANGED Archive!avars
<1>1. req[r] \in Request
  BY DEF IInv, TypeOK
<1>2. ASSUME Archive!ATell(r) PROVE Archive!ANext
  BY <1>2 DEF Archive!ANext
<1>3. ASSUME NEW q, req' = [req EXCEPT ![r] = q], tables' = tables,
             req[r].pc \in InFlight, q.pc \in InFlight,
             q.body = req[r].body, q.who = req[r].who, q.head = req[r].head
      PROVE  UNCHANGED Archive!avars
  BY <1>3, MovesUnseen
<1>4. CASE Declare(r)
  <2>1. req[r].pc = "opened" /\ req[r].pc \in InFlight /\ req[r].pc # "merged" /\ tables' = tables
    BY <1>4 DEF Declare, InFlight
  <2>2. CASE Refuse(r, "invalid")
    BY <1>2, <2>1, <2>2, RefuseTells DEF Categories
  <2>3. CASE req' = [req EXCEPT ![r].pc = "declared", ![r].snap = HeadIndex]
    <3>1. PICK q : q = [req[r] EXCEPT !.pc = "declared", !.snap = HeadIndex]
      OBVIOUS
    <3>2. /\ q.pc \in InFlight /\ q.body = req[r].body /\ q.who = req[r].who
          /\ q.head = req[r].head /\ req' = [req EXCEPT ![r] = q]
      BY <1>1, <2>3, <3>1 DEF IInv, TypeOK, Request, InFlight
    <3> QED  BY <1>3, <2>1, <3>2
  <2> QED  BY <1>4, <2>2, <2>3 DEF Declare
<1>5. CASE Authorise(r)
  <2>1. req[r].pc = "declared" /\ req[r].pc \in InFlight /\ req[r].pc # "merged" /\ tables' = tables
    BY <1>5 DEF Authorise, InFlight
  <2>2. CASE Refuse(r, "forbidden")
    BY <1>2, <2>1, <2>2, RefuseTells DEF Categories
  <2>3. CASE req' = [req EXCEPT
                 ![r].pc = "narrowed",
                 ![r].eff = Effective(req[r].body, req[r].who, tables[req[r].snap])]
    <3>1. PICK q : q = [req[r] EXCEPT !.pc = "narrowed",
                   !.eff = Effective(req[r].body, req[r].who, tables[req[r].snap])]
      OBVIOUS
    <3>2. /\ q.pc \in InFlight /\ q.body = req[r].body /\ q.who = req[r].who
          /\ q.head = req[r].head /\ req' = [req EXCEPT ![r] = q]
      BY <1>1, <2>3, <3>1 DEF IInv, TypeOK, Request, InFlight
    <3> QED  BY <1>3, <2>1, <3>2
  <2> QED  BY <1>5, <2>2, <2>3 DEF Authorise
<1>6. CASE NewContribution(r)
  <2>1. req[r].pc = "narrowed" /\ req[r].pc \in InFlight /\ req[r].pc # "merged" /\ tables' = tables
    BY <1>6 DEF NewContribution, InFlight
  <2>2. CASE Refuse(r, MapLibError("BranchNotCreatable"))
    <3>1. "BranchNotCreatable" \in LibErrors
      BY DEF LibErrors
    <3> QED  BY <1>2, <2>1, <2>2, <3>1, Categorised, RefuseTells
  <2>3. CASE req' = [req EXCEPT ![r].pc = "pinned", ![r].base = HeadIndex]
    <3>1. PICK q : q = [req[r] EXCEPT !.pc = "pinned", !.base = HeadIndex]
      OBVIOUS
    <3>2. /\ q.pc \in InFlight /\ q.body = req[r].body /\ q.who = req[r].who
          /\ q.head = req[r].head /\ req' = [req EXCEPT ![r] = q]
      BY <1>1, <2>3, <3>1 DEF IInv, TypeOK, Request, InFlight
    <3> QED  BY <1>3, <2>1, <3>2
  <2> QED  BY <1>6, <2>2, <2>3 DEF NewContribution
<1>7. ASSUME NEW pc \in {"added", "verified", "persisted"},
             req' = [req EXCEPT ![r].pc = pc], tables' = tables, req[r].pc \in InFlight
      PROVE  UNCHANGED Archive!avars
  <2>1. PICK q : q = [req[r] EXCEPT !.pc = pc]
    OBVIOUS
  <2>2. /\ q.pc \in InFlight /\ q.body = req[r].body /\ q.who = req[r].who
        /\ q.head = req[r].head /\ req' = [req EXCEPT ![r] = q]
    BY <1>1, <1>7, <2>1 DEF IInv, TypeOK, Request, InFlight
  <2> QED  BY <1>3, <1>7, <2>2
<1>8. CASE AddWire(r)
  <2>1. req[r].pc = "pinned" /\ req[r].pc \in InFlight /\ req[r].pc # "merged" /\ tables' = tables
    BY <1>8 DEF AddWire, InFlight
  <2>2. CASE Refuse(r, MapWireError("Undeclared"))
    <3>1. "Undeclared" \in LibErrors
      BY DEF LibErrors
    <3> QED  BY <1>2, <2>1, <2>2, <3>1, Categorised, RefuseTells
  <2> QED  BY <1>7, <1>8, <2>1, <2>2 DEF AddWire
<1>9. CASE CompleteAndVerify(r)
  <2>1. req[r].pc = "added" /\ req[r].pc \in InFlight /\ req[r].pc # "merged" /\ tables' = tables
    BY <1>9 DEF CompleteAndVerify, InFlight
  <2>2. ASSUME NEW e \in Defects(req[r]), Refuse(r, MapVerifyError(e))
        PROVE  Archive!ATell(r)
    <3>1. e \in LibErrors
      BY DEF LibErrors, Defects
    <3> QED  BY <2>1, <2>2, <3>1, Categorised, RefuseTells
  <2> QED  BY <1>2, <1>7, <1>9, <2>1, <2>2 DEF CompleteAndVerify
<1>10. CASE PersistClaim(r)
  BY <1>10 DEF PersistClaim, Archive!avars
<1>11. CASE Persist(r)
  BY <1>7, <1>11 DEF Persist, InFlight
<1>12. ASSUME NEW B \in SUBSET Requests, Merge(B) PROVE Archive!ANext
  BY <1>12, MergeMaps DEF Archive!ANext
<1>13. CASE MergeConflicts(r)
  <2>1. req[r].pc \in InFlight /\ req[r].pc # "merged" /\ tables' = tables
    BY <1>13 DEF MergeConflicts, InFlight
  <2>2. "HeadConflict" \in LibErrors
    BY DEF LibErrors
  <2> QED  BY <1>2, <1>13, <2>1, <2>2, Categorised, RefuseTells DEF MergeConflicts
<1>14. CASE Answer(r)
  BY <1>2, <1>14, AnswerTells
<1>15. CASE Resolve(r)
  <2>1. PICK q : q = [req[r] EXCEPT !.pc = "opened"]
    OBVIOUS
  <2>2. /\ q.pc \in InFlight /\ q.body = req[r].body /\ q.who = req[r].who
        /\ q.head = req[r].head /\ req' = [req EXCEPT ![r] = q]
    BY <1>1, <1>15, <2>1 DEF Resolve, IInv, TypeOK, Request, InFlight
  <2>3. req[r].pc \in InFlight /\ tables' = tables
    BY <1>15 DEF Resolve, InFlight
  <2> QED  BY <1>3, <2>2, <2>3
<1> QED  BY <1>4, <1>5, <1>6, <1>8, <1>9, <1>10, <1>11, <1>12, <1>13, <1>14, <1>15 DEF Advance

(* From when its claims are persisted until it merges, or fails to, a      *)
(* contribution is permitted against whichever table is the head's by then, *)
(* though it was authorised against an earlier one (execute.go).            *)
THEOREM PermissionLasts ==
    Spec => [](\A r \in Requests : req[r].pc = "persisted" =>
                  Archive!Permitted(req[r].body, req[r].who, Current))
<1>1. IInv => \A r \in Requests : req[r].pc = "persisted" =>
                  Archive!Permitted(req[r].body, req[r].who, Current)
  BY PermittedAtMerge
<1> QED  BY <1>1, Inductive, PTL

-----------------------------------------------------------------------------
(* What was merged, and by what right. *)

MergesPermitted ==
    \A r \in Requests : req[r].head # 0 =>
        /\ req[r].head \in 2 .. HeadIndex
        /\ Archive!Permitted(req[r].body, req[r].who, MetTable(req[r]))

(* But for a merge, no step touches where a request's claims are in, nor     *)
(* what was asked, and by whom, once they are.                               *)
Settled(p) ==
    /\ req'[p].head = req[p].head
    /\ req[p].head # 0 => req'[p].body = req[p].body /\ req'[p].who = req[p].who

LEMMA HeadsSettle ==
    ASSUME IInv, [Next]_vars, \A B \in SUBSET Requests : ~ Merge(B)
    PROVE  tables' = tables /\ \A p \in Requests : Settled(p)
<1> DEFINE Rests == tables' = tables /\ \A p \in Requests : Settled(p)
<1>0. \A p \in Requests : req[p] \in Request /\ RequestInv(req[p])
  BY DEF IInv, TypeOK
<1>r. req = [p \in Requests |-> req[p]]
  BY DEF IInv, TypeOK
<1>1. ASSUME NEW r \in Requests, Open(r) PROVE Rests
  <2>1. req[r].head = 0
    BY <1>0, <1>1, NotMerged DEF Open
  <2>2. PICK body \in Bodies, who \in Principals :
           req' = [req EXCEPT ![r].pc = "asked", ![r].body = body, ![r].who = who]
    BY <1>1 DEF Open
  <2>3. req'[r].head = req[r].head /\ \A p \in Requests \ {r} : req'[p] = req[p]
    BY <1>0, <1>r, <2>2 DEF Request
  <2> QED  BY <1>1, <2>1, <2>3 DEF Open, Settled
<1>2. ASSUME NEW r \in Requests, NEW category, Refuse(r, category), tables' = tables PROVE Rests
  <2>1. /\ \A p \in Requests \ {r} : req'[p] = req[p]
        /\ req'[r] = [req[r] EXCEPT !.pc = "answered", !.answer = category]
    BY <1>r, <1>2 DEF Refuse
  <2>2. /\ req'[r].head = req[r].head /\ req'[r].body = req[r].body
        /\ req'[r].who = req[r].who
    BY <1>0, <2>1 DEF Request
  <2> QED  BY <1>2, <2>1, <2>2 DEF Settled
<1>3. ASSUME NEW r \in Requests, tables' = tables,
             NEW q, req' = [req EXCEPT ![r] = q],
             q.head = req[r].head, q.body = req[r].body, q.who = req[r].who
      PROVE  Rests
  <2>1. \A p \in Requests : req'[p] = IF p = r THEN q ELSE req[p]
    BY <1>r, <1>3
  <2> QED  BY <1>3, <2>1 DEF Settled
<1>4. ASSUME NEW r \in Requests, Advance(r) PROVE Rests
  <2> DEFINE At(pc) == [req[r] EXCEPT !.pc = pc]
             Snapped == [req[r] EXCEPT !.pc = "declared", !.snap = HeadIndex]
             Narrow(e) == [req[r] EXCEPT !.pc = "narrowed", !.eff = e]
             Pins == [req[r] EXCEPT !.pc = "pinned", !.base = HeadIndex]
             Answers == [req[r] EXCEPT !.pc = "answered", !.answer = "created"]
             Same(q) == q.head = req[r].head /\ q.body = req[r].body /\ q.who = req[r].who
  <2>0. /\ \A pc : Same(At(pc))
        /\ \A e : Same(Narrow(e))
        /\ Same(Snapped) /\ Same(Pins) /\ Same(Answers)
    BY <1>0 DEF Request
  <2>1. CASE \/ Resolve(r) /\ req' = [req EXCEPT ![r] = At("opened")]
             \/ Persist(r) /\ req' = [req EXCEPT ![r] = At("persisted")]
    BY <1>3, <2>0, <2>1 DEF Resolve, Persist
  <2>2. CASE Declare(r)
    <3>1. CASE req' = [req EXCEPT ![r] = Snapped]
      BY <1>3, <2>0, <2>2, <3>1 DEF Declare
    <3> QED  BY <1>2, <2>2, <3>1 DEF Declare
  <2>3. CASE Authorise(r)
    <3>1. CASE \E e : req' = [req EXCEPT ![r] = Narrow(e)]
      BY <1>3, <2>0, <2>3, <3>1 DEF Authorise
    <3> QED  BY <1>2, <2>3, <3>1 DEF Authorise
  <2>4. CASE NewContribution(r)
    <3>1. CASE req' = [req EXCEPT ![r] = Pins]
      BY <1>3, <2>0, <2>4, <3>1 DEF NewContribution
    <3> QED  BY <1>2, <2>4, <3>1 DEF NewContribution
  <2>5. CASE AddWire(r)
    <3>1. CASE req' = [req EXCEPT ![r] = At("added")]
      BY <1>3, <2>0, <2>5, <3>1 DEF AddWire
    <3> QED  BY <1>2, <2>5, <3>1 DEF AddWire
  <2>6. CASE CompleteAndVerify(r) \/ MergeConflicts(r)
    <3>1. CASE CompleteAndVerify(r) /\ req' = [req EXCEPT ![r] = At("verified")]
      BY <1>3, <2>0, <3>1 DEF CompleteAndVerify
    <3> QED  BY <1>2, <2>6, <3>1 DEF CompleteAndVerify, MergeConflicts
  <2>7. CASE PersistClaim(r)
    BY <2>7 DEF PersistClaim, Settled
  <2>8. CASE Answer(r)
    <3>1. req' = [req EXCEPT ![r] = Answers]
      BY <2>8 DEF Answer
    <3> QED  BY <1>3, <2>0, <2>8, <3>1 DEF Answer
  <2> QED  BY <1>4, <2>1, <2>2, <2>3, <2>4, <2>5, <2>6, <2>7, <2>8
           DEF Advance, Resolve, Persist
<1>5. ASSUME NEW r \in Requests, StackFault(r) PROVE Rests
  BY <1>2, <1>5 DEF StackFault
<1>6. ASSUME NEW B, CutOff(B) PROVE Rests
  <2>1. \A p \in Requests : req'[p] = req[p] \/ req'[p] = [req[p] EXCEPT !.pc = "lost"]
    BY <1>6 DEF CutOff
  <2> QED  BY <1>0, <1>6, <2>1 DEF CutOff, Settled, Request
<1>7. CASE UNCHANGED vars
  BY <1>7 DEF vars, Settled
<1> QED  BY <1>1, <1>4, <1>5, <1>6, <1>7 DEF Next, Disconnect, Restart

LEMMA MergedByRight ==
    ASSUME IInv, MergesPermitted, NEW B \in SUBSET Requests, Merge(B)
    PROVE  MergesPermitted'
<1>1. /\ HeadIndex \in Nat \ {0} /\ HeadIndex' = HeadIndex + 1
      /\ \A k \in 1 .. HeadIndex : tables'[k] = tables[k]
      /\ Current = tables[HeadIndex]
  BY MergeAppends DEF Current
<1>2. ASSUME NEW r \in B
      PROVE  req'[r].head \in 2 .. HeadIndex' /\ Archive!Permitted(req[r].body, req[r].who, Current)
             /\ req'[r].body = req[r].body /\ req'[r].who = req[r].who
             /\ tables'[req'[r].head - 1] = Current
  <2>1. req[r].pc = "persisted" /\ req[r] \in Request
    BY DEF Merge, IInv, TypeOK
  <2>2. req'[r] = [req[r] EXCEPT !.pc = "merged", !.head = HeadIndex + 1]
    BY DEF Merge
  <2>3. /\ req'[r].head = HeadIndex + 1
        /\ req'[r].body = req[r].body /\ req'[r].who = req[r].who
    BY <2>1, <2>2 DEF Request
  <2>4. req'[r].head - 1 = HeadIndex /\ req'[r].head \in 2 .. HeadIndex' /\ HeadIndex \in 1 .. HeadIndex
    BY <1>1, <2>3
  <2> QED  BY <1>1, <2>1, <2>3, <2>4, PermittedAtMerge
<1>3. ASSUME NEW r \in Requests \ B, req[r].head # 0
      PROVE  /\ req'[r] = req[r] /\ req[r].head \in 2 .. HeadIndex'
             /\ tables'[req[r].head - 1] = tables[req[r].head - 1]
             /\ Archive!Permitted(req[r].body, req[r].who, tables[req[r].head - 1])
  <2>1. req[r].head \in 2 .. HeadIndex
        /\ Archive!Permitted(req[r].body, req[r].who, tables[req[r].head - 1])
    BY <1>3 DEF MergesPermitted, MetTable
  <2>2. req[r].head - 1 \in 1 .. HeadIndex /\ req[r].head \in 2 .. HeadIndex'
    BY <1>1, <2>1
  <2> QED  BY <1>1, <2>1, <2>2 DEF Merge
<1>4. \A r \in Requests \ B : req'[r] = req[r]
  BY DEF Merge
<1>5. ASSUME NEW r \in Requests, req'[r].head # 0
      PROVE  /\ req'[r].head \in 2 .. HeadIndex'
             /\ Archive!Permitted(req'[r].body, req'[r].who, tables'[req'[r].head - 1])
  BY <1>2, <1>3, <1>4, <1>5
<1> QED  BY <1>5 DEF MergesPermitted, MetTable

LEMMA PermittedInductive == Spec => []MergesPermitted
<1>1. Init => MergesPermitted
  BY DEF Init, NoRequest, MergesPermitted
<1>2. IInv /\ MergesPermitted /\ [Next]_vars => MergesPermitted'
  <2> SUFFICES ASSUME IInv, MergesPermitted, [Next]_vars, \A B \in SUBSET Requests : ~ Merge(B)
               PROVE  MergesPermitted'
    BY MergedByRight
  <2>1. tables' = tables /\ HeadIndex' = HeadIndex /\ \A p \in Requests : Settled(p)
    BY HeadsSettle DEF HeadIndex
  <2>2. ASSUME NEW r \in Requests, req'[r].head # 0
        PROVE  /\ req'[r].head \in 2 .. HeadIndex'
               /\ Archive!Permitted(req'[r].body, req'[r].who, tables'[req'[r].head - 1])
    BY <2>1, <2>2 DEF Settled, MergesPermitted, MetTable
  <2> QED  BY <2>2 DEF MergesPermitted, MetTable
<1> QED  BY <1>1, <1>2, Inductive, PTL DEF Spec

LEMMA ReservedByName ==
    ASSUME NEW who, NEW right, NEW scope \in Reserved, Allow(who, right, scope)
    PROVE  Names(who, right, scope)
<1>1. \A g : Allows(g, right, scope) => g.glob.text = scope /\ right \in g.rights
  BY DEF Allows, MatchBranch
<1> QED  BY <1>1 DEF Allow, AnyAllows, AllAllows, Names

(* Whatever was merged: no wildcard entered a branch, carried a branch table *)
(* or read past the branches it matches; the account and every caveat of the *)
(* token wrote the reserved scope out (access.go:211).                       *)
THEOREM ReservedIsNamed == Spec => []ReservedByNameOnly
<1>1. MergesPermitted => ReservedByNameOnly
  <2> SUFFICES ASSUME MergesPermitted, NEW r \in Requests, req[r].head # 0
               PROVE  LET q == req[r]
                      IN  /\ \/ MissingBranches(MetTable(q), q.body.branches) # {}
                             \/ AllAdds(q.body) \cap TableClaims # {}
                             => Names(q.who, Contribute, Branches)
                          /\ (\E b \in BranchNames :
                                ~ Imports(q.body, b, MetTable(q))
                                     \subseteq ReadsOfBranches(q.who, MetTable(q)))
                             => Names(q.who, Read, Universe)
    BY DEF ReservedByNameOnly
  <2> DEFINE q == req[r]
             table == MetTable(q)
  <2>1. Archive!Permitted(q.body, q.who, table)
    BY DEF MergesPermitted
  <2> HIDE DEF table, q
  <2>2. Universe \in Reserved /\ Branches \in Reserved
    BY DEF Reserved
  <2>3. /\ MissingBranches(table, q.body.branches) # {} => Allow(q.who, Contribute, Branches)
        /\ AllAdds(q.body) \cap TableClaims # {} => Allow(q.who, Contribute, Branches)
        /\ \A b \in BranchNames :
              Imports(q.body, b, table) \subseteq Archive!Readable(q.who, table)
    BY <2>1, SameAllow, SameTables DEF Archive!Permitted
  <2>4. ~ Allow(q.who, Read, Universe) => Archive!Readable(q.who, table) = ReadsOfBranches(q.who, table)
    BY SameAllow DEF Archive!Readable, ReadsOfBranches
  <2>5. /\ MissingBranches(table, q.body.branches) # {} \/ AllAdds(q.body) \cap TableClaims # {}
              => Names(q.who, Contribute, Branches)
        /\ (\E b \in BranchNames :
              ~ Imports(q.body, b, table) \subseteq ReadsOfBranches(q.who, table))
              => Names(q.who, Read, Universe)
    BY <2>2, <2>3, <2>4, ReservedByName
  <2> QED  BY <2>5 DEF q, table
<1> QED  BY <1>1, PermittedInductive, PTL

LEMMA FewerCaveats ==
    ASSUME NEW who \in Principal, NEW fewer \in SUBSET who.caveats
    PROVE  \A right, scope : Allow(who, right, scope) =>
               Allow([who EXCEPT !.caveats = fewer], right, scope)
BY DEF Principal, Allow, AllAllows

(* A token only narrows: all it had merged would have been permitted by the  *)
(* archive it met under any of its caveats less (access.go:180).             *)
THEOREM TokensNarrow == Spec => []AttenuationNarrows
<1>1. IInv /\ MergesPermitted => AttenuationNarrows
  <2> SUFFICES ASSUME IInv, MergesPermitted, NEW r \in Requests, req[r].head # 0,
                      NEW fewer \in SUBSET req[r].who.caveats
               PROVE  Archive!Permitted(req[r].body, [req[r].who EXCEPT !.caveats = fewer],
                                        MetTable(req[r]))
    BY DEF AttenuationNarrows
  <2> DEFINE body == req[r].body
             who == req[r].who
             weaker == [req[r].who EXCEPT !.caveats = fewer]
             table == MetTable(req[r])
  <2>1. who \in Principal
    BY DEF IInv, TypeOK, Request
  <2>2. /\ req[r].head \in 2 .. HeadIndex
        /\ Archive!Permitted(body, who, table)
    BY DEF MergesPermitted
  <2>3. table \in Table
    <3>1. HeadIndex \in Nat /\ HeadIndex = Len(tables) /\ tables \in Seq(Table)
      BY DEF IInv, TypeOK, HeadIndex
    <3>2. req[r].head - 1 \in 1 .. Len(tables)
      BY <2>2, <3>1
    <3> QED  BY <3>1, <3>2 DEF MetTable
  <2>4. \A right, scope : Allow(who, right, scope) => Allow(weaker, right, scope)
    BY <2>1, FewerCaveats
  <2> HIDE DEF body, who, weaker, table
  <2>5. \A b \in BranchNames : table.holds[b] \in SUBSET Claims
    BY <2>3 DEF Table
  <2>6. Archive!Readable(who, table) \subseteq Archive!Readable(weaker, table)
    BY <2>4, <2>5, SameAllow DEF Archive!Readable
  <2>7. Archive!Permitted(body, weaker, table)
    BY <2>2, <2>4, <2>6, SameAllow DEF Archive!Permitted
  <2> QED  BY <2>7 DEF body, weaker, table
<1> QED  BY <1>1, Inductive, PermittedInductive, PTL

(* The pipeline, for all that may land between its steps, is an archive     *)
(* that grows by atomic merges, each of them permitted by the grants and    *)
(* caveats of those who asked for it against the very table it extends.     *)
THEOREM PipelineImplementsArchive == Spec => ImplementsArchive
<1>1. Init => Archive!AInit
  <2> SUFFICES ASSUME Init PROVE Archive!AInit
    OBVIOUS
  <2>1. \A r \in Requests : req[r] = NoRequest
    BY DEF Init
  <2>2. \A r \in Requests : /\ req[r].head = 0 /\ Told(req[r]) = "unasked"
                            /\ req[r].body = Archive!NoBody /\ req[r].who = Archive!Nobody
    <3>1. NoRequest.head = 0 /\ NoRequest.pc = "idle"
      BY DEF NoRequest
    <3>2. NoRequest.body = Archive!NoBody /\ NoRequest.who = Archive!Nobody
      BY DEF NoRequest, Archive!NoBody, Archive!Nobody
    <3>3. Told(NoRequest) = "unasked"
      BY <3>1 DEF Told, InFlight
    <3> QED  BY <2>1, <3>1, <3>2, <3>3
  <2> QED  BY <2>2, SameTables DEF Init, Archive!AInit
<1>2. IInv /\ [Next]_vars => [Archive!ANext]_(Archive!avars)
  <2> SUFFICES ASSUME IInv, [Next]_vars
               PROVE  Archive!ANext \/ UNCHANGED Archive!avars
    OBVIOUS
  <2>1. ASSUME NEW r \in Requests, Open(r) PROVE Archive!ANext
    BY <2>1, OpenAsks DEF Archive!ANext
  <2>2. ASSUME NEW r \in Requests, Advance(r)
        PROVE  Archive!ANext \/ UNCHANGED Archive!avars
    BY <2>2, AdvanceMaps
  <2>3. ASSUME NEW r \in Requests, StackFault(r) PROVE Archive!ANext
    <3>1. req[r].pc \in InFlight /\ tables' = tables
      BY <2>3 DEF StackFault, CallsLibrary
    <3>2. PICK e \in StackErrors : Refuse(r, FaultCategory(req[r].pc, e))
      BY <2>3 DEF StackFault
    <3>3. Archive!ATell(r)
      BY <3>1, <3>2, FaultsCategorised, RefuseTells
    <3> QED  BY <3>3 DEF Archive!ANext
  <2>4. ASSUME NEW r \in Requests, Disconnect(r) PROVE Archive!ANext
    <3>1. CutOff({r}) /\ \E p \in {r} : req[p].pc \in InFlight
      BY <2>4 DEF Disconnect
    <3> QED  BY <3>1, CutOffMaps DEF Archive!ANext
  <2>5. CASE Restart
    <3>1. CutOff(Requests) /\ \E p \in Requests : req[p].pc \in InFlight
      BY <2>5 DEF Restart
    <3> QED  BY <3>1, CutOffMaps DEF Archive!ANext
  <2>6. CASE UNCHANGED vars
    BY <2>6 DEF vars, Archive!avars
  <2> QED  BY <2>1, <2>2, <2>3, <2>4, <2>5, <2>6 DEF Next
<1> QED  BY <1>1, <1>2, Inductive, PTL DEF Spec, ImplementsArchive, Archive!ASpec

-----------------------------------------------------------------------------
(* The pipeline runs down.                                                 *)

(* How far along contribute a request is; an answer and a cut-off end it.  *)
Stage == [idle |-> 0, asked |-> 1, opened |-> 2, declared |-> 3, narrowed |-> 4,
          pinned |-> 5, added |-> 6, verified |-> 7, persisted |-> 8, merged |-> 9,
          answered |-> 10, lost |-> 10]

(* Nothing is retried behind the caller's back and no answer is taken back: *)
(* a request that a step touches is further along for it, one that has its  *)
(* answer or was cut off is not touched again, and a step that touches none *)
(* has stored one claim more of the finitely many there are (execute.go).   *)
RequestsRunDown ==
    [][/\ \A r \in Requests :
             \/ req'[r] = req[r]
             \/ Stage[req[r].pc] < Stage[req'[r].pc]
       /\ stored \subseteq stored'
       /\ (\A r \in Requests : req'[r] = req[r]) => stored # stored' /\ tables = tables']_vars

LEMMA Stages ==
    /\ \A p \in PCs : Stage[p] \in 0 .. 10
    /\ \A p \in InFlight : Stage[p] \in 1 .. 9
    BY DEF Stage, PCs, InFlight

(* A step of one request, which leaves the stack as it was.                *)
Onward(r) ==
    /\ \A p \in Requests \ {r} : req'[p] = req[p]
    /\ Stage[req[r].pc] < Stage[req'[r].pc]
    /\ stored' = stored

(* Nothing else than the request is put further along.                     *)
LEMMA Further ==
    ASSUME TypeOK, NEW r \in Requests, NEW q, req' = [req EXCEPT ![r] = q],
           Stage[req[r].pc] < Stage[q.pc], stored' = stored
    PROVE  Onward(r)
BY DEF TypeOK, Onward

(* A refusal ends a request that is under way.                             *)
LEMMA RefuseEnds ==
    ASSUME TypeOK, NEW r \in Requests, NEW category,
           req[r].pc \in InFlight, Refuse(r, category), stored' = stored
    PROVE  Onward(r)
<1>1. req[r] \in Request
  BY DEF TypeOK
<1>2. PICK q : q = [req[r] EXCEPT !.pc = "answered", !.answer = category]
  OBVIOUS
<1>3. q.pc = "answered"
  BY <1>1, <1>2 DEF Request
<1>4. req' = [req EXCEPT ![r] = q]
  BY <1>2 DEF Refuse, TypeOK
<1>5. Stage["answered"] = 10 /\ Stage[req[r].pc] \in 1 .. 9
  BY Stages DEF Stage
<1>6. Stage[req[r].pc] < Stage[q.pc]
  BY <1>3, <1>5
<1> QED  BY <1>4, <1>6, Further

(* Each step of a request from where it is to the next.                    *)
LEMMA StepsFurther ==
    ASSUME TypeOK, NEW r \in Requests
    PROVE  \A q :
             /\ req[r].pc = "idle" /\ q.pc = "asked" => Stage[req[r].pc] < Stage[q.pc]
             /\ req[r].pc = "asked" /\ q.pc = "opened" => Stage[req[r].pc] < Stage[q.pc]
             /\ req[r].pc = "opened" /\ q.pc = "declared" => Stage[req[r].pc] < Stage[q.pc]
             /\ req[r].pc = "declared" /\ q.pc = "narrowed" => Stage[req[r].pc] < Stage[q.pc]
             /\ req[r].pc = "narrowed" /\ q.pc = "pinned" => Stage[req[r].pc] < Stage[q.pc]
             /\ req[r].pc = "pinned" /\ q.pc = "added" => Stage[req[r].pc] < Stage[q.pc]
             /\ req[r].pc = "added" /\ q.pc = "verified" => Stage[req[r].pc] < Stage[q.pc]
             /\ req[r].pc = "verified" /\ q.pc = "persisted" => Stage[req[r].pc] < Stage[q.pc]
             /\ req[r].pc = "persisted" /\ q.pc = "merged" => Stage[req[r].pc] < Stage[q.pc]
             /\ req[r].pc = "merged" /\ q.pc = "answered" => Stage[req[r].pc] < Stage[q.pc]
BY DEF Stage

LEMMA StepsOnward ==
    ASSUME TypeOK, NEW r \in Requests,
           \/ Open(r) \/ Resolve(r) \/ Declare(r) \/ Authorise(r) \/ NewContribution(r) \/ AddWire(r)
           \/ CompleteAndVerify(r) \/ Persist(r) \/ MergeConflicts(r) \/ Answer(r)
           \/ StackFault(r) \/ Disconnect(r)
    PROVE  Onward(r)
<1>1. ASSUME NEW category, req[r].pc \in InFlight,
             Refuse(r, category), stored' = stored
      PROVE  Onward(r)
  BY <1>1, RefuseEnds
<1>2. req[r] \in Request
  BY DEF TypeOK
<1>3. CASE Open(r)
  <2>1. PICK body \in Bodies, who \in Principals :
           req' = [req EXCEPT ![r].pc = "asked", ![r].body = body, ![r].who = who]
    BY <1>3 DEF Open
  <2>2. PICK q : q = [req[r] EXCEPT !.pc = "asked", !.body = body, !.who = who]
    OBVIOUS
  <2>3. q.pc = "asked"
    BY <1>2, <2>2 DEF Request
  <2>4. req' = [req EXCEPT ![r] = q]
    BY <2>1, <2>2 DEF TypeOK
  <2> QED  BY <1>3, <2>3, <2>4, Further, StepsFurther DEF Open
<1>4. CASE Declare(r)
  <2>1. CASE Refuse(r, "invalid")
    <3>1. req[r].pc \in InFlight /\ stored' = stored
      BY <1>4, Zenon DEF Declare, InFlight
    <3> QED  BY <1>1, <2>1, <3>1, Zenon
  <2>2. CASE req' = [req EXCEPT ![r].pc = "declared", ![r].snap = HeadIndex]
    <3>1. PICK q : q = [req[r] EXCEPT !.pc = "declared", !.snap = HeadIndex]
      OBVIOUS
    <3>2. q.pc = "declared"
      BY <1>2, <3>1 DEF Request
    <3>3. req' = [req EXCEPT ![r] = q]
      BY <2>2, <3>1 DEF TypeOK
    <3> QED  BY <1>4, <3>2, <3>3, Further, StepsFurther DEF Declare
  <2> QED  BY <1>4, <2>1, <2>2 DEF Declare
<1>5. CASE Authorise(r)
  <2> DEFINE eff == Effective(req[r].body, req[r].who, tables[req[r].snap])
  <2>1. CASE Refuse(r, "forbidden")
    <3>1. req[r].pc \in InFlight /\ stored' = stored
      BY <1>5, Zenon DEF Authorise, InFlight
    <3> QED  BY <1>1, <2>1, <3>1, Zenon
  <2>2. CASE req' = [req EXCEPT ![r].pc = "narrowed", ![r].eff = eff]
    <3>1. PICK q : q = [req[r] EXCEPT !.pc = "narrowed", !.eff = eff]
      OBVIOUS
    <3>2. q.pc = "narrowed"
      BY <1>2, <3>1 DEF Request
    <3> HIDE DEF eff
    <3>3. req' = [req EXCEPT ![r] = q]
      BY <2>2, <3>1 DEF TypeOK
    <3> QED  BY <1>5, <3>2, <3>3, Further, StepsFurther DEF Authorise
  <2> QED  BY <1>5, <2>1, <2>2 DEF Authorise
<1>6. CASE NewContribution(r)
  <2>1. CASE Refuse(r, MapLibError("BranchNotCreatable"))
    BY <1>1, <1>6, <2>1 DEF NewContribution, InFlight
  <2>2. CASE req' = [req EXCEPT ![r].pc = "pinned", ![r].base = HeadIndex]
    <3>1. PICK q : q = [req[r] EXCEPT !.pc = "pinned", !.base = HeadIndex]
      OBVIOUS
    <3>2. q.pc = "pinned"
      BY <1>2, <3>1 DEF Request
    <3>3. req' = [req EXCEPT ![r] = q]
      BY <2>2, <3>1 DEF TypeOK
    <3> QED  BY <1>6, <3>2, <3>3, Further, StepsFurther DEF NewContribution
  <2> QED  BY <1>6, <2>1, <2>2 DEF NewContribution
<1>7. CASE AddWire(r)
  <2>1. CASE Refuse(r, MapWireError("Undeclared"))
    BY <1>1, <1>7, <2>1 DEF AddWire, InFlight
  <2>2. CASE req' = [req EXCEPT ![r].pc = "added"]
    <3>1. PICK q : q = [req[r] EXCEPT !.pc = "added"]
      OBVIOUS
    <3>2. q.pc = "added"
      BY <1>2, <3>1 DEF Request
    <3>3. req' = [req EXCEPT ![r] = q]
      BY <2>2, <3>1 DEF TypeOK
    <3> QED  BY <1>7, <3>2, <3>3, Further, StepsFurther DEF AddWire
  <2> QED  BY <1>7, <2>1, <2>2 DEF AddWire
<1>8. CASE CompleteAndVerify(r)
  <2>1. CASE \E e \in Defects(req[r]) : Refuse(r, MapVerifyError(e))
    BY <1>1, <1>8, <2>1 DEF CompleteAndVerify, InFlight
  <2>2. CASE req' = [req EXCEPT ![r].pc = "verified"]
    <3>1. PICK q : q = [req[r] EXCEPT !.pc = "verified"]
      OBVIOUS
    <3>2. q.pc = "verified"
      BY <1>2, <3>1 DEF Request
    <3>3. req' = [req EXCEPT ![r] = q]
      BY <2>2, <3>1 DEF TypeOK
    <3> QED  BY <1>8, <3>2, <3>3, Further, StepsFurther DEF CompleteAndVerify
  <2> QED  BY <1>8, <2>1, <2>2 DEF CompleteAndVerify
<1>9. CASE Persist(r)
  <2>1. PICK q : q = [req[r] EXCEPT !.pc = "persisted"]
    OBVIOUS
  <2>2. q.pc = "persisted"
    BY <1>2, <2>1 DEF Request
  <2>3. req' = [req EXCEPT ![r] = q]
    BY <1>9, <2>1 DEF Persist, TypeOK
  <2> QED  BY <1>9, <2>2, <2>3, Further, StepsFurther DEF Persist
<1>10. CASE MergeConflicts(r)
  BY <1>1, <1>10 DEF MergeConflicts, InFlight
<1>11. CASE Answer(r)
  <2>1. PICK q : q = [req[r] EXCEPT !.pc = "answered", !.answer = "created"]
    OBVIOUS
  <2>2. q.pc = "answered"
    BY <1>2, <2>1 DEF Request
  <2>3. req' = [req EXCEPT ![r] = q]
    BY <1>11, <2>1 DEF Answer, TypeOK
  <2> QED  BY <1>11, <2>2, <2>3, Further, StepsFurther DEF Answer
<1>12. CASE StackFault(r)
  BY <1>1, <1>12 DEF StackFault, CallsLibrary
<1>13. CASE Disconnect(r)
  <2>1. PICK q : q = [req[r] EXCEPT !.pc = "lost"]
    OBVIOUS
  <2>2. q.pc = "lost"
    BY <1>2, <2>1 DEF Request
  <2>3. req' = [req EXCEPT ![r] = q] /\ stored' = stored
    BY <1>13, <2>1 DEF Disconnect, CutOff, TypeOK
  <2>4. Stage["lost"] = 10 /\ Stage[req[r].pc] \in 1 .. 9
    BY <1>13, Stages DEF Stage, Disconnect
  <2>5. Stage[req[r].pc] < Stage[q.pc]
    BY <2>2, <2>4
  <2> QED  BY <2>3, <2>5, Further
<1>14. CASE Resolve(r)
  <2>1. PICK q : q = [req[r] EXCEPT !.pc = "opened"]
    OBVIOUS
  <2>2. q.pc = "opened"
    BY <1>2, <2>1 DEF Request
  <2>3. req' = [req EXCEPT ![r] = q]
    BY <1>14, <2>1 DEF Resolve, TypeOK
  <2> QED  BY <1>14, <2>2, <2>3, Further, StepsFurther DEF Resolve
<1> QED  BY <1>3, <1>4, <1>5, <1>6, <1>7, <1>8, <1>9, <1>10, <1>11, <1>12, <1>13, <1>14

(* However many requests, faults and restarts: there is no step of the      *)
(* pipeline that sends a request back or answers it twice, so with finitely *)
(* many requests and claims it comes to rest (execute.go).                  *)
THEOREM RequestsEnd == Spec => RequestsRunDown
<1> DEFINE Moves == /\ \A r \in Requests :
                          \/ req'[r] = req[r]
                          \/ Stage[req[r].pc] < Stage[req'[r].pc]
                    /\ stored \subseteq stored'
                    /\ (\A r \in Requests : req'[r] = req[r]) =>
                           stored # stored' /\ tables = tables'
<1>1. ASSUME TypeOK, NEW r \in Requests, Stage[req[r].pc] < Stage[req'[r].pc]
      PROVE  req'[r] # req[r]
  <2>1. Stage[req[r].pc] \in 0 .. 10
    <3>1. req[r] \in Request
      BY <1>1 DEF TypeOK
    <3>2. req[r].pc \in PCs
      BY <3>1 DEF Request
    <3> QED  BY <3>2, Stages
  <2> QED  BY <1>1, <2>1
<1>2. ASSUME TypeOK, NEW r \in Requests, Onward(r) PROVE Moves
  BY <1>1, <1>2 DEF Onward
<1>3. ASSUME TypeOK, NEW r \in Requests, PersistClaim(r) PROVE Moves
  BY <1>3 DEF PersistClaim
<1>4. ASSUME TypeOK, NEW B \in SUBSET Requests, Merge(B) PROVE Moves
  <2>1. stored' = stored
    BY <1>4 DEF Merge
  <2>2. ASSUME NEW r \in B PROVE Stage[req[r].pc] < Stage[req'[r].pc]
    <3>1. req[r] \in Request /\ req[r].pc = "persisted" /\ r \in Requests
      BY <1>4 DEF Merge, TypeOK
    <3>2. PICK q : q = [req[r] EXCEPT !.pc = "merged", !.head = HeadIndex + 1]
      OBVIOUS
    <3>3. q.pc = "merged"
      BY <3>1, <3>2 DEF Request
    <3>4. req'[r] = q
      BY <1>4, <3>1, <3>2 DEF Merge
    <3> QED  BY <1>4, <3>1, <3>3, <3>4, StepsFurther
  <2>3. \A r \in Requests \ B : req'[r] = req[r]
    BY <1>4 DEF Merge
  <2>4. PICK r \in B : req'[r] # req[r]
    BY <1>1, <1>4, <2>2 DEF Merge
  <2> QED  BY <2>1, <2>2, <2>3, <2>4
<1>5. ASSUME TypeOK, Restart PROVE Moves
  <2>1. stored' = stored
    BY <1>5 DEF Restart, CutOff
  <2>2. ASSUME NEW r \in Requests, req[r].pc \in InFlight
        PROVE  Stage[req[r].pc] < Stage[req'[r].pc]
    <3>1. PICK q : q = [req[r] EXCEPT !.pc = "lost"]
      OBVIOUS
    <3>2. q.pc = "lost"
      BY <1>5, <3>1 DEF TypeOK, Request
    <3>3. req'[r] = q
      BY <1>5, <2>2, <3>1 DEF Restart, CutOff
    <3>4. Stage["lost"] = 10 /\ Stage[req[r].pc] \in 1 .. 9
      BY <2>2, Stages DEF Stage
    <3> QED  BY <3>2, <3>3, <3>4
  <2>3. \A r \in Requests : req[r].pc \notin InFlight => req'[r] = req[r]
    BY <1>5 DEF Restart, CutOff
  <2>4. PICK r \in Requests : req'[r] # req[r]
    BY <1>1, <1>5, <2>2 DEF Restart
  <2> QED  BY <2>1, <2>2, <2>3, <2>4
<1>6. IInv /\ [Next]_vars => [Moves]_vars
  <2> SUFFICES ASSUME IInv, Next PROVE Moves
    OBVIOUS
  <2>1. TypeOK
    BY DEF IInv
  <2> HIDE DEF Moves
  <2>2. ASSUME NEW r \in Requests, Open(r) \/ Advance(r) \/ StackFault(r) \/ Disconnect(r)
        PROVE  Moves
    BY <1>2, <1>3, <1>4, <2>1, <2>2, StepsOnward DEF Advance
  <2> QED  BY <1>5, <2>1, <2>2 DEF Next
<1> QED  BY <1>6, Inductive, PTL DEF Spec, RequestsRunDown
=============================================================================
