--------------------- MODULE VerificationRegistry_proofs ---------------------
(***************************************************************************)
(* Theorems about VerificationRegistry for any finite set of operators,    *)
(* any limit, any number of starts and any size of closure.                *)
(***************************************************************************)
EXTENDS VerificationRegistry, TLAPS, FiniteSetTheorems, SequenceTheorems

(* The constants, and what the definitions of records and places contain. *)

\* NoRun, Started, NoWalk and Idle have the types of their variables, and the
\* operators that build reports keep them.
LEMMA RecordTypes ==
  /\ NoRun \in Reports /\ Started \in Reports
  /\ NoRun.status = "none" /\ NoRun.completedAt = FALSE
  /\ Started.status = "running" /\ Started.completedAt = FALSE
  /\ NoWalk \in Handles /\ NoWalk.state = "none"
  /\ Idle \in Places /\ Idle.pc = "idle"
<1> USE ClaimsAssumption, StartsAssumption DEF Reports, Statuses, Handles, Places
<1>1. NoRun \in Reports
  BY DEF NoRun
<1>2. Started \in Reports
  BY <1>1 DEF Started
<1>3. NoRun.status = "none" /\ NoRun.completedAt = FALSE
  BY DEF NoRun
<1>4. Started.status = "running" /\ Started.completedAt = FALSE
  BY DEF Started, NoRun
<1>5. NoWalk \in Handles /\ NoWalk.state = "none"
  BY DEF NoWalk
<1>6. Idle \in Places /\ Idle.pc = "idle"
  BY DEF Idle
<1> QED
  BY <1>1, <1>2, <1>3, <1>4, <1>5, <1>6

\* What collect makes of a report: its findings are the handle's, it is
\* completed, and its status moves only from running.
LEMMA CollectedReport ==
  ASSUME NEW r \in Reports, NEW h \in Handles
  PROVE  /\ collected(r, h) \in Reports
         /\ collected(r, h).completedAt
         /\ collected(r, h).checked = h.verified
         /\ collected(r, h).failures = h.failures
         /\ collected(r, h).status
              = IF r.status # "running" THEN r.status
                ELSE IF h.err THEN "error" ELSE "complete"
  BY DEF collected, absorb, Reports, Handles, Statuses

\* Dropping an id yields a sequence over the same set.
LEMMA RemoveIDType ==
  ASSUME NEW S, NEW s \in Seq(S), NEW e
  PROVE  removeID(s, e) \in Seq(S)
<1>1. CASE \E k \in DOMAIN s : s[k] = e
  <2> DEFINE k == CHOOSE j \in DOMAIN s : s[j] = e
  <2>1. k \in 1 .. Len(s)
    BY <1>1
  <2> HIDE DEF k
  <2>2. SubSeq(s, 1, k - 1) \in Seq(S)
    BY <2>1, SubSeqProperties
  <2>3. SubSeq(s, k + 1, Len(s)) \in Seq(S)
    BY <2>1, SubSeqProperties
  <2>4. removeID(s, e) = SubSeq(s, 1, k - 1) \o SubSeq(s, k + 1, Len(s))
    BY <1>1 DEF removeID, RemoveAt, k
  <2> QED
    BY <2>2, <2>3, <2>4, ConcatProperties
<1>2. CASE ~ \E k \in DOMAIN s : s[k] = e
  BY <1>2 DEF removeID
<1> QED
  BY <1>1, <1>2

-----------------------------------------------------------------------------
(* Type correctness. *)

LEMMA InitTypeOK == Init => TypeOK
<1> SUFFICES ASSUME Init PROVE TypeOK
  OBVIOUS
<1>1. << >> \in Seq(Ids)
  BY EmptySeq
<1> QED
  BY <1>1, RecordTypes, StartsAssumption DEF Init, TypeOK

\* A request under way is at one of three places, with an id.
LEMMA BusyPlace ==
  ASSUME TypeOK, NEW o \in Operators, at[o].pc # "idle"
  PROVE  at[o] \in [pc : {"verify", "register", "cancel"}, id : Ids]
  BY DEF TypeOK, Places, Idle

LEMMA RequestTypeOK ==
  ASSUME TypeOK, NEW o \in Operators, Request(o)
  PROVE  TypeOK'
<1> USE DEF TypeOK
<1>1. CASE Reserve(o)
  <2>1. nextID + 1 \in Ids
    BY <1>1, StartsAssumption DEF Reserve, Ids
  <2>2. [pc |-> "verify", id |-> nextID + 1] \in Places
    BY <2>1 DEF Places
  <2>3. nextID + 1 \in 0 .. MaxStarts
    BY <2>1, StartsAssumption DEF Ids
  <2> QED
    BY <1>1, <2>2, <2>3 DEF Reserve
<1>2. CASE Verify(o)
  <2>1. at[o] \in [pc : {"verify", "register", "cancel"}, id : Ids]
    BY <1>2, BusyPlace DEF Verify
  <2>2. [at[o] EXCEPT !.pc = "register"] \in Places
    BY <2>1 DEF Places
  <2>3. [walk[at[o].id] EXCEPT !.state = "walking"] \in Handles
    BY <2>1 DEF Handles
  <2> QED
    BY <1>2, <2>1, <2>2, <2>3 DEF Verify
<1>3. CASE VerifyFails(o)
  BY <1>3, BusyPlace DEF VerifyFails, Places
<1>4. CASE Register(o)
  <2>1. at[o].id \in Ids
    BY <1>4, BusyPlace DEF Register
  <2> QED
    BY <1>4, <2>1, RecordTypes, AppendProperties DEF Register, Places
<1>5. CASE Cancel(o)
  BY <1>5, BusyPlace DEF Cancel, Places
<1>6. ASSUME NEW id \in Ids, StopRun(o, id) PROVE TypeOK'
  <2>1. runs' \in [Ids -> Reports]
    BY <1>6 DEF StopRun, Reports, Statuses
  <2>2. at' \in [Operators -> Places]
    BY <1>6 DEF StopRun, Places
  <2> QED
    BY <1>6, <2>1, <2>2 DEF StopRun
<1>7. ASSUME NEW id \in Ids, RemoveRun(o, id) PROVE TypeOK'
  BY <1>7, RecordTypes, RemoveIDType DEF RemoveRun, Places
<1> QED
  BY <1>1, <1>2, <1>3, <1>4, <1>5, <1>6, <1>7 DEF Request

LEMMA WalkTypeOK ==
  ASSUME TypeOK, NEW id \in Ids, Walk(id)
  PROVE  TypeOK'
<1>1. walk' \in [Ids -> Handles]
  <2> USE DEF TypeOK
  <2>1. CASE WalkClaim(id)
    <3>1. PICK bad \in BOOLEAN :
            walk' = [walk EXCEPT ![id].verified = @ + 1,
                                 ![id].failures = @ \/ bad]
      BY <2>1 DEF WalkClaim
    <3> DEFINE h == [walk[id] EXCEPT !.verified = @ + 1, !.failures = @ \/ bad]
    <3>2. walk[id].verified + 1 \in 0 .. Claims
      BY <2>1, ClaimsAssumption DEF WalkClaim, Handles
    <3>3. h \in Handles
      BY <3>2 DEF Handles
    <3>4. walk' = [walk EXCEPT ![id] = h]
      BY <3>1, ZenonT(20)
    <3> QED
      BY <3>3, <3>4
  <2>2. CASE WalkEnds(id)
    BY <2>2 DEF WalkEnds, Handles
  <2>3. CASE WalkFaults(id)
    BY <2>3 DEF WalkFaults, Handles
  <2>4. CASE WalkCancelled(id)
    <3>1. PICK e \in BOOLEAN :
            walk' = [walk EXCEPT ![id].state = "done", ![id].err = e]
      BY <2>4 DEF WalkCancelled
    <3>2. [walk[id] EXCEPT !.state = "done", !.err = e] \in Handles
      BY DEF Handles
    <3> QED
      BY <3>1, <3>2
  <2> QED
    BY <2>1, <2>2, <2>3, <2>4 DEF Walk
<1> QED
  BY <1>1 DEF TypeOK, Walk, WalkClaim, WalkEnds, WalkFaults, WalkCancelled

LEMMA CollectTypeOK ==
  ASSUME TypeOK, NEW id \in Ids, Collect(id)
  PROVE  TypeOK'
<1>1. collected(runs[id], walk[id]) \in Reports
  BY CollectedReport DEF TypeOK
<1> QED
  BY <1>1 DEF TypeOK, Collect

\* Every reachable state is well typed: TypeOK is inductive by itself.
THEOREM TypeCorrect == Spec => []TypeOK
<1>1. TypeOK /\ [Next]_vars => TypeOK'
  <2>1. TypeOK /\ UNCHANGED vars => TypeOK'
    BY DEF TypeOK, vars
  <2> QED
    BY <2>1, RequestTypeOK, WalkTypeOK, CollectTypeOK DEF Next
<1> QED
  BY InitTypeOK, <1>1, PTL DEF Spec

-----------------------------------------------------------------------------
(* What a step of a walk, and of a collector, does. *)

\* A walk in progress goes on, or ends; it ends without an error, and without
\* having been cancelled, only when it has seen the whole closure.
LEMMA WalkEffect ==
  ASSUME TypeOK, NEW id \in Ids, Walk(id)
  PROVE  /\ walk[id].state = "walking"
         /\ \A i \in Ids \ {id} : walk'[i] = walk[i]
         /\ walk'[id].state \in {"walking", "done"}
         /\ walk'[id].state = "done" /\ ~ walk'[id].err /\ id \notin cancelled
              => walk'[id].verified = Claims
         /\ UNCHANGED <<nextID, runs, order, cancelled, collector, at>>
<1> USE DEF TypeOK
<1>1. CASE WalkClaim(id)
  <2>1. PICK bad \in BOOLEAN :
          walk' = [walk EXCEPT ![id].verified = @ + 1,
                               ![id].failures = @ \/ bad]
    BY <1>1 DEF WalkClaim
  <2>2. walk[id].state = "walking" /\ walk'[id].state = "walking"
    BY <1>1, <2>1 DEF WalkClaim, Handles
  <2>3. \A i \in Ids \ {id} : walk'[i] = walk[i]
    BY <2>1
  <2> QED
    BY <1>1, <2>2, <2>3 DEF WalkClaim
<1>2. CASE WalkEnds(id)
  BY <1>2 DEF WalkEnds, Handles
<1>3. CASE WalkFaults(id)
  BY <1>3 DEF WalkFaults, Handles
<1>4. CASE WalkCancelled(id)
  <2>1. PICK e \in BOOLEAN :
          walk' = [walk EXCEPT ![id].state = "done", ![id].err = e]
    BY <1>4 DEF WalkCancelled
  <2> QED
    BY <1>4, <2>1 DEF WalkCancelled, Handles
<1> QED
  BY <1>1, <1>2, <1>3, <1>4 DEF Walk

\* Collecting touches one report, if it is still held, and only once its walk
\* is done.
LEMMA CollectEffect ==
  ASSUME TypeOK, NEW id \in Ids, Collect(id)
  PROVE  /\ walk[id].state = "done"
         /\ collector[id] = "waiting"
         /\ collector' = [collector EXCEPT ![id] = "returned"]
         /\ \A i \in Ids \ {id} : runs'[i] = runs[i]
         /\ id \notin held => runs'[id] = NoRun
         /\ id \in held =>
              /\ runs'[id].completedAt
              /\ runs'[id].checked = walk[id].verified
              /\ runs'[id].failures = walk[id].failures
              /\ runs'[id].status
                   = IF runs[id].status # "running" THEN runs[id].status
                     ELSE IF walk[id].err THEN "error" ELSE "complete"
         /\ UNCHANGED <<nextID, order, walk, cancelled, at>>
<1>1. CASE id \in held
  BY <1>1, CollectedReport DEF Collect, TypeOK
<1>2. CASE id \notin held
  BY <1>2 DEF Collect, held
<1> QED
  BY <1>1, <1>2

-----------------------------------------------------------------------------
\* An id inside start stays its request's own.
LEMMA StartsApartStep ==
  ASSUME IInv, Next, TypeOK'
  PROVE  StartsApart'
<1> USE RecordTypes, BusyPlace DEF IInv, TypeOK, StartsApart, Starting
<1>1. ASSUME NEW o \in Operators, Reserve(o) PROVE StartsApart'
  BY <1>1 DEF Reserve, Ids, FreshIds
<1>2. ASSUME NEW o \in Operators, Verify(o) PROVE StartsApart'
  BY <1>2 DEF Verify
<1>3. ASSUME NEW o \in Operators, VerifyFails(o) PROVE StartsApart'
  BY <1>3 DEF VerifyFails
<1>4. ASSUME NEW o \in Operators, Register(o) PROVE StartsApart'
  BY <1>4 DEF Register
<1>5. ASSUME NEW o \in Operators, Cancel(o) PROVE StartsApart'
  BY <1>5 DEF Cancel, CancelsAreAsked
<1>6. ASSUME NEW o \in Operators, NEW id \in Ids, StopRun(o, id) PROVE StartsApart'
  BY <1>6 DEF StopRun
<1>7. ASSUME NEW o \in Operators, NEW id \in Ids, RemoveRun(o, id) PROVE StartsApart'
  BY <1>7 DEF RemoveRun
<1>8. ASSUME NEW id \in Ids, Walk(id) PROVE StartsApart'
  BY <1>8, WalkEffect
<1>9. ASSUME NEW id \in Ids, Collect(id) PROVE StartsApart'
  BY <1>9, CollectEffect
<1> QED
  BY <1>1, <1>2, <1>3, <1>4, <1>5, <1>6, <1>7, <1>8, <1>9
     DEF Next, Request, Walk

\* Ids not handed out stay without a trace.
LEMMA FreshIdsStep ==
  ASSUME IInv, Next, TypeOK'
  PROVE  FreshIds'
<1> USE RecordTypes, BusyPlace DEF IInv, TypeOK, FreshIds
<1>1. ASSUME NEW o \in Operators, Reserve(o) PROVE FreshIds'
  BY <1>1 DEF Reserve, Ids
<1>2. ASSUME NEW o \in Operators, Verify(o) PROVE FreshIds'
  BY <1>2 DEF Verify, StartsApart, Starting
<1>3. ASSUME NEW o \in Operators, VerifyFails(o) PROVE FreshIds'
  BY <1>3 DEF VerifyFails, StartsApart, Starting
<1>4. ASSUME NEW o \in Operators, Register(o) PROVE FreshIds'
  BY <1>4 DEF Register, StartsApart, Starting
<1>5. ASSUME NEW o \in Operators, Cancel(o) PROVE FreshIds'
  BY <1>5 DEF Cancel, CancelsAreAsked
<1>6. ASSUME NEW o \in Operators, NEW id \in Ids, StopRun(o, id) PROVE FreshIds'
  BY <1>6 DEF StopRun
<1>7. ASSUME NEW o \in Operators, NEW id \in Ids, RemoveRun(o, id) PROVE FreshIds'
  BY <1>7 DEF RemoveRun
<1>8. ASSUME NEW id \in Ids, Walk(id) PROVE FreshIds'
  BY <1>8, WalkEffect
<1>9. ASSUME NEW id \in Ids, Collect(id) PROVE FreshIds'
  BY <1>9, CollectEffect
<1> QED
  BY <1>1, <1>2, <1>3, <1>4, <1>5, <1>6, <1>7, <1>8, <1>9
     DEF Next, Request, Walk

\* Record, walk and collector come and go in order.
LEMMA RunsHaveCollectorsStep ==
  ASSUME IInv, Next, TypeOK'
  PROVE  RunsHaveCollectors'
<1> USE RecordTypes, BusyPlace DEF IInv, TypeOK, RunsHaveCollectors, held
<1>1. ASSUME NEW o \in Operators, Reserve(o) PROVE RunsHaveCollectors'
  BY <1>1 DEF Reserve, Ids
<1>2. ASSUME NEW o \in Operators, Verify(o) PROVE RunsHaveCollectors'
  BY <1>2 DEF Verify, StartsApart, Starting
<1>3. ASSUME NEW o \in Operators, VerifyFails(o) PROVE RunsHaveCollectors'
  BY <1>3 DEF VerifyFails
<1>4. ASSUME NEW o \in Operators, Register(o) PROVE RunsHaveCollectors'
  BY <1>4 DEF Register, StartsApart, Starting
<1>5. ASSUME NEW o \in Operators, Cancel(o) PROVE RunsHaveCollectors'
  BY <1>5 DEF Cancel
<1>6. ASSUME NEW o \in Operators, NEW id \in Ids, StopRun(o, id) PROVE RunsHaveCollectors'
  BY <1>6 DEF StopRun
<1>7. ASSUME NEW o \in Operators, NEW id \in Ids, RemoveRun(o, id) PROVE RunsHaveCollectors'
  BY <1>7 DEF RemoveRun
<1>8. ASSUME NEW id \in Ids, Walk(id) PROVE RunsHaveCollectors'
  <2>1. UNCHANGED <<runs, collector, at>> /\ held' = held
    BY <1>8, WalkEffect
  <2>2. \A i \in Ids : /\ walk'[i].state # "none" <=> walk[i].state # "none"
                       /\ walk[i].state = "done" => walk'[i].state = "done"
    BY <1>8, WalkEffect
  <2> QED
    BY <2>1, <2>2
<1>9. ASSUME NEW id \in Ids, Collect(id) PROVE RunsHaveCollectors'
  BY <1>9, CollectEffect
<1> QED
  BY <1>1, <1>2, <1>3, <1>4, <1>5, <1>6, <1>7, <1>8, <1>9
     DEF Next, Request, Walk

\* A cancellation and a stopped or dropped report imply each other.
LEMMA CancelsAreAskedStep ==
  ASSUME IInv, Next, TypeOK'
  PROVE  CancelsAreAsked'
<1> USE RecordTypes, BusyPlace DEF IInv, TypeOK, CancelsAreAsked, held
<1>1. ASSUME NEW o \in Operators, Reserve(o) PROVE CancelsAreAsked'
  BY <1>1 DEF Reserve, Ids
<1>2. ASSUME NEW o \in Operators, Verify(o) PROVE CancelsAreAsked'
  BY <1>2 DEF Verify
<1>3. ASSUME NEW o \in Operators, VerifyFails(o) PROVE CancelsAreAsked'
  BY <1>3 DEF VerifyFails, StartsApart, Starting
<1>4. ASSUME NEW o \in Operators, Register(o) PROVE CancelsAreAsked'
  BY <1>4 DEF Register, StartsApart, Starting
<1>5. ASSUME NEW o \in Operators, Cancel(o) PROVE CancelsAreAsked'
  BY <1>5 DEF Cancel
<1>6. ASSUME NEW o \in Operators, NEW id \in Ids, StopRun(o, id) PROVE CancelsAreAsked'
  <2>1. collector[id] # "none"
    BY <1>6 DEF StopRun, RunsHaveCollectors
  <2>9. runs'[id].status \in {"stopped", "none"}
    BY <1>6 DEF StopRun, Reports
  <2>2. at'[o] = [pc |-> "cancel", id |-> id] /\ at[o].pc = "idle"
    BY <1>6 DEF StopRun
  <2>3. \A i \in Ids \ {id} : runs'[i] = runs[i]
    BY <1>6 DEF StopRun
  <2>4. \A p \in Operators \ {o} : at'[p] = at[p]
    BY <1>6 DEF StopRun
  <2>5. UNCHANGED <<walk, cancelled, collector>>
    BY <1>6 DEF StopRun
  <2>6. ASSUME NEW p \in Operators, at'[p].pc = "cancel"
        PROVE  /\ at'[p].id \in Ids
               /\ collector'[at'[p].id] # "none"
               /\ runs'[at'[p].id].status \in {"stopped", "none"}
    BY <2>9, <2>1, <2>2, <2>3, <2>4, <2>5, <2>6
  <2>7. ASSUME NEW i \in cancelled', collector'[i] # "none"
        PROVE  runs'[i].status \in {"stopped", "none"}
    BY <2>9, <2>3, <2>5, <2>7
  <2>8. ASSUME NEW i \in Ids, collector'[i] # "none",
               runs'[i].status \in {"stopped", "none"}
        PROVE  \/ i \in cancelled'
               \/ \E p \in Operators : at'[p] = [pc |-> "cancel", id |-> i]
    <3>1. CASE i = id
      BY <3>1, <2>2
    <3>2. CASE i # id
      <4>1. i \in cancelled \/ \E p \in Operators \ {o} : at[p] = [pc |-> "cancel", id |-> i]
        BY <3>2, <2>2, <2>3, <2>5, <2>8
      <4> QED
        BY <4>1, <2>4, <2>5
    <3> QED
      BY <3>1, <3>2
  <2> QED
    BY <2>6, <2>7, <2>8
<1>7. ASSUME NEW o \in Operators, NEW id \in Ids, RemoveRun(o, id) PROVE CancelsAreAsked'
  <2>1. collector[id] # "none"
    BY <1>7 DEF RemoveRun, RunsHaveCollectors
  <2>9. runs'[id].status \in {"stopped", "none"}
    BY <1>7 DEF RemoveRun, Reports
  <2>2. at'[o] = [pc |-> "cancel", id |-> id] /\ at[o].pc = "idle"
    BY <1>7 DEF RemoveRun
  <2>3. \A i \in Ids \ {id} : runs'[i] = runs[i]
    BY <1>7 DEF RemoveRun
  <2>4. \A p \in Operators \ {o} : at'[p] = at[p]
    BY <1>7 DEF RemoveRun
  <2>5. UNCHANGED <<walk, cancelled, collector>>
    BY <1>7 DEF RemoveRun
  <2>6. ASSUME NEW p \in Operators, at'[p].pc = "cancel"
        PROVE  /\ at'[p].id \in Ids
               /\ collector'[at'[p].id] # "none"
               /\ runs'[at'[p].id].status \in {"stopped", "none"}
    BY <2>9, <2>1, <2>2, <2>3, <2>4, <2>5, <2>6
  <2>7. ASSUME NEW i \in cancelled', collector'[i] # "none"
        PROVE  runs'[i].status \in {"stopped", "none"}
    BY <2>9, <2>3, <2>5, <2>7
  <2>8. ASSUME NEW i \in Ids, collector'[i] # "none",
               runs'[i].status \in {"stopped", "none"}
        PROVE  \/ i \in cancelled'
               \/ \E p \in Operators : at'[p] = [pc |-> "cancel", id |-> i]
    <3>1. CASE i = id
      BY <3>1, <2>2
    <3>2. CASE i # id
      <4>1. i \in cancelled \/ \E p \in Operators \ {o} : at[p] = [pc |-> "cancel", id |-> i]
        BY <3>2, <2>2, <2>3, <2>5, <2>8
      <4> QED
        BY <4>1, <2>4, <2>5
    <3> QED
      BY <3>1, <3>2
  <2> QED
    BY <2>6, <2>7, <2>8
<1>8. ASSUME NEW id \in Ids, Walk(id) PROVE CancelsAreAsked'
  BY <1>8, WalkEffect
<1>9. ASSUME NEW id \in Ids, Collect(id) PROVE CancelsAreAsked'
  BY <1>9, CollectEffect
<1> QED
  BY <1>1, <1>2, <1>3, <1>4, <1>5, <1>6, <1>7, <1>8, <1>9
     DEF Next, Request, Walk

\* A clean end that was not cancelled has seen every claim.
LEMMA WholeUnlessCutStep ==
  ASSUME IInv, Next, TypeOK'
  PROVE  WholeUnlessCut'
<1> USE RecordTypes, BusyPlace DEF IInv, TypeOK, WholeUnlessCut
<1>1. ASSUME NEW o \in Operators, Reserve(o) PROVE WholeUnlessCut'
  BY <1>1 DEF Reserve, Ids
<1>2. ASSUME NEW o \in Operators, Verify(o) PROVE WholeUnlessCut'
  BY <1>2 DEF Verify
<1>3. ASSUME NEW o \in Operators, VerifyFails(o) PROVE WholeUnlessCut'
  BY <1>3 DEF VerifyFails
<1>4. ASSUME NEW o \in Operators, Register(o) PROVE WholeUnlessCut'
  BY <1>4 DEF Register
<1>5. ASSUME NEW o \in Operators, Cancel(o) PROVE WholeUnlessCut'
  BY <1>5 DEF Cancel
<1>6. ASSUME NEW o \in Operators, NEW id \in Ids, StopRun(o, id) PROVE WholeUnlessCut'
  BY <1>6 DEF StopRun
<1>7. ASSUME NEW o \in Operators, NEW id \in Ids, RemoveRun(o, id) PROVE WholeUnlessCut'
  BY <1>7 DEF RemoveRun
<1>8. ASSUME NEW id \in Ids, Walk(id) PROVE WholeUnlessCut'
  BY <1>8, WalkEffect
<1>9. ASSUME NEW id \in Ids, Collect(id) PROVE WholeUnlessCut'
  BY <1>9, CollectEffect
<1> QED
  BY <1>1, <1>2, <1>3, <1>4, <1>5, <1>6, <1>7, <1>8, <1>9
     DEF Next, Request, Walk

\* A complete report stays that of a whole walk.
LEMMA CompleteMeansWholeStep ==
  ASSUME IInv, Next, TypeOK'
  PROVE  CompleteMeansWhole'
<1> USE RecordTypes, BusyPlace DEF IInv, TypeOK, CompleteMeansWhole
<1>1. ASSUME NEW o \in Operators, Reserve(o) PROVE CompleteMeansWhole'
  BY <1>1 DEF Reserve, Ids
<1>2. ASSUME NEW o \in Operators, Verify(o) PROVE CompleteMeansWhole'
  BY <1>2 DEF Verify
<1>3. ASSUME NEW o \in Operators, VerifyFails(o) PROVE CompleteMeansWhole'
  BY <1>3 DEF VerifyFails, StartsApart, Starting, RunsHaveCollectors, held
<1>4. ASSUME NEW o \in Operators, Register(o) PROVE CompleteMeansWhole'
  BY <1>4 DEF Register
<1>5. ASSUME NEW o \in Operators, Cancel(o) PROVE CompleteMeansWhole'
  BY <1>5 DEF Cancel, CancelsAreAsked, RunsHaveCollectors, held
<1>6. ASSUME NEW o \in Operators, NEW id \in Ids, StopRun(o, id) PROVE CompleteMeansWhole'
  BY <1>6 DEF StopRun
<1>7. ASSUME NEW o \in Operators, NEW id \in Ids, RemoveRun(o, id) PROVE CompleteMeansWhole'
  BY <1>7 DEF RemoveRun
<1>8. ASSUME NEW id \in Ids, Walk(id) PROVE CompleteMeansWhole'
  <2>1. \A i \in Ids : runs[i].status = "complete" => walk[i].state = "done"
    BY DEF RunsHaveCollectors
  <2> QED
    BY <1>8, <2>1, WalkEffect
<1>9. ASSUME NEW id \in Ids, Collect(id) PROVE CompleteMeansWhole'
  BY <1>9, CollectEffect DEF WholeUnlessCut, CancelsAreAsked, RunsHaveCollectors, held
<1> QED
  BY <1>1, <1>2, <1>3, <1>4, <1>5, <1>6, <1>7, <1>8, <1>9
     DEF Next, Request, Walk

LEMMA InitIInv == Init => IInv
<1> SUFFICES ASSUME Init PROVE IInv
  OBVIOUS
<1>1. Starting = {} /\ held = {}
  BY RecordTypes DEF Init, Starting, held
<1> QED
  BY <1>1, InitTypeOK, RecordTypes
     DEF Init, IInv, StartsApart, FreshIds, RunsHaveCollectors, CancelsAreAsked,
         WholeUnlessCut, CompleteMeansWhole

\* IInv is inductive.
THEOREM Inductive == Spec => []IInv
<1>1. IInv /\ Next /\ TypeOK' => IInv'
  BY StartsApartStep, FreshIdsStep, RunsHaveCollectorsStep, CancelsAreAskedStep,
     WholeUnlessCutStep, CompleteMeansWholeStep DEF IInv
<1>2. IInv /\ UNCHANGED vars => IInv'
  BY DEF IInv, vars, TypeOK, StartsApart, Starting, FreshIds, RunsHaveCollectors,
         CancelsAreAsked, WholeUnlessCut, CompleteMeansWhole, held
<1>3. IInv /\ [Next]_vars /\ TypeOK' => IInv'
  BY <1>1, <1>2
<1> QED
  BY InitIInv, <1>3, TypeCorrect, PTL DEF Spec

\* No walk escapes: see NoLostWalk.
THEOREM NoWalkIsLost == Spec => []NoLostWalk
<1>1. IInv => NoLostWalk
  <2> SUFFICES ASSUME IInv, NEW id \in Ids, walk[id].state = "walking"
               PROVE  \/ id \in Running \cup cancelled
                      \/ \E o \in Operators :
                           at[o].id = id /\ at[o].pc \in {"register", "cancel"}
    BY DEF NoLostWalk
  <2> USE DEF IInv, RunsHaveCollectors
  <2>1. CASE collector[id] = "none"
    <3>1. PICK o \in Operators : at[o] = [pc |-> "register", id |-> id]
      BY <2>1
    <3> QED
      BY <3>1
  <2>2. CASE collector[id] # "none"
    <3>1. runs[id].status \notin {"complete", "error"}
      OBVIOUS
    <3>2. runs[id].status \in {"running", "stopped", "none"}
      BY <3>1 DEF TypeOK, Reports, Statuses
    <3>3. CASE runs[id].status = "running"
      BY <3>3 DEF Running
    <3>4. CASE runs[id].status \in {"stopped", "none"}
      <4>1. \/ id \in cancelled
            \/ \E o \in Operators : at[o] = [pc |-> "cancel", id |-> id]
        BY <2>2, <3>4 DEF CancelsAreAsked
      <4>2. \A o \in Operators : at[o] = [pc |-> "cancel", id |-> id]
              => at[o].id = id /\ at[o].pc = "cancel"
        OBVIOUS
      <4> QED
        BY <4>1, <4>2
    <3> QED
      BY <3>2, <3>3, <3>4
  <2> QED
    BY <2>1, <2>2
<1> QED
  BY Inductive, <1>1, PTL

\* A report of a complete run is the report of a whole walk: see
\* CompleteMeansWhole.
THEOREM CompleteRunsAreWhole == Spec => []CompleteMeansWhole
<1>1. IInv => CompleteMeansWhole
  BY DEF IInv
<1> QED
  BY Inductive, <1>1, PTL

\* A completed report never changes and a stopped one never turns complete,
\* while it is retained: see ReportsAreFinal.
THEOREM FinalReports == Spec => ReportsAreFinal
<1> DEFINE Final ==
      \A id \in Ids :
        id \in held' =>
          /\ runs[id].completedAt => runs'[id] = runs[id]
          /\ runs[id].status = "stopped" => runs'[id].status = "stopped"
<1> USE RecordTypes, BusyPlace DEF IInv, TypeOK, held
<1>1. ASSUME IInv, NEW o \in Operators, Request(o) PROVE Final
  <2>1. CASE Reserve(o)
    BY <2>1 DEF Reserve
  <2>2. CASE Verify(o)
    BY <2>2 DEF Verify
  <2>3. CASE VerifyFails(o)
    BY <2>3 DEF VerifyFails
  <2>4. CASE Register(o)
    <3>1. at[o].id \notin held
      BY <1>1, <2>4 DEF Register, StartsApart, Starting, RunsHaveCollectors
    <3> QED
      BY <2>4, <3>1 DEF Register
  <2>5. CASE Cancel(o)
    BY <2>5 DEF Cancel
  <2>6. ASSUME NEW id \in Ids, StopRun(o, id) PROVE Final
    <3>1. ~ runs[id].completedAt
      BY <1>1, <2>6 DEF StopRun, RunsHaveCollectors
    <3> QED
      BY <2>6, <3>1 DEF StopRun
  <2>7. ASSUME NEW id \in Ids, RemoveRun(o, id) PROVE Final
    BY <2>7 DEF RemoveRun
  <2> QED
    BY <1>1, <2>1, <2>2, <2>3, <2>4, <2>5, <2>6, <2>7 DEF Request
<1>2. ASSUME IInv, NEW id \in Ids, Walk(id) PROVE Final
  BY <1>2, WalkEffect
<1>3. ASSUME IInv, NEW id \in Ids, Collect(id) PROVE Final
  <2>1. ~ runs[id].completedAt
    BY <1>3, CollectEffect DEF RunsHaveCollectors
  <2> QED
    BY <1>3, <2>1, CollectEffect
<1>4. IInv /\ [Next]_vars => [Final]_vars
  BY <1>1, <1>2, <1>3 DEF Next
<1> QED
  BY Inductive, <1>4, PTL DEF Spec, ReportsAreFinal

\* Once an id was registered, it leaves the registry at most once: see
\* DeletedStaysDeleted.
THEOREM NoResurrection == Spec => DeletedStaysDeleted
<1> DEFINE Gone ==
      \A id \in Ids : collector[id] # "none" /\ id \notin held => id \notin held'
<1> USE RecordTypes, BusyPlace DEF IInv, TypeOK, held
<1>1. ASSUME IInv, NEW o \in Operators, Request(o) PROVE Gone
  <2>1. CASE Register(o)
    <3>1. collector[at[o].id] = "none"
      BY <1>1, <2>1 DEF Register, StartsApart, Starting
    <3> QED
      BY <2>1, <3>1 DEF Register
  <2>2. CASE Reserve(o) \/ Verify(o) \/ VerifyFails(o) \/ Cancel(o)
    BY <2>2 DEF Reserve, Verify, VerifyFails, Cancel
  <2>3. ASSUME NEW id \in Ids, StopRun(o, id) PROVE Gone
    BY <1>1, <2>3 DEF StopRun
  <2>4. ASSUME NEW id \in Ids, RemoveRun(o, id) PROVE Gone
    BY <2>4 DEF RemoveRun
  <2> QED
    BY <1>1, <2>1, <2>2, <2>3, <2>4 DEF Request
<1>2. ASSUME IInv, NEW id \in Ids, Walk(id) PROVE Gone
  BY <1>2, WalkEffect
<1>3. ASSUME IInv, NEW id \in Ids, Collect(id) PROVE Gone
  BY <1>3, CollectEffect
<1>4. IInv /\ [Next]_vars => [Gone]_vars
  BY <1>1, <1>2, <1>3 DEF Next
<1> QED
  BY Inductive, <1>4, PTL DEF Spec, DeletedStaysDeleted

-----------------------------------------------------------------------------
(* The limit.  Running grows only where Starting shrinks, and Starting grows *)
(* only below the limit.                                                     *)

LEMMA FiniteRunning ==
  /\ IsFiniteSet(Running) /\ active \in Nat
  /\ IsFiniteSet(Starting) /\ Cardinality(Starting) \in Nat
  /\ Cardinality(Starting) <= Cardinality(Operators)
  /\ Cardinality(Operators) \in Nat \ {0}
<1>1. IsFiniteSet(Ids)
  BY StartsAssumption, FS_Interval DEF Ids
<1>2. IsFiniteSet(Running)
  BY <1>1, FS_Subset DEF Running
<1>3. IsFiniteSet(Starting) /\ Cardinality(Starting) <= Cardinality(Operators)
  BY OperatorsAssumption, FS_Subset DEF Starting
<1>4. Cardinality(Operators) # 0
  BY OperatorsAssumption, FS_EmptySet
<1> QED
  BY <1>2, <1>3, <1>4, OperatorsAssumption, FS_CardinalityType DEF active

\* The request that takes the last slot is not yet inside start: the others
\* inside are fewer than the operators.
LEMMA ReserveBounded ==
  ASSUME IInv, NEW o \in Operators, Reserve(o)
  PROVE  OvershootBounded'
<1> USE DEF IInv, TypeOK
<1>1. Running' = Running
  BY DEF Reserve, Running
<1>2. Starting' \subseteq Operators
  BY DEF Starting
<1>3. Cardinality(Starting') <= Cardinality(Operators) /\ Cardinality(Starting') \in Nat
  BY <1>2, OperatorsAssumption, FS_Subset, FS_CardinalityType
<1>4. active <= MaxActive - 1
  BY FiniteRunning, MaxAssumption DEF Reserve
<1>5. active' = active
  BY <1>1 DEF active
<1> QED
  BY <1>3, <1>4, <1>5, FiniteRunning, MaxAssumption DEF OvershootBounded

\* Registering moves one request out of start and one run into Running.
LEMMA RegisterBounded ==
  ASSUME IInv, OvershootBounded, NEW o \in Operators, Register(o)
  PROVE  OvershootBounded'
<1> USE RecordTypes, BusyPlace DEF IInv, TypeOK
<1>1. at[o].id \in Ids \ Running
  BY DEF Register, Running, StartsApart, Starting, RunsHaveCollectors
<1>2. Running' = Running \cup {at[o].id}
  BY <1>1 DEF Register, Running
<1>3. active' = active + 1
  BY <1>1, <1>2, FiniteRunning, FS_AddElement DEF active
<1>4. o \in Starting /\ Starting' = Starting \ {o}
  BY DEF Register, Starting
<1>5. Cardinality(Starting') = Cardinality(Starting) - 1
  BY <1>4, FiniteRunning, FS_RemoveElement
<1> QED
  BY <1>3, <1>5, FiniteRunning, MaxAssumption DEF OvershootBounded

\* Everything else shrinks both sets, or leaves them.
LEMMA ShrinkBounded ==
  ASSUME OvershootBounded, Running' \subseteq Running, Starting' \subseteq Starting
  PROVE  OvershootBounded'
<1>1. active' <= active /\ active' \in Nat
  BY FiniteRunning, FS_Subset, FS_CardinalityType DEF active
<1>2. Cardinality(Starting') <= Cardinality(Starting) /\ Cardinality(Starting') \in Nat
  BY FiniteRunning, FS_Subset, FS_CardinalityType
<1> QED
  BY <1>1, <1>2, FiniteRunning, MaxAssumption DEF OvershootBounded

LEMMA OvershootStep ==
  ASSUME IInv, OvershootBounded, Next
  PROVE  OvershootBounded'
<1> USE RecordTypes, BusyPlace DEF IInv, TypeOK
<1>1. ASSUME NEW o \in Operators, Request(o) PROVE OvershootBounded'
  <2>1. CASE Verify(o)
    BY <2>1, ShrinkBounded DEF Verify, Running, Starting
  <2>2. CASE VerifyFails(o) \/ Cancel(o)
    BY <2>2, ShrinkBounded DEF VerifyFails, Cancel, Running, Starting
  <2>3. ASSUME NEW id \in Ids, StopRun(o, id) PROVE OvershootBounded'
    BY <2>3, ShrinkBounded DEF StopRun, Running, Starting
  <2>4. ASSUME NEW id \in Ids, RemoveRun(o, id) PROVE OvershootBounded'
    BY <2>4, ShrinkBounded DEF RemoveRun, Running, Starting
  <2> QED
    BY <1>1, <2>1, <2>2, <2>3, <2>4, ReserveBounded, RegisterBounded DEF Request
<1>2. ASSUME NEW id \in Ids, Walk(id) PROVE OvershootBounded'
  BY <1>2, WalkEffect, ShrinkBounded DEF Running, Starting
<1>3. ASSUME NEW id \in Ids, Collect(id) PROVE OvershootBounded'
  <2>1. Running' \subseteq Running
    BY <1>3, CollectEffect DEF Running
  <2>2. Starting' = Starting
    BY <1>3, CollectEffect DEF Starting
  <2> QED
    BY <2>1, <2>2, ShrinkBounded
<1> QED
  BY <1>1, <1>2, <1>3 DEF Next

\* The limit is overshot by less than the number of operators: see
\* OvershootBounded.
THEOREM LimitOvershoot == Spec => []OvershootBounded
<1>1. Init => OvershootBounded
  <2> SUFFICES ASSUME Init PROVE OvershootBounded
    OBVIOUS
  <2>1. Running = {} /\ Starting = {}
    BY RecordTypes DEF Init, Running, Starting
  <2> QED
    BY <2>1, FiniteRunning, FS_EmptySet, MaxAssumption DEF OvershootBounded, active
<1>2. IInv /\ OvershootBounded /\ [Next]_vars => OvershootBounded'
  <2>1. OvershootBounded /\ UNCHANGED vars => OvershootBounded'
    BY DEF OvershootBounded, vars, active, Running, Starting
  <2> QED
    BY <2>1, OvershootStep
<1> QED
  BY <1>1, <1>2, Inductive, PTL DEF Spec

\* With one request at a time the limit is exact.
COROLLARY SerialLimit ==
  Cardinality(Operators) = 1 => (Spec => [](active <= MaxActive))
<1> SUFFICES ASSUME Cardinality(Operators) = 1 PROVE Spec => [](active <= MaxActive)
  OBVIOUS
<1>1. OvershootBounded => active <= MaxActive
  BY FiniteRunning, MaxAssumption DEF OvershootBounded
<1> QED
  BY LimitOvershoot, <1>1, PTL

-----------------------------------------------------------------------------
(* order and runs. *)

\* What removeID leaves of a sequence that holds the id once.
LEMMA RemoveIDElements ==
  ASSUME NEW S, NEW s \in Seq(S), NEW k \in 1 .. Len(s),
         \A i, j \in 1 .. Len(s) : s[i] = s[j] => i = j
  PROVE  /\ Len(removeID(s, s[k])) = Len(s) - 1
         /\ \A i \in 1 .. Len(s) - 1 :
              removeID(s, s[k])[i] = IF i < k THEN s[i] ELSE s[i + 1]
<1> DEFINE a == SubSeq(s, 1, k - 1)
           b == SubSeq(s, k + 1, Len(s))
<1>1. removeID(s, s[k]) = a \o b
  <2>1. (CHOOSE j \in DOMAIN s : s[j] = s[k]) = k
    OBVIOUS
  <2>2. removeID(s, s[k]) = RemoveAt(s, CHOOSE j \in DOMAIN s : s[j] = s[k])
    BY DEF removeID
  <2>3. removeID(s, s[k]) = RemoveAt(s, k)
    BY <2>1, <2>2, Zenon
  <2> QED
    BY <2>3 DEF RemoveAt
<1>2. /\ a \in Seq(S) /\ Len(a) = k - 1
      /\ \A i \in 1 .. k - 1 : a[i] = s[i]
  BY SubSeqProperties
<1>3. /\ b \in Seq(S) /\ Len(b) = Len(s) - k
      /\ \A i \in 1 .. Len(s) - k : b[i] = s[k + i]
  BY SubSeqProperties
<1> HIDE DEF a, b
<1>4. Len(a \o b) = Len(s) - 1
  BY <1>2, <1>3, ConcatProperties
<1>5. ASSUME NEW i \in 1 .. Len(s) - 1
      PROVE  (a \o b)[i] = IF i < k THEN s[i] ELSE s[i + 1]
  <2>1. CASE i < k
    BY <2>1, <1>2, <1>3, ConcatProperties
  <2>2. CASE i >= k
    <3>1. (a \o b)[i] = b[i - (k - 1)]
      BY <2>2, <1>2, <1>3, ConcatProperties
    <3>2. b[i - (k - 1)] = s[k + (i - (k - 1))]
      BY <2>2, <1>3
    <3>3. k + (i - (k - 1)) = i + 1
      OBVIOUS
    <3>4. ~ (i < k)
      BY <2>2
    <3> QED
      BY <3>1, <3>2, <3>3, <3>4
  <2>3. i < k \/ i >= k
    OBVIOUS
  <2> QED
    BY <2>1, <2>2, <2>3
<1> QED
  BY <1>1, <1>4, <1>5

LEMMA RegisterOrder ==
  ASSUME IInv, OrderIsRetained, NEW o \in Operators, Register(o)
  PROVE  OrderIsRetained'
<1> USE RecordTypes, BusyPlace DEF IInv, TypeOK, OrderIsRetained
<1>1. at[o].id \in Ids \ held
  BY DEF Register, StartsApart, Starting, RunsHaveCollectors
<1>2. held' = held \cup {at[o].id}
  BY <1>1 DEF Register, held
<1>3. /\ Len(order') = Len(order) + 1
      /\ \A i \in 1 .. Len(order) : order'[i] = order[i]
      /\ order'[Len(order) + 1] = at[o].id
      /\ DOMAIN order' = 1 .. Len(order) + 1
      /\ DOMAIN order = 1 .. Len(order)
      /\ Len(order) \in Nat
  BY <1>1, AppendProperties DEF Register
<1>4. \A j \in DOMAIN order : order[j] # at[o].id
  BY <1>1
<1>5. {order'[k] : k \in DOMAIN order'} = held'
  <2>1. \A k \in DOMAIN order' : k \in DOMAIN order \/ k = Len(order) + 1
    BY <1>3
  <2>2. ASSUME NEW k \in DOMAIN order' PROVE order'[k] \in held'
    BY <2>1, <1>2, <1>3
  <2>3. ASSUME NEW i \in held' PROVE \E k \in DOMAIN order' : order'[k] = i
    <3>1. CASE i = at[o].id
      BY <3>1, <1>3
    <3>2. CASE i \in held
      <4>1. PICK k \in DOMAIN order : order[k] = i
        BY <3>2
      <4> QED
        BY <4>1, <1>3
    <3> QED
      BY <3>1, <3>2, <1>2
  <2> QED
    BY <2>2, <2>3
<1>6. \A j, k \in DOMAIN order' : order'[j] = order'[k] => j = k
  BY <1>3, <1>4
<1> QED
  BY <1>5, <1>6

LEMMA RemoveOrder ==
  ASSUME IInv, OrderIsRetained, NEW o \in Operators, NEW id \in Ids,
         RemoveRun(o, id)
  PROVE  OrderIsRetained'
<1> USE RecordTypes DEF IInv, TypeOK, OrderIsRetained
<1>1. id \in held /\ held' = held \ {id}
  BY DEF RemoveRun, held
<1>2. DOMAIN order = 1 .. Len(order) /\ Len(order) \in Nat
  OBVIOUS
<1>3. PICK k \in 1 .. Len(order) : order[k] = id
  BY <1>1, <1>2
<1>4. /\ Len(order') = Len(order) - 1
      /\ \A i \in 1 .. Len(order) - 1 :
           order'[i] = IF i < k THEN order[i] ELSE order[i + 1]
  <2>1. order' = removeID(order, order[k])
    BY <1>3 DEF RemoveRun
  <2>2. \A i, j \in 1 .. Len(order) : order[i] = order[j] => i = j
    BY <1>2
  <2> QED
    BY <2>1, <2>2, RemoveIDElements
<1>5. DOMAIN order' = 1 .. Len(order) - 1
  BY <1>4, RemoveIDType DEF RemoveRun
<1>6. ASSUME NEW j \in DOMAIN order'
      PROVE  order'[j] \in held'
  <2>1. PICK i \in DOMAIN order : order'[j] = order[i] /\ i # k
    <3>1. CASE j < k
      BY <3>1, <1>2, <1>4, <1>5
    <3>2. CASE ~ (j < k)
      <4>1. j + 1 \in DOMAIN order /\ j + 1 # k
        BY <3>2, <1>2, <1>5
      <4> QED
        BY <3>2, <4>1, <1>4, <1>5
    <3> QED
      BY <3>1, <3>2
  <2>2. order[i] # id
    BY <2>1, <1>2, <1>3
  <2> QED
    BY <2>1, <2>2, <1>1
<1>7. ASSUME NEW i \in held' PROVE \E j \in DOMAIN order' : order'[j] = i
  <2>1. PICK m \in DOMAIN order : order[m] = i
    BY <1>1
  <2>2. m # k
    BY <2>1, <1>1, <1>3
  <2>3. CASE m < k
    BY <2>1, <2>3, <1>2, <1>4, <1>5
  <2>4. CASE m > k
    <3>1. m - 1 \in DOMAIN order' /\ ~ (m - 1 < k) /\ (m - 1) + 1 = m
      BY <2>4, <1>2, <1>5
    <3>2. order'[m - 1] = order[m]
      BY <3>1, <1>4, <1>5
    <3> QED
      BY <2>1, <3>1, <3>2
  <2> QED
    BY <2>2, <2>3, <2>4, <1>2
<1>8. ASSUME NEW j \in DOMAIN order', NEW m \in DOMAIN order',
             order'[j] = order'[m]
      PROVE  j = m
  <2> DEFINE f(n) == IF n < k THEN n ELSE n + 1
  <2>1. f(j) \in DOMAIN order /\ f(m) \in DOMAIN order
    BY <1>2, <1>5
  <2>2. order[f(j)] = order[f(m)]
    BY <1>4, <1>5, <1>8
  <2>3. f(j) = f(m)
    <3> HIDE DEF f
    <3> QED
      BY <2>1, <2>2
  <2> QED
    BY <2>3, <1>2, <1>5
<1> QED
  BY <1>6, <1>7, <1>8

\* The listing is the registry: see OrderIsRetained.
THEOREM OrderCorrect == Spec => []OrderIsRetained
<1>1. Init => OrderIsRetained
  <2> SUFFICES ASSUME Init PROVE OrderIsRetained
    OBVIOUS
  <2>1. held = {} /\ DOMAIN order = {}
    BY RecordTypes DEF Init, held
  <2> QED
    BY <2>1 DEF OrderIsRetained
<1>2. ASSUME IInv, OrderIsRetained, Next PROVE OrderIsRetained'
  <2> USE RecordTypes DEF IInv, TypeOK, OrderIsRetained
  <2>1. ASSUME NEW o \in Operators, Request(o) PROVE OrderIsRetained'
    <3>1. CASE Reserve(o) \/ Verify(o) \/ VerifyFails(o) \/ Cancel(o)
      BY <1>2, <3>1 DEF Reserve, Verify, VerifyFails, Cancel, held
    <3>2. ASSUME NEW id \in Ids, StopRun(o, id) PROVE OrderIsRetained'
      <4>1. held' = held
        BY <1>2, <3>2 DEF StopRun, held, Reports
      <4> QED
        BY <1>2, <3>2, <4>1 DEF StopRun
    <3> QED
      BY <1>2, <2>1, <3>1, <3>2, RegisterOrder, RemoveOrder DEF Request
  <2>2. ASSUME NEW id \in Ids, Walk(id) PROVE OrderIsRetained'
    BY <1>2, <2>2, WalkEffect DEF held
  <2>3. ASSUME NEW id \in Ids, Collect(id) PROVE OrderIsRetained'
    <3>1. id \in held => runs'[id] # NoRun
      BY <1>2, <2>3, CollectEffect
    <3>2. held' = held
      BY <1>2, <2>3, <3>1, CollectEffect DEF held
    <3> QED
      BY <1>2, <2>3, <3>2, CollectEffect
  <2> QED
    BY <1>2, <2>1, <2>2, <2>3 DEF Next
<1>3. OrderIsRetained /\ UNCHANGED vars => OrderIsRetained'
  BY DEF OrderIsRetained, vars, held
<1> QED
  BY <1>1, <1>2, <1>3, Inductive, PTL DEF Spec

-----------------------------------------------------------------------------
(* The registry implements RunLifecycle. *)

phases == [id \in Ids |-> phaseOf(id)]
finals == [id \in Ids |-> runs[id].completedAt]

\* A step that touches one id's report and collector moves that run alone.
LEMMA OneRunMoves ==
  ASSUME NEW id \in Ids,
         \A i \in Ids \ {id} : runs'[i] = runs[i] /\ collector'[i] = collector[i]
  PROVE  /\ phases' = [phases EXCEPT ![id] = phaseOf(id)']
         /\ finals' = [finals EXCEPT ![id] = runs'[id].completedAt]
<1>1. \A i \in Ids \ {id} : phaseOf(i)' = phaseOf(i)
  BY DEF phaseOf, held
<1> QED
  BY <1>1 DEF phases, finals

LEMMA RequestImplements ==
  ASSUME IInv, NEW o \in Operators, Request(o)
  PROVE  Lifecycle!Next \/ UNCHANGED Lifecycle!lvars
<1> USE RecordTypes, BusyPlace DEF IInv, TypeOK
<1>1. CASE Reserve(o) \/ Verify(o) \/ VerifyFails(o) \/ Cancel(o)
  BY <1>1 DEF Reserve, Verify, VerifyFails, Cancel, Lifecycle!lvars, phaseOf, held
<1>2. CASE Register(o)
  <2>0. PICK id \in Ids : id = at[o].id
    BY <1>2 DEF Register
  <2>1. id \in Ids /\ collector[id] = "none" /\ id \notin held
    BY <1>2, <2>0 DEF Register, StartsApart, Starting, RunsHaveCollectors
  <2>2. runs'[id] = Started /\ collector'[id] = "waiting"
    BY <1>2, <2>0, <2>1 DEF Register
  <2>3. phaseOf(id) = "unborn" /\ phaseOf(id)' = "running"
    BY <2>1, <2>2 DEF phaseOf, held
  <2>4. runs[id].completedAt = FALSE /\ runs'[id].completedAt = FALSE
    BY <2>1, <2>2 DEF held
  <2>5. /\ phases' = [phases EXCEPT ![id] = "running"]
        /\ finals' = [finals EXCEPT ![id] = FALSE]
    <3>1. \A i \in Ids \ {id} : runs'[i] = runs[i] /\ collector'[i] = collector[i]
      BY <1>2, <2>0 DEF Register
    <3> QED
      BY <2>3, <2>4, <3>1, OneRunMoves
  <2>6. finals' = finals
    BY <2>1, <2>4, <2>5 DEF finals
  <2>7. Lifecycle!Start(id)
    BY <2>1, <2>3, <2>5, <2>6 DEF Lifecycle!Start, phases, finals
  <2> QED
    BY <2>1, <2>7 DEF Lifecycle!Next, Lifecycle!Step
<1>3. ASSUME NEW id \in Ids, StopRun(o, id)
      PROVE  Lifecycle!Next
  <2>1. /\ runs[id].status = "running" /\ runs'[id].status = "stopped"
        /\ runs'[id].completedAt = runs[id].completedAt
    BY <1>3 DEF StopRun, Reports
  <2>2. phaseOf(id) = "running" /\ phaseOf(id)' = "stopped"
    BY <2>1 DEF phaseOf, held
  <2>3. /\ phases' = [phases EXCEPT ![id] = "stopped"]
        /\ finals' = [finals EXCEPT ![id] = runs[id].completedAt]
    BY <1>3, <2>1, <2>2, OneRunMoves DEF StopRun
  <2>4. finals' = finals
    BY <2>3 DEF finals
  <2>5. Lifecycle!Stop(id)
    BY <2>2, <2>3, <2>4 DEF Lifecycle!Stop, phases, finals
  <2> QED
    BY <2>5 DEF Lifecycle!Next, Lifecycle!Step
<1>4. ASSUME NEW id \in Ids, RemoveRun(o, id)
      PROVE  Lifecycle!Next
  <2>1. runs'[id] = NoRun /\ id \in held /\ collector'[id] # "none"
    BY <1>4 DEF RemoveRun, RunsHaveCollectors
  <2>2. phaseOf(id) \in Statuses /\ phaseOf(id)' = "gone"
    BY <2>1 DEF phaseOf, held, RunsHaveCollectors, Reports
  <2>3. /\ phases' = [phases EXCEPT ![id] = "gone"]
        /\ finals' = [finals EXCEPT ![id] = FALSE]
    BY <1>4, <2>1, <2>2, OneRunMoves DEF RemoveRun
  <2>4. Lifecycle!Delete(id)
    BY <2>2, <2>3 DEF Lifecycle!Delete, Lifecycle!Retained, Statuses, phases, finals
  <2> QED
    BY <2>4 DEF Lifecycle!Next, Lifecycle!Step
<1> QED
  BY <1>1, <1>2, <1>3, <1>4 DEF Request

LEMMA CollectImplements ==
  ASSUME IInv, NEW id \in Ids, Collect(id)
  PROVE  Lifecycle!Next \/ UNCHANGED Lifecycle!lvars
<1> USE RecordTypes DEF IInv, TypeOK
<1>1. CASE id \notin held
  <2>1. runs' = runs
    BY <1>1 DEF Collect
  <2>2. \A i \in Ids : collector'[i] = "none" <=> collector[i] = "none"
    BY DEF Collect
  <2> QED
    BY <2>1, <2>2 DEF Lifecycle!lvars, phaseOf, held
<1>2. CASE id \in held
  <2>1. /\ runs'[id].completedAt = TRUE /\ runs[id].completedAt = FALSE
        /\ runs[id].status \in {"running", "stopped"}
        /\ runs[id].status = "running" => runs'[id].status \in {"complete", "error"}
        /\ runs[id].status = "stopped" => runs'[id].status = "stopped"
    <3>1. runs'[id].completedAt = TRUE
      <4>1. runs' = [runs EXCEPT ![id] = collected(runs[id], walk[id])]
        BY <1>2 DEF Collect
      <4>2. collected(runs[id], walk[id]).completedAt = TRUE
        BY DEF collected, absorb, Reports
      <4> QED
        BY <4>1, <4>2
    <3>2. runs[id].completedAt = FALSE
      BY CollectEffect DEF RunsHaveCollectors, Reports
    <3>3. runs[id].status \in {"running", "stopped"}
      BY <1>2, <3>2 DEF RunsHaveCollectors, Reports, Statuses
    <3>4. runs[id].status = "running" => runs'[id].status \in {"complete", "error"}
      BY <1>2, CollectEffect
    <3>5. runs[id].status = "stopped" => runs'[id].status = "stopped"
      BY <1>2, CollectEffect
    <3> QED
      BY <3>1, <3>2, <3>3, <3>4, <3>5
  <2>2. phaseOf(id) = runs[id].status /\ phaseOf(id)' = runs'[id].status
    BY <1>2, <2>1 DEF phaseOf, held
  <2>3. /\ phases' = [phases EXCEPT ![id] = runs'[id].status]
        /\ finals' = [finals EXCEPT ![id] = TRUE]
    BY <2>1, <2>2, CollectEffect, OneRunMoves
  <2>4. runs[id].status = "stopped" => phases' = phases
    <3> SUFFICES ASSUME runs[id].status = "stopped" PROVE phases' = phases
      OBVIOUS
    <3>1. phases' = [phases EXCEPT ![id] = "stopped"] /\ phases[id] = "stopped"
      BY <2>1, <2>2, <2>3 DEF phases
    <3> QED
      BY <3>1 DEF phases
  <2>5. Lifecycle!Settle(id)
    BY <2>1, <2>2, <2>3, <2>4 DEF Lifecycle!Settle, phases, finals
  <2> QED
    BY <2>5 DEF Lifecycle!Next, Lifecycle!Step
<1> QED
  BY <1>1, <1>2

\* The registry implements the life cycle of its runs: see
\* ImplementsLifecycle.
THEOREM RegistryImplementsLifecycle == Spec => ImplementsLifecycle
<1>1. Init => Lifecycle!Init
  BY RecordTypes DEF Init, Lifecycle!Init, phaseOf, held
<1>2. ASSUME IInv, NEW id \in Ids, Walk(id) PROVE UNCHANGED Lifecycle!lvars
  BY <1>2, WalkEffect DEF IInv, Lifecycle!lvars, phaseOf, held
<1>3. UNCHANGED vars => UNCHANGED Lifecycle!lvars
  BY DEF vars, Lifecycle!lvars, phaseOf, held
<1>4. IInv /\ [Next]_vars => [Lifecycle!Next]_(Lifecycle!lvars)
  BY <1>2, <1>3, RequestImplements, CollectImplements DEF Next
<1> QED
  BY <1>1, <1>4, Inductive, PTL DEF Spec, ImplementsLifecycle, Lifecycle!Spec

-----------------------------------------------------------------------------
(* What of the liveness is safety. *)

\* A run that was registered and is no longer running: it settled, was stopped or
\* was deleted.  What is left of it is its walk's end and its collector's.
Over(id) == collector[id] # "none" /\ id \notin Running

Left(id) ==
  {d \in {"walk", "collect"} :
     \/ d = "walk" /\ walk[id].state # "done"
     \/ d = "collect" /\ collector[id] # "returned"}

\* A cancel of id under way, and what can be done about what is left of it.
Cancelling(id) == \E o \in Operators : at[o] = [pc |-> "cancel", id |-> id]

Driven(id) ==
  \/ collector[id] = "waiting" /\ walk[id].state = "done"     \* Collect
  \/ walk[id].state = "walking" /\ id \in cancelled           \* WalkCancelled
  \/ Cancelling(id)                                           \* Cancel

\* A run that is over and leaves something behind is never stuck: its collector can
\* return, or its walk is cancelled, or a request is about to cancel it.
THEOREM OverRunsAreDriven ==
  Spec => [](\A id \in Ids : Over(id) /\ Left(id) # {} => Driven(id))
<1>1. IInv => \A id \in Ids : Over(id) /\ Left(id) # {} => Driven(id)
  <2> SUFFICES ASSUME IInv, NEW id \in Ids, Over(id), Left(id) # {}
               PROVE  Driven(id)
    OBVIOUS
  <2> USE DEF IInv
  <2>1. collector[id] \in {"waiting", "returned"} /\ walk[id].state \in {"walking", "done"}
    BY DEF Over, RunsHaveCollectors, TypeOK, Handles
  <2>2. CASE walk[id].state = "done"
    <3>1. collector[id] # "returned"
      BY <2>2 DEF Left
    <3> QED
      BY <2>1, <2>2, <3>1 DEF Driven
  <2>3. CASE walk[id].state = "walking"
    <3>1. runs[id].status \notin {"complete", "error"}
      BY <2>3 DEF RunsHaveCollectors
    <3>2. runs[id].status \in {"stopped", "none"}
      BY <3>1 DEF Over, Running, TypeOK, Reports, Statuses
    <3> QED
      BY <2>3, <3>2 DEF CancelsAreAsked, Driven, Over, Cancelling
  <2> QED
    BY <2>1, <2>2, <2>3
<1> QED
  BY Inductive, <1>1, PTL

\* What a step does to a run that is over: it stays over, and what is left of it, and
\* what drives it, is given up for less.  The steps of its walk and its collector
\* that fairness is asked of leave strictly less.
WindsDown(id) ==
  /\ Over(id)'
  /\ Left(id)' \subseteq Left(id)
  /\ id \in cancelled => id \in cancelled'
  /\ Cancelling(id) => Cancelling(id)' \/ id \in cancelled'
  /\ WalkCancelled(id) \/ Collect(id) => Left(id)' # Left(id)

LEMMA WindsDownFrom ==
  ASSUME NEW id \in Ids, Over(id), Over(id)',
         walk[id].state = "done" => walk'[id].state = "done",
         collector[id] = "returned" => collector'[id] = "returned",
         cancelled \subseteq cancelled',
         Cancelling(id) => Cancelling(id)' \/ id \in cancelled',
         WalkCancelled(id) \/ Collect(id) => Left(id)' # Left(id)
  PROVE  WindsDown(id)
  BY DEF WindsDown, Left

LEMMA QuietWindsDown ==
  ASSUME NEW id \in Ids, Over(id), UNCHANGED <<runs, walk, collector>>,
         cancelled \subseteq cancelled',
         Cancelling(id) => Cancelling(id)' \/ id \in cancelled',
         ~ WalkCancelled(id), ~ Collect(id)
  PROVE  WindsDown(id)
<1>1. Over(id)'
  BY DEF Over, Running
<1> QED
  BY <1>1, WindsDownFrom

\* One request leaves the cancels of the others under way.
LEMMA OthersCancel ==
  ASSUME NEW o \in Operators, NEW id \in Ids, TypeOK, at' = [at EXCEPT ![o] = at'[o]],
         at[o] # [pc |-> "cancel", id |-> id], Cancelling(id)
  PROVE  Cancelling(id)'
<1>1. PICK p \in Operators : at[p] = [pc |-> "cancel", id |-> id]
  BY DEF Cancelling
<1>2. at'[p] = at[p]
  BY <1>1 DEF TypeOK
<1> QED
  BY <1>1, <1>2 DEF Cancelling

LEMMA RequestWindsDown ==
  ASSUME IInv, NEW o \in Operators, Request(o), NEW id \in Ids, Over(id)
  PROVE  WindsDown(id)
<1> USE DEF IInv
<1>0. /\ TypeOK /\ walk \in [Ids -> Handles] /\ runs \in [Ids -> Reports]
      /\ collector \in [Ids -> {"none", "waiting", "returned"}] /\ at \in [Operators -> Places]
  BY DEF TypeOK
<1>1. ~ WalkCancelled(id) /\ ~ Collect(id)
  <2>1. at'[o].pc # at[o].pc
    <3>1. Idle.pc = "idle"
      BY DEF Idle
    <3>2. CASE Reserve(o)
      <4>1. at[o] = Idle /\ at'[o] = [pc |-> "verify", id |-> nextID + 1]
        BY <1>0, <3>2 DEF Reserve
      <4> QED
        BY <3>1, <4>1
    <3>5. CASE Verify(o)
      <4>1. at[o] \in [pc : {"verify", "register", "cancel"}, id : Ids]
        BY <1>0, <3>5, BusyPlace DEF Verify
      <4>2. at[o].pc = "verify" /\ at'[o] = [at[o] EXCEPT !.pc = "register"]
        BY <1>0, <3>5 DEF Verify
      <4> QED
        BY <4>1, <4>2
    <3>3. CASE VerifyFails(o) \/ Register(o) \/ Cancel(o)
      BY <1>0, <3>1, <3>3 DEF VerifyFails, Register, Cancel
    <3>4. ASSUME NEW i \in Ids, StopRun(o, i) \/ RemoveRun(o, i) PROVE at'[o].pc # at[o].pc
      <4>1. at[o] = Idle /\ at'[o] = [pc |-> "cancel", id |-> i]
        BY <1>0, <3>4 DEF StopRun, RemoveRun
      <4> QED
        BY <3>1, <4>1
    <3> QED
      BY <3>2, <3>3, <3>4, <3>5 DEF Request
  <2> QED
    BY <2>1 DEF WalkCancelled, Collect
<1>2. CASE Reserve(o)
  <2>1. at[o].pc = "idle" /\ at' = [at EXCEPT ![o] = at'[o]]
    BY <1>0, <1>2 DEF Reserve, Idle
  <2>2. Cancelling(id) => Cancelling(id)'
    BY <1>0, <2>1, OthersCancel
  <2> QED
    BY <1>1, <1>2, <2>2, QuietWindsDown DEF Reserve
<1>3. CASE Verify(o)
  <2>1. at[o].pc = "verify" /\ at' = [at EXCEPT ![o] = at'[o]]
    BY <1>0, <1>3 DEF Verify
  <2>2. Cancelling(id) => Cancelling(id)'
    BY <1>0, <2>1, OthersCancel
  <2>3. collector[at[o].id] = "none" /\ at[o].id # id
    BY <2>1 DEF StartsApart, Starting, Over
  <2>4. walk'[id] = walk[id] /\ UNCHANGED <<runs, collector, cancelled>>
    BY <1>0, <1>3, <2>3 DEF Verify
  <2>5. Over(id)'
    BY <2>4 DEF Over, Running
  <2> QED
    BY <1>1, <2>2, <2>4, <2>5, WindsDownFrom
<1>4. CASE VerifyFails(o)
  <2>1. at[o].pc = "verify" /\ at' = [at EXCEPT ![o] = at'[o]]
    BY <1>0, <1>4 DEF VerifyFails
  <2>2. Cancelling(id) => Cancelling(id)'
    BY <1>0, <2>1, OthersCancel
  <2> QED
    BY <1>1, <1>4, <2>2, QuietWindsDown DEF VerifyFails
<1>5. CASE Register(o)
  <2>1. at[o].pc = "register" /\ at' = [at EXCEPT ![o] = at'[o]]
    BY <1>0, <1>5 DEF Register
  <2>2. Cancelling(id) => Cancelling(id)'
    BY <1>0, <2>1, OthersCancel
  <2>3. collector[at[o].id] = "none" /\ at[o].id # id
    BY <2>1 DEF StartsApart, Starting, Over
  <2>4. /\ runs'[id] = runs[id] /\ collector'[id] = collector[id]
        /\ UNCHANGED <<walk, cancelled>>
    BY <1>0, <1>5, <2>3 DEF Register
  <2>5. Over(id)'
    BY <2>4 DEF Over, Running
  <2> QED
    BY <1>1, <2>2, <2>4, <2>5, WindsDownFrom
<1>6. CASE Cancel(o)
  <2>1. CASE at[o].id = id
    BY <1>1, <1>6, <2>1, QuietWindsDown DEF Cancel
  <2>2. CASE at[o].id # id
    <3>1. at[o] # [pc |-> "cancel", id |-> id] /\ at' = [at EXCEPT ![o] = at'[o]]
      BY <1>0, <1>6, <2>2 DEF Cancel
    <3>2. Cancelling(id) => Cancelling(id)'
      BY <1>0, <3>1, OthersCancel
    <3> QED
      BY <1>1, <1>6, <3>2, QuietWindsDown DEF Cancel
  <2> QED
    BY <2>1, <2>2
<1>7. ASSUME NEW i \in Ids, StopRun(o, i) \/ RemoveRun(o, i) PROVE WindsDown(id)
  <2>1. at[o].pc = "idle" /\ at' = [at EXCEPT ![o] = at'[o]]
    BY <1>0, <1>7 DEF StopRun, RemoveRun, Idle
  <2>2. Cancelling(id) => Cancelling(id)'
    BY <1>0, <2>1, OthersCancel
  <2>3. runs'[id].status \in {runs[id].status, "stopped", "none"}
    BY <1>0, <1>7, RecordTypes DEF StopRun, RemoveRun, Reports
  <2>4. UNCHANGED <<walk, collector, cancelled>>
    BY <1>7 DEF StopRun, RemoveRun
  <2>5. Over(id)'
    BY <2>3, <2>4 DEF Over, Running
  <2> QED
    BY <1>1, <2>2, <2>4, <2>5, WindsDownFrom
<1> QED
  BY <1>2, <1>3, <1>4, <1>5, <1>6, <1>7 DEF Request

LEMMA WalkWindsDown ==
  ASSUME IInv, NEW i \in Ids, Walk(i), NEW id \in Ids, Over(id)
  PROVE  WindsDown(id)
<1> USE DEF IInv
<1>1. /\ walk[i].state = "walking" /\ \A j \in Ids \ {i} : walk'[j] = walk[j]
      /\ UNCHANGED <<runs, collector, at, cancelled>>
  BY WalkEffect
<1>2. Over(id)' /\ (Cancelling(id) => Cancelling(id)')
  BY <1>1 DEF Over, Running, Cancelling
<1>3. walk[id].state = "done" => walk'[id].state = "done"
  BY <1>1
<1>4. ~ Collect(id)
  <2>1. Collect(id) => collector[id] = "waiting" /\ collector'[id] = "returned"
    BY DEF Collect, TypeOK
  <2> QED
    BY <1>1, <2>1
<1>5. WalkCancelled(id) => Left(id)' # Left(id)
  <2>1. WalkCancelled(id) => walk[id].state # "done" /\ walk'[id].state = "done"
    BY DEF WalkCancelled, TypeOK, Handles
  <2> QED
    BY <2>1 DEF Left
<1> QED
  BY <1>1, <1>2, <1>3, <1>4, <1>5, WindsDownFrom

LEMMA CollectWindsDown ==
  ASSUME IInv, NEW i \in Ids, Collect(i), NEW id \in Ids, Over(id)
  PROVE  WindsDown(id)
<1> USE DEF IInv
<1>1. /\ walk[i].state = "done" /\ collector[i] = "waiting"
      /\ collector' = [collector EXCEPT ![i] = "returned"]
      /\ \A j \in Ids \ {i} : runs'[j] = runs[j]
      /\ UNCHANGED <<walk, cancelled, at>>
  BY CollectEffect
<1>2. collector[id] \in {"none", "waiting", "returned"} /\ collector'[i] = "returned"
      /\ \A j \in Ids \ {i} : collector'[j] = collector[j]
  BY <1>1 DEF TypeOK
<1>3. runs'[id].status # "running"
  <2>1. CASE id \in held
    BY <1>1, <2>1, CollectEffect DEF Over, Running, held
  <2>2. CASE id \notin held
    BY <1>1, <2>2, CollectEffect, RecordTypes DEF Over, Running, held
  <2> QED
    BY <2>1, <2>2
<1>4. Over(id)' /\ (Cancelling(id) => Cancelling(id)')
  BY <1>1, <1>2, <1>3 DEF Over, Running, Cancelling
<1>5. ~ WalkCancelled(id)
  BY <1>1, <1>2 DEF WalkCancelled
<1>6. Collect(id) => Left(id)' # Left(id)
  <2>1. Collect(id) => collector[id] # "returned" /\ collector'[id] = "returned"
    BY DEF Collect, TypeOK
  <2> QED
    BY <2>1 DEF Left
<1> QED
  BY <1>1, <1>2, <1>4, <1>5, <1>6, WindsDownFrom

\* A run that is over winds down: no request, no other run's walk and no other collector
\* brings any of it back or calls its cancellation off.  With OverRunsAreDriven it is
\* three steps at most, each one the code owes, from leaving nothing behind.
THEOREM OverRunsWindDown == Spec => [][\A id \in Ids : Over(id) => WindsDown(id)]_vars
<1> DEFINE Down == \A id \in Ids : Over(id) => WindsDown(id)
<1>1. IInv /\ Next => Down
  BY RequestWindsDown, WalkWindsDown, CollectWindsDown DEF Next
<1> HIDE DEF Down
<1>2. IInv /\ [Next]_vars => [Down]_vars
  BY <1>1
<1>3. Spec => [][Down]_vars
  BY Inductive, <1>2, PTL DEF Spec
<1> QED
  BY <1>3 DEF Down

=============================================================================
