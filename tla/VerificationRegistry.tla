------------------------ MODULE VerificationRegistry ------------------------
(***************************************************************************)
(* The verification-run registry of internal/core/verification.go: the     *)
(* identity, history and lifecycle given to ranke-go's live walk handles.  *)
(*                                                                         *)
(* Operators (HTTP requests, each on its own goroutine) start, stop and    *)
(* delete runs; one goroutine per run waits for its walk and folds the     *)
(* outcome into the retained report.  The mutex r.mu is NOT held across a  *)
(* whole request: start releases it between reserving an id and            *)
(* registering the run, stop and remove release it before they cancel.     *)
(* Every stretch of code between two lock operations is one action, so     *)
(* TLC interleaves exactly what the Go scheduler may interleave.           *)
(*                                                                         *)
(* get and list only read, under the lock: they are state functions here.  *)
(***************************************************************************)
EXTENDS Integers, FiniteSets, Sequences, SequencesExt

CONSTANTS
  Operators,   \* goroutines serving requests to the run API
  MaxActive,         \* registry.max, after newRegistry's normalisation
  MaxStarts,   \* bound on nextID: how many ids one model run hands out
  Claims       \* claims in the closure one walk checks

ASSUME OperatorsAssumption == IsFiniteSet(Operators) /\ Operators # {}
ASSUME MaxAssumption       == MaxActive \in Nat \ {0}
ASSUME StartsAssumption    == MaxStarts \in Nat
ASSUME ClaimsAssumption    == Claims \in Nat

VARIABLES
  nextID,      \* registry.nextID
  runs,        \* registry.runs: the retained report of every id, or NoRun
  order,       \* registry.order
  walk,        \* what the library's handle of each id knows
  cancelled,   \* the ids whose runCtx was cancelled
  collector,   \* the goroutine `go r.collect(id, handle)` of each id
  at           \* where each operator's request stands, and on which id

vars == <<nextID, runs, order, walk, cancelled, collector, at>>

Ids == 1 .. MaxStarts

Statuses == {"running", "complete", "error", "stopped"}

\* The report fields the lifecycle is about; CompletedAt only as set or zero.
Reports ==
  [status : Statuses \cup {"none"}, checked : 0 .. Claims, failures : BOOLEAN,
   completedAt : BOOLEAN]

NoRun == [status |-> "none", checked |-> 0, failures |-> FALSE,
          completedAt |-> FALSE]

\* A fresh report, as start builds it: counters and CompletedAt zero.
Started == [NoRun EXCEPT !.status = "running"]

\* A handle: Verified(), whether Failures() is non-empty, Done, Err().
Handles ==
  [state : {"none", "walking", "done"}, verified : 0 .. Claims,
   failures : BOOLEAN, err : BOOLEAN]

NoWalk == [state |-> "none", verified |-> 0, failures |-> FALSE, err |-> FALSE]

Idle == [pc |-> "idle", id |-> 0]

Places == {Idle} \cup [pc : {"verify", "register", "cancel"}, id : Ids]

held == {id \in Ids : runs[id] # NoRun}

Running == {id \in Ids : runs[id].status = "running"}

\* active counts the runs still walking, as far as their reports say.
active == Cardinality(Running)

\* get returns one run's report (NoRun: not found).
get(id) == runs[id]

\* list returns every retained run, newest first.
list == SelectSeq(Reverse(order), LAMBDA id : id \in held)

\* removeID drops one id from the order slice, preserving the rest.  An id is
\* there at most once (OrderIsRetained), so filtering it out drops one place.
removeID(ids, id) ==
  IF \E k \in DOMAIN ids : ids[k] = id
  THEN RemoveAt(ids, CHOOSE k \in DOMAIN ids : ids[k] = id)
  ELSE ids

Init ==
  /\ nextID = 0
  /\ runs = [id \in Ids |-> NoRun]
  /\ order = << >>
  /\ walk = [id \in Ids |-> NoWalk]
  /\ cancelled = {}
  /\ collector = [id \in Ids |-> "none"]
  /\ at = [o \in Operators |-> Idle]

-----------------------------------------------------------------------------
(* start *)

\* start, first critical section: below the limit, take the next id.  At the
\* limit it answers ErrBusy and changes nothing.
Reserve(o) ==
  /\ at[o] = Idle
  /\ nextID < MaxStarts                               \* model bound
  /\ active < MaxActive
  /\ nextID' = nextID + 1
  /\ at' = [at EXCEPT ![o] = [pc |-> "verify", id |-> nextID + 1]]
  /\ UNCHANGED <<runs, order, walk, cancelled, collector>>

\* start, unlocked: archive.Verify launches the walk.
Verify(o) ==
  /\ at[o].pc = "verify"
  /\ walk' = [walk EXCEPT ![at[o].id].state = "walking"]
  /\ at' = [at EXCEPT ![o].pc = "register"]
  /\ UNCHANGED <<nextID, runs, order, cancelled, collector>>

\* start, unlocked: archive.Verify fails, the context is cancelled and the
\* request answers the mapped library error.  The id is spent.
VerifyFails(o) ==
  /\ at[o].pc = "verify"
  /\ cancelled' = cancelled \cup {at[o].id}
  /\ at' = [at EXCEPT ![o] = Idle]
  /\ UNCHANGED <<nextID, runs, order, walk, collector>>

\* Mutant of Register: the collector never started.
RegisterUncollected(o) ==
  /\ at[o].pc = "register"
  /\ runs' = [runs EXCEPT ![at[o].id] = Started]
  /\ order' = Append(order, at[o].id)
  /\ at' = [at EXCEPT ![o] = Idle]
  /\ UNCHANGED <<nextID, walk, cancelled, collector>>

\* start, second critical section: the run becomes visible and its collector
\* is started.
Register(o) ==
  /\ at[o].pc = "register"
  /\ runs' = [runs EXCEPT ![at[o].id] = Started]
  /\ order' = Append(order, at[o].id)
  /\ collector' = [collector EXCEPT ![at[o].id] = "waiting"]
  /\ at' = [at EXCEPT ![o] = Idle]
  /\ UNCHANGED <<nextID, walk, cancelled>>

-----------------------------------------------------------------------------
(* stop and remove.  Both leave the lock before they call cancel. *)

\* Mutants of StopRun: the walk cancelled without the report being marked first,
\* and the early return for a finished run dropped.
StopUnmarked(o, id) ==
  /\ at[o] = Idle
  /\ runs[id].status = "running"
  /\ at' = [at EXCEPT ![o] = [pc |-> "cancel", id |-> id]]
  /\ UNCHANGED <<nextID, runs, order, walk, cancelled, collector>>

StopAnyRun(o, id) ==
  /\ at[o] = Idle
  /\ id \in held
  /\ runs' = [runs EXCEPT ![id].status = "stopped"]
  /\ at' = [at EXCEPT ![o] = [pc |-> "cancel", id |-> id]]
  /\ UNCHANGED <<nextID, order, walk, cancelled, collector>>

\* stop on a running run: mark it.  A finished run comes back unchanged, an
\* unknown one is ErrNotFound: neither is a step.
StopRun(o, id) ==
  /\ at[o] = Idle
  /\ runs[id].status = "running"
  /\ runs' = [runs EXCEPT ![id].status = "stopped"]
  /\ at' = [at EXCEPT ![o] = [pc |-> "cancel", id |-> id]]
  /\ UNCHANGED <<nextID, order, walk, cancelled, collector>>

\* Mutants of RemoveRun: the id left in order, and the walk left running.
RemoveFromMapOnly(o, id) ==
  /\ at[o] = Idle
  /\ id \in held
  /\ runs' = [runs EXCEPT ![id] = NoRun]
  /\ at' = [at EXCEPT ![o] = [pc |-> "cancel", id |-> id]]
  /\ UNCHANGED <<nextID, order, walk, cancelled, collector>>

RemoveWithoutCancel(o, id) ==
  /\ at[o] = Idle
  /\ id \in held
  /\ runs' = [runs EXCEPT ![id] = NoRun]
  /\ order' = removeID(order, id)
  /\ UNCHANGED <<nextID, walk, cancelled, collector, at>>

\* remove drops the record, whatever its status.
RemoveRun(o, id) ==
  /\ at[o] = Idle
  /\ id \in held
  /\ runs' = [runs EXCEPT ![id] = NoRun]
  /\ order' = removeID(order, id)
  /\ at' = [at EXCEPT ![o] = [pc |-> "cancel", id |-> id]]
  /\ UNCHANGED <<nextID, walk, cancelled, collector>>

\* cancel(), after the lock was released.  stop then answers get(id).
Cancel(o) ==
  /\ at[o].pc = "cancel"
  /\ cancelled' = cancelled \cup {at[o].id}
  /\ at' = [at EXCEPT ![o] = Idle]
  /\ UNCHANGED <<nextID, runs, order, walk, collector>>

-----------------------------------------------------------------------------
(* The library's walk, as collect and absorb use the handle. *)

\* One more claim is verified, or found bad.
WalkClaim(id) ==
  /\ walk[id].state = "walking"
  /\ walk[id].verified < Claims
  /\ \E bad \in BOOLEAN :
       walk' = [walk EXCEPT ![id].verified = @ + 1,
                            ![id].failures = @ \/ bad]
  /\ UNCHANGED <<nextID, runs, order, cancelled, collector, at>>

\* The walk has seen the whole closure.
WalkEnds(id) ==
  /\ walk[id].state = "walking"
  /\ walk[id].verified = Claims
  /\ walk' = [walk EXCEPT ![id].state = "done"]
  /\ UNCHANGED <<nextID, runs, order, cancelled, collector, at>>

\* The walk gives up: a storage fault, with Err set ...
WalkFaults(id) ==
  /\ walk[id].state = "walking"
  /\ walk' = [walk EXCEPT ![id].state = "done", ![id].err = TRUE]
  /\ UNCHANGED <<nextID, runs, order, cancelled, collector, at>>

\* ... or its context was cancelled.  Whether Err reports that is the
\* library's business, so both outcomes are possible.
WalkCancelled(id) ==
  /\ walk[id].state = "walking"
  /\ id \in cancelled
  /\ \E e \in BOOLEAN :
       walk' = [walk EXCEPT ![id].state = "done", ![id].err = e]
  /\ UNCHANGED <<nextID, runs, order, cancelled, collector, at>>

-----------------------------------------------------------------------------
(* collect *)

\* absorb copies the handle's counters and findings onto the report.
absorb(report, handle) ==
  [report EXCEPT !.checked = handle.verified, !.failures = handle.failures]

\* What collect makes of a report once Wait has returned: a run already marked
\* stopped stays stopped, a running one finished cleanly or with an error.
collected(report, handle) ==
  [absorb(report, handle) EXCEPT
     !.completedAt = TRUE,
     !.status = IF @ # "running" THEN @
                ELSE IF handle.err THEN "error" ELSE "complete"]

\* Mutants of Collect: the check that the run is still held dropped, and a
\* stopped run returned early without its findings.
CollectUnchecked(id) ==
  /\ collector[id] = "waiting"
  /\ walk[id].state = "done"
  /\ collector' = [collector EXCEPT ![id] = "returned"]
  /\ runs' = [runs EXCEPT ![id] = collected(@, walk[id])]
  /\ UNCHANGED <<nextID, order, walk, cancelled, at>>

CollectSkipsStopped(id) ==
  /\ collector[id] = "waiting"
  /\ walk[id].state = "done"
  /\ collector' = [collector EXCEPT ![id] = "returned"]
  /\ runs' = IF id \in Running
             THEN [runs EXCEPT ![id] = collected(@, walk[id])]
             ELSE runs
  /\ UNCHANGED <<nextID, order, walk, cancelled, at>>

\* collect, once Wait has returned: the whole critical section.
Collect(id) ==
  /\ collector[id] = "waiting"
  /\ walk[id].state = "done"
  /\ collector' = [collector EXCEPT ![id] = "returned"]
  /\ runs' = IF id \in held
             THEN [runs EXCEPT ![id] = collected(@, walk[id])]
             ELSE runs                  \* deleted while running
  /\ UNCHANGED <<nextID, order, walk, cancelled, at>>

-----------------------------------------------------------------------------
Request(o) ==
  \/ Reserve(o) \/ Verify(o) \/ VerifyFails(o) \/ Register(o) \/ Cancel(o)
  \/ \E id \in Ids : StopRun(o, id) \/ RemoveRun(o, id)

Walk(id) == WalkClaim(id) \/ WalkEnds(id) \/ WalkFaults(id) \/ WalkCancelled(id)

Next ==
  \/ \E o \in Operators : Request(o)
  \/ \E id \in Ids : Walk(id) \/ Collect(id)

Spec == Init /\ [][Next]_vars

\* A request under way runs to its end, a collector returns from Wait and the
\* library honours a cancelled context: nothing in these waits for another
\* request.  No fairness is asked of Reserve, StopRun and RemoveRun: nobody has
\* to send them.  Nor of a walk: the closure may be as large as it likes, or
\* its storage hang.
FairSpec ==
  /\ Spec
  /\ \A o \in Operators : WF_vars(Verify(o) \/ Register(o) \/ Cancel(o))
  /\ \A id \in Ids : WF_vars(WalkCancelled(id)) /\ WF_vars(Collect(id))

-----------------------------------------------------------------------------
(* Properties *)

\* Types of the state: core's registry struct (verification.go:33-47).
TypeOK ==
  /\ nextID \in 0 .. MaxStarts
  /\ runs \in [Ids -> Reports]
  /\ order \in Seq(Ids)
  /\ walk \in [Ids -> Handles]
  /\ cancelled \in SUBSET Ids
  /\ collector \in [Ids -> {"none", "waiting", "returned"}]
  /\ at \in [Operators -> Places]

\* What a client lists is what the server retains: order (a slice) and runs (a
\* map) are updated apart in start and remove, and name the same runs, each
\* once, after any interleaving.
OrderIsRetained ==
  /\ {order[k] : k \in DOMAIN order} = held
  /\ \A j, k \in DOMAIN order : order[j] = order[k] => j = k

\* The requests inside start, between the two critical sections.
Starting == {o \in Operators : at[o].pc \in {"verify", "register"}}

\* No walk is ever out of an operator's reach for good: while a walk goes on,
\* either its run is registered as running (stop can cancel it), or its start
\* has yet to register it, or its cancellation was issued or is about to be.
NoLostWalk ==
  \A id \in Ids :
    walk[id].state = "walking" =>
      \/ id \in Running \cup cancelled
      \/ \E o \in Operators : at[o].id = id /\ at[o].pc \in {"register", "cancel"}

\* A run reported complete really checked the whole closure, was never
\* cancelled, and its counters are the walk's own: stop marks the report before
\* it cancels, so a walk cut short is never folded in as complete.
CompleteMeansWhole ==
  \A id \in Ids :
    runs[id].status = "complete" =>
      /\ id \notin cancelled
      /\ ~ walk[id].err
      /\ walk[id].verified = Claims
      /\ runs[id].checked = Claims
      /\ runs[id].failures = walk[id].failures

\* What WithMaxVerificationRuns says of its bound (core.go): it is on the runs that walk
\* at once, and a start beyond it is refused.
WalksAreBounded ==
  Cardinality({id \in Ids : walk[id].state = "walking"}) <= MaxActive

\* What start does keep to, which checks the limit and registers the run in two critical
\* sections, so that every request may pass the check before any of them registers:
\* the reports that say running, and the starts under way, exceed the limit by less
\* than the number of requests.
OvershootBounded ==
  active + Cardinality(Starting) <= MaxActive + Cardinality(Operators) - 1

\* A report is a point-in-time record: once CompletedAt is set no later call
\* changes it, and a run marked stopped never turns complete or failed; only
\* delete takes a report away.
ReportsAreFinal ==
  [][\A id \in Ids :
       id \in held' =>
         /\ runs[id].completedAt => runs'[id] = runs[id]
         /\ runs[id].status = "stopped" => runs'[id].status = "stopped"]_vars

\* An id names one run for the life of the server: a deleted run never comes
\* back, whatever start, stop or collect still had in flight for its id.
DeletedStaysDeleted ==
  [][\A id \in Ids :
       collector[id] # "none" /\ id \notin held => id \notin held']_vars

\* If no walk hangs, every registered run leaves "running": it
\* finishes, fails, is stopped or is deleted, so a full registry does not
\* refuse starts for ever.
WalksEnd ==
  \A id \in Ids : walk[id].state = "walking" ~> walk[id].state = "done"

RunsSettle ==
  WalksEnd => \A id \in Ids : id \in Running ~> id \notin Running

\* A stopped run keeps its partial findings: the cancelled walk ends and its
\* counters and findings reach the retained report, unless it is deleted, and
\* whether or not the walk would have ended by itself.
StoppedRunsReport ==
  \A id \in Ids :
    runs[id].status = "stopped" ~> (runs[id].completedAt \/ id \notin held)

\* Deleting or stopping a run ends its walk, even though the registry may have
\* forgotten the run by then and even if the walk would never end by itself.
NoOrphanWalks ==
  \A id \in Ids :
    (collector[id] # "none" /\ id \notin Running) ~> walk[id].state = "done"

(* The inductive invariant behind the safety properties. *)

\* An id inside start was handed out to that request alone, and nothing else
\* knows it yet; its walk runs once archive.Verify has returned.
StartsApart ==
  /\ \A o \in Starting :
       /\ at[o].id \in 1 .. nextID
       /\ collector[at[o].id] = "none"
       /\ at[o].id \notin cancelled
       /\ at[o].pc = "verify" <=> walk[at[o].id].state = "none"
  /\ \A o, p \in Starting : at[o].id = at[p].id => o = p

\* An id not handed out yet has left no trace.
FreshIds ==
  \A id \in Ids :
    id > nextID =>
      /\ collector[id] = "none"
      /\ walk[id].state = "none"
      /\ id \notin cancelled

\* A record, a walk and a collector come into being and pass away in order.
RunsHaveCollectors ==
  \A id \in Ids :
    /\ id \in held => collector[id] # "none" /\ runs[id].status # "none"
    /\ collector[id] # "none" => walk[id].state # "none"
    /\ collector[id] = "returned" => walk[id].state = "done"
    /\ runs[id].completedAt => collector[id] = "returned"
    /\ runs[id].status \in {"complete", "error"} => runs[id].completedAt
    /\ runs[id].status = "running" => collector[id] = "waiting"
    /\ walk[id].state # "none" /\ collector[id] = "none"
         => \E o \in Operators : at[o] = [pc |-> "register", id |-> id]

\* Cancelling follows, and is followed by, a report that says stopped or gone.
CancelsAreAsked ==
  /\ \A o \in Operators :
       at[o].pc = "cancel" =>
         /\ at[o].id \in Ids
         /\ collector[at[o].id] # "none"
         /\ runs[at[o].id].status \in {"stopped", "none"}
  /\ \A id \in cancelled :
       collector[id] # "none" => runs[id].status \in {"stopped", "none"}
  /\ \A id \in Ids :
       collector[id] # "none" /\ runs[id].status \in {"stopped", "none"} =>
         \/ id \in cancelled
         \/ \E o \in Operators : at[o] = [pc |-> "cancel", id |-> id]

\* A walk that ended without an error and was not cancelled saw every claim.
WholeUnlessCut ==
  \A id \in Ids :
    walk[id].state = "done" /\ ~ walk[id].err /\ id \notin cancelled
      => walk[id].verified = Claims

IInv ==
  /\ TypeOK /\ StartsApart /\ FreshIds /\ RunsHaveCollectors
  /\ CancelsAreAsked /\ WholeUnlessCut /\ CompleteMeansWhole

\* What a poll can tell of a run.
phaseOf(id) ==
  IF id \in held THEN runs[id].status
  ELSE IF collector[id] = "none" THEN "unborn" ELSE "gone"

Lifecycle ==
  INSTANCE RunLifecycle
    WITH phase <- [id \in Ids |-> phaseOf(id)],
         final <- [id \in Ids |-> runs[id].completedAt]

\* The registry implements the life cycle the run API promises: whatever
\* requests, walks and collectors interleave, a poll sees a run start once,
\* settle once, keep its findings and go for good.
ImplementsLifecycle == Lifecycle!Spec

=============================================================================
