--------------------------- MODULE ExplorerSession ---------------------------
(***************************************************************************)
(* What a reader of the explorer may start and what becomes of it          *)
(* (frontend/src/core/session.ts and provenance.ts, over store.ts): tasks  *)
(* that yield to the paint, wait for a source and merge a page batch by    *)
(* batch, while the reader starts others, moves between views, changes the *)
(* limit or clears the session. An action is the code between two yields.  *)
(*                                                                         *)
(* A merge batch is one claim here, where MERGE_BATCH is 4000: a larger    *)
(* batch only has fewer interleavings.                                     *)
(***************************************************************************)
EXTENDS GraphUnion, SequencesExt

CONSTANTS
    Tasks,      \* the actions that may be in flight at once
    Order,      \* Order[h]: the closure of h, as a source delivers it
    Sources,    \* the connections
    Heads,      \* Heads[s]: the branch heads source s lists
    Table,      \* Table[s]: the head of its branch table
    Limits,     \* the limits the query form offers, the least its default
    MaxStarts,  \* bound: the actions a reader starts
    MaxViews    \* bound: the tabs open at once

ASSUME OrderAssumption ==
    /\ Order \in [Claims -> Seq(Claims)]
    /\ \A h \in Claims : /\ h \in Range(Order[h])
                         /\ \A c \in Range(Order[h]) : Refs[c] \subseteq Range(Order[h])

ASSUME SourcesAssumption ==
    /\ Heads \in [Sources -> SUBSET Claims]
    /\ Table \in [Sources -> Claims]

ASSUME BoundsAssumption ==
    /\ Limits \subseteq Nat \ {0}
    /\ \E n \in Limits : \A m \in Limits : n <= m
    /\ MaxStarts \in Nat
    /\ MaxViews \in Nat \ {0}

ASSUME TasksAssumption == \E t, u \in Tasks : t # u

VARIABLES
    union,     \* the graph, and the references held for want of a target
    members,   \* members[h]: the ids the closure of h was recorded to have
    busy,      \* whether status.busy names a stage
    shown,     \* whether status.nodes is above zero
    limit,     \* query.limit
    views,     \* each tab in order: a graph's scope, or a claim's CBOR
    active,    \* the active tab, 0 for none
    source,    \* the active connection
    listing,   \* what is known of the source's scopes
    selected,  \* the scope chosen
    task,      \* each action in flight
    starts     \* how many actions the reader has started

status == <<busy, shown>>
tabs == <<views, active>>
scopes == <<source, listing, selected>>
vars == <<union, members, status, limit, tabs, scopes, task, starts>>

Closure(h) == Range(Order[h])

Scope == [kind : {"branch", "archive", "provenance"}, head : Claims]
NoScope == [kind |-> "none"]
Branch(h) == [kind |-> "branch", head |-> h]
Archive(h) == [kind |-> "archive", head |-> h]
Provenance(c) == [kind |-> "provenance", head |-> c]
MaybeScope == Scope \cup {NoScope}

Cbor(c) == [kind |-> "cbor", head |-> c]
Tab == MaybeScope \cup {Cbor(c) : c \in Claims}
GraphTabs(ts) == {i \in DOMAIN ts : ts[i].kind # "cbor"}

PCs == {"idle", "read", "fetching", "merging", "nodes", "edges", "shape", "laying",
        "framing", "asking", "closure", "placing", "filling", "relaying", "listing"}

Task == [pc : PCs,
         scope : MaybeScope,     \* what the read was given, or resolved
         limit : Nat,            \* the limit it was given, 0 for none
         page : Seq(Claims),     \* what the source answered
         at : Nat,               \* the claim of the page the merge is at
         lacks : SUBSET Claims,  \* what a fill asks for
         from : Sources]         \* the source a listing was asked of

Listing == [state : {"loading", "ready", "error"}, scopes : SUBSET Scope]
Nothing(state) == [state |-> state, scopes |-> {}]

Idle(s) == [pc |-> "idle", scope |-> NoScope, limit |-> 0, page |-> <<>>, at |-> 0,
            lacks |-> {}, from |-> s]

(* The app has mounted: its two effects have each asked for the branches.  *)
Init ==
    /\ union = EmptyUnion
    /\ members = << >>
    /\ busy = FALSE
    /\ shown = FALSE
    /\ limit = CHOOSE n \in Limits : \A m \in Limits : n <= m
    /\ views = <<>>
    /\ active = 0
    /\ source \in Sources
    /\ listing = Nothing("loading")
    /\ selected = NoScope
    /\ \E t, u \in Tasks :
          /\ t # u
          /\ task = [v \in Tasks |-> IF v \in {t, u}
                                     THEN [Idle(source) EXCEPT !.pc = "listing"]
                                     ELSE Idle(source)]
    /\ starts = 0

(* A claim's CBOR is no view: nothing of a graph applies to it. *)
Viewing == active \in GraphTabs(views)
ActiveScope == IF Viewing THEN views[active] ELSE NoScope

Becomes(t, pc) == task' = [task EXCEPT ![t].pc = pc]
Ends(t) == task' = [task EXCEPT ![t] = Idle(source)]

Counted == starts < MaxStarts /\ starts' = starts + 1
Starts(t) == task[t].pc = "idle" /\ Counted

-----------------------------------------------------------------------------
(* load                                                                    *)

(* ensureView: the active view, else the last one there is, or a new one   *)
(* in the scope selected.                                                  *)
EnsureView(asNew, current) ==
    IF asNew \/ GraphTabs(current) = {}
    THEN views' = Append(current, selected') /\ active' = Len(current) + 1
    ELSE /\ views' = current
         /\ active' = IF Viewing THEN active ELSE Max(GraphTabs(current))

Load(t, scope, max, asNew, current) ==
    /\ EnsureView(asNew, current)
    /\ busy' = TRUE
    /\ task' = [task EXCEPT ![t].pc = "read", ![t].scope = scope, ![t].limit = max]

Run(t, asNew) ==
    /\ Starts(t)
    /\ ~busy
    /\ (asNew \/ GraphTabs(views) = {}) => Len(views) < MaxViews
    /\ UNCHANGED selected
    /\ Load(t, NoScope, 0, asNew, views)
    /\ UNCHANGED <<union, members, shown, limit, source, listing>>

Limit(t) == IF task[t].limit > 0 THEN task[t].limit ELSE limit

(* The view's scope is read after the yield; a read without one is refused. *)
Fetch(t) ==
    /\ task[t].pc = "read"
    /\ LET scope == IF task[t].scope # NoScope THEN task[t].scope ELSE ActiveScope
       IN  task' = [task EXCEPT
               ![t].pc = "fetching", ![t].scope = scope,
               ![t].page = IF scope = NoScope THEN <<>>
                           ELSE SubSeq(Order[scope.head], 1,
                                       IF Limit(t) < Len(Order[scope.head])
                                       THEN Limit(t) ELSE Len(Order[scope.head]))]
    /\ UNCHANGED <<union, members, status, limit, tabs, scopes, starts>>

FetchFails(t) ==
    /\ task[t].pc = "fetching"
    /\ busy' = FALSE
    /\ Ends(t)
    /\ UNCHANGED <<union, members, shown, limit, tabs, scopes, starts>>

FetchAnswers(t) ==
    /\ task[t].pc = "fetching"
    /\ task[t].scope # NoScope
    /\ busy' = TRUE
    /\ Becomes(t, "merging")
    /\ UNCHANGED <<union, members, shown, limit, tabs, scopes, starts>>

(* Mutant: a capped read is recorded over a whole membership. *)
RecordOver(t) ==
    members' = [h \in DOMAIN members \cup {task[t].scope.head} |->
                   IF h = task[t].scope.head THEN Range(task[t].page) ELSE members[h]]

(* A read that ran to the end is the membership, where none was recorded.  *)
(* The limit is read again, not the one the page was cut at.               *)
Record(t) ==
    LET h == task[t].scope.head
    IN  IF Len(task[t].page) < Limit(t) /\ h \notin DOMAIN members
        THEN members' = [k \in DOMAIN members \cup {h} |->
                            IF k = h THEN Range(task[t].page) ELSE members[k]]
        ELSE UNCHANGED members

(* A batch of the page. The last batch of claims and the first of          *)
(* references have no yield between them, nor have the last and Record.    *)
MergeNodes(t) ==
    LET page == task[t].page
        at == task[t].at + 1
    IN  /\ task[t].pc \in {"merging", "nodes"}
        /\ at < Len(page)
        /\ union' = AddNodes(union, {page[at]})
        /\ task' = [task EXCEPT ![t].pc = "nodes", ![t].at = at]
        /\ busy' = TRUE
        /\ UNCHANGED <<members, shown, limit, tabs, scopes, starts>>

MergeTurns(t) ==
    LET page == task[t].page
    IN  /\ task[t].pc \in {"merging", "nodes"}
        /\ task[t].at + 1 = Len(page)
        /\ union' = Walk(AddNodes(union, {Last(page)}), {Head(page)})
        /\ IF Len(page) > 1
           THEN task' = [task EXCEPT ![t].pc = "edges", ![t].at = 1] /\ UNCHANGED members
           ELSE Becomes(t, "shape") /\ Record(t)
        /\ busy' = TRUE
        /\ UNCHANGED <<shown, limit, tabs, scopes, starts>>

MergeEdges(t) ==
    LET page == task[t].page
        at == task[t].at + 1
    IN  /\ task[t].pc = "edges"
        /\ union' = Walk(union, {page[at]})
        /\ IF at < Len(page)
           THEN task' = [task EXCEPT ![t].at = at] /\ UNCHANGED members
           ELSE Becomes(t, "shape") /\ Record(t)
        /\ busy' = TRUE
        /\ UNCHANGED <<shown, limit, tabs, scopes, starts>>

Measure(t) ==
    /\ task[t].pc = "shape"
    /\ busy' = TRUE
    /\ Becomes(t, "laying")
    /\ UNCHANGED <<union, members, shown, limit, tabs, scopes, starts>>

Draw(t) ==
    /\ task[t].pc = "laying"
    /\ busy' = TRUE
    /\ shown' = (union.nodes # {})
    /\ Becomes(t, "framing")
    /\ UNCHANGED <<union, members, limit, tabs, scopes, starts>>

(* The end of load, of the selectScope that awaited it, and of a relayout. *)
Frame(t) ==
    /\ task[t].pc \in {"framing", "relaying"}
    /\ busy' = FALSE
    /\ Ends(t)
    /\ UNCHANGED <<union, members, shown, limit, tabs, scopes, starts>>

-----------------------------------------------------------------------------
(* selectScope                                                             *)

(* What selecting changes at once: the choice, the active view unless it   *)
(* is a claim's provenance, and, given a branch, what is to be read of it. *)
Select(t, scope, pinned) ==
    LET onItsOwnClaim == ActiveScope.kind = "provenance"
        patched == IF Viewing /\ ~onItsOwnClaim
                   THEN [views EXCEPT ![active] = scope] ELSE views
    IN  /\ selected' = scope
        /\ IF scope = NoScope \/ onItsOwnClaim
           THEN /\ views' = patched
                /\ task' = pinned
                /\ UNCHANGED <<active, busy>>
           ELSE IF scope.head \notin DOMAIN members /\ union.nodes = {}
                THEN /\ EnsureView(FALSE, patched)
                     /\ busy' = TRUE
                     /\ task' = [pinned EXCEPT ![t].pc = "read", ![t].scope = scope]
                ELSE /\ views' = patched
                     /\ busy' = TRUE
                     /\ task' = [pinned EXCEPT ![t].pc = "asking", ![t].scope = scope]
                     /\ UNCHANGED active

SelectScope(t, scope) ==
    /\ Starts(t)
    /\ listing.state = "ready"
    /\ scope \in {NoScope} \cup listing.scopes
    /\ Select(t, scope, task)
    /\ UNCHANGED <<union, members, shown, limit, source, listing>>

(* Mutant: a failed ask leaves its stage on the overlay. *)
IdsFailShown(t) ==
    /\ task[t].pc = "asking"
    /\ Ends(t)
    /\ UNCHANGED <<union, members, status, limit, tabs, scopes, starts>>

IdsFail(t) ==
    /\ task[t].pc = "asking"
    /\ busy' = FALSE
    /\ Ends(t)
    /\ UNCHANGED <<union, members, shown, limit, tabs, scopes, starts>>

SetMembers(h, ids) ==
    members' = [k \in DOMAIN members \cup {h} |-> IF k = h THEN ids ELSE members[k]]

(* The scope's own size is the limit of the read that completes it. *)
IdsAnswer(t) ==
    LET h == task[t].scope.head
    IN  /\ task[t].pc = "asking"
        /\ SetMembers(h, Closure(h))
        /\ UNCHANGED selected
        /\ IF Missing(union, Closure(h)) # {}
           THEN Load(t, task[t].scope, Cardinality(Closure(h)), FALSE, views)
           ELSE busy' = FALSE /\ Ends(t) /\ UNCHANGED tabs
        /\ UNCHANGED <<union, shown, limit, source, listing, starts>>

-----------------------------------------------------------------------------
(* discoverScopes, asked at the start, on a retry and on a change of source *)

Discover(t, s) ==
    /\ listing' = Nothing("loading")
    /\ task' = [task EXCEPT ![t].pc = "listing", ![t].from = s]

(* What a source lists: its branches, and the archive if it may be read. *)
Listings(s) ==
    LET branches == {Branch(h) : h \in Heads[s]}
    IN  {branches, branches \cup {Archive(Table[s])}}

Activate(t, s) ==
    /\ Starts(t)
    /\ s # source \/ listing.state = "error"
    /\ source' = s
    /\ Discover(t, s)
    /\ UNCHANGED <<union, members, status, limit, tabs, selected>>

DiscoverFails(t) ==
    /\ task[t].pc = "listing"
    /\ listing' = Nothing("error")
    /\ selected' = NoScope
    /\ Ends(t)
    /\ UNCHANGED <<union, members, status, limit, tabs, source, starts>>

(* Mutant: the selection is carried across a change of source. *)
DiscoverCarries(t) ==
    /\ task[t].pc = "listing"
    /\ \E listed \in Listings(task[t].from) :
          listing' = [state |-> "ready", scopes |-> listed]
    /\ Ends(t)
    /\ UNCHANGED <<union, members, status, limit, tabs, source, selected, starts>>

(* A selection the listing does not hold is dropped; a sole branch is      *)
(* selected outright.                                                      *)
DiscoverAnswers(t) ==
    /\ task[t].pc = "listing"
    /\ \E listed \in Listings(task[t].from) :
          /\ listing' = [state |-> "ready", scopes |-> listed]
          /\ IF Cardinality(Heads[task[t].from]) = 1
             THEN \E h \in Heads[task[t].from] :
                     Select(t, Branch(h), [task EXCEPT ![t] = Idle(source)])
             ELSE /\ selected' = IF selected \in listed THEN selected ELSE NoScope
                  /\ Ends(t)
                  /\ UNCHANGED <<tabs, busy>>
    /\ UNCHANGED <<union, members, shown, limit, source, starts>>

-----------------------------------------------------------------------------
(* openClaimProvenance, readProvenance, loadMore; openClaimCbor            *)

OpenProvenance(t, c) ==
    /\ Starts(t)
    /\ c \in union.described
    /\ IF \E i \in DOMAIN views : views[i] = Provenance(c)
       THEN /\ active' = CHOOSE i \in DOMAIN views : views[i] = Provenance(c)
            /\ UNCHANGED <<views, task>>
       ELSE /\ ActiveScope # NoScope \/ selected # NoScope
            /\ Len(views) < MaxViews
            /\ views' = Append(views, Provenance(c))
            /\ active' = Len(views) + 1
            /\ task' = [task EXCEPT ![t].pc = "closure", ![t].scope = Provenance(c)]
    /\ UNCHANGED <<union, members, status, limit, scopes>>

ClosureFails(t) ==
    /\ task[t].pc = "closure"
    /\ Ends(t)
    /\ UNCHANGED <<union, members, status, limit, tabs, scopes, starts>>

(* The closure's ids are recorded and what is already read is laid out. *)
ClosureAnswers(t) ==
    /\ task[t].pc = "closure"
    /\ SetMembers(task[t].scope.head, Closure(task[t].scope.head))
    /\ busy' = TRUE
    /\ Becomes(t, "placing")
    /\ UNCHANGED <<union, shown, limit, tabs, scopes, starts>>

(* The layout ends; loadMore asks for what the session lacks by now. *)
LoadMore(t) ==
    /\ task[t].pc = "placing"
    /\ IF Missing(union, Closure(task[t].scope.head)) = {}
       THEN busy' = FALSE /\ Ends(t)
       ELSE /\ busy' = TRUE
            /\ task' = [task EXCEPT ![t].pc = "filling",
                   ![t].lacks = Missing(union, Closure(task[t].scope.head))]
    /\ UNCHANGED <<union, members, shown, limit, tabs, scopes, starts>>

(* readMissing, by id where some of the closure is there: each claim may    *)
(* fail; or by scope: all of the closure is read or none.                  *)
ReadMissing(missing, closure) ==
    {{}, closure} \cup (IF missing # closure THEN SUBSET missing ELSE {})

Fill(t) ==
    /\ task[t].pc = "filling"
    /\ \E C \in ReadMissing(task[t].lacks, Closure(task[t].scope.head)) :
           /\ union' = MergeMore(union, C)
           /\ shown' = (union'.nodes # {})
    /\ busy' = FALSE
    /\ Ends(t)
    /\ UNCHANGED <<members, limit, tabs, scopes, starts>>

(* A tab of the claim's bytes, or the one open brought forward. *)
OpenCbor(c) ==
    /\ Counted
    /\ c \in union.described
    /\ IF \E i \in DOMAIN views : views[i] = Cbor(c)
       THEN /\ active' = CHOOSE i \in DOMAIN views : views[i] = Cbor(c)
            /\ UNCHANGED views
       ELSE /\ Len(views) < MaxViews
            /\ views' = Append(views, Cbor(c))
            /\ active' = Len(views) + 1
    /\ UNCHANGED <<union, members, status, limit, scopes, task>>

-----------------------------------------------------------------------------
(* What a reader does at once. *)

Relayout(t) ==
    /\ Starts(t)
    /\ Viewing
    /\ busy' = TRUE
    /\ Becomes(t, "relaying")
    /\ UNCHANGED <<union, members, shown, limit, tabs, scopes>>

(* A read under way reports how far it is. *)
Progress(t) ==
    /\ task[t].pc \in {"fetching", "filling"}
    /\ busy' = TRUE
    /\ UNCHANGED <<union, members, shown, limit, tabs, scopes, task, starts>>

ClearSession ==
    /\ ~busy /\ shown
    /\ union' = EmptyUnion
    /\ shown' = FALSE
    /\ UNCHANGED <<members, busy, limit, tabs, scopes, task, starts>>

SetLimit(n) ==
    /\ limit' = n
    /\ UNCHANGED <<union, members, status, tabs, scopes, task, starts>>

ActivateTab(i) ==
    /\ active' = i
    /\ UNCHANGED <<union, members, status, limit, views, scopes, task, starts>>

(* One graph tab always stays open (App.tsx). *)
CloseTab(i) ==
    /\ GraphTabs(views) \ {i} # {}
    /\ views' = RemoveAt(views, i)
    /\ active' = IF i = active THEN Len(views) - 1
                 ELSE IF i < active THEN active - 1 ELSE active
    /\ UNCHANGED <<union, members, status, limit, scopes, task, starts>>

Reader ==
    \/ \E t \in Tasks :
          \/ \E asNew \in BOOLEAN : Run(t, asNew)
          \/ \E scope \in MaybeScope : SelectScope(t, scope)
          \/ \E s \in Sources : Activate(t, s)
          \/ \E c \in Claims : OpenProvenance(t, c)
          \/ Relayout(t)
    \/ \E c \in Claims : OpenCbor(c)
    \/ ClearSession
    \/ \E n \in Limits : SetLimit(n)
    \/ \E i \in DOMAIN views : ActivateTab(i) \/ CloseTab(i)

Step(t) ==
    \/ Fetch(t) \/ FetchFails(t) \/ FetchAnswers(t)
    \/ MergeNodes(t) \/ MergeTurns(t) \/ MergeEdges(t)
    \/ Measure(t) \/ Draw(t) \/ Frame(t)
    \/ IdsFail(t) \/ IdsAnswer(t)
    \/ DiscoverFails(t) \/ DiscoverAnswers(t)
    \/ ClosureFails(t) \/ ClosureAnswers(t) \/ LoadMore(t) \/ Fill(t)

Next == Reader \/ \E t \in Tasks : Step(t) \/ Progress(t)

Spec == Init /\ [][Next]_vars

-----------------------------------------------------------------------------
TypeOK ==
    /\ union \in Union
    /\ union.edges \subseteq union.nodes \X union.nodes
    /\ union.described \subseteq union.nodes
    /\ DOMAIN members \subseteq Claims
    /\ \A h \in DOMAIN members : members[h] \subseteq Claims
    /\ busy \in BOOLEAN /\ shown \in BOOLEAN
    /\ limit \in Limits
    /\ views \in Seq(Tab)
    /\ active \in 0 .. Len(views) /\ (active = 0 <=> views = <<>>)
    /\ source \in Sources
    /\ listing \in Listing
    /\ selected \in MaybeScope
    /\ task \in [Tasks -> Task]
    /\ \A t \in Tasks : task[t].at \in 0 .. Len(task[t].page)
    /\ starts \in 0 .. MaxStarts

(* However merges, fills and clearings interleave, what is drawn or held is *)
(* a reference, every reference of a claim in the graph is, and it is drawn *)
(* and no longer held once both of its ends are there, unless a merge in    *)
(* flight has yet to walk one of them.                                      *)
ToWalk(t) ==
    CASE task[t].pc \in {"merging", "nodes"} -> Range(task[t].page)
      [] task[t].pc = "edges" ->
             {task[t].page[i] : i \in task[t].at + 1 .. Len(task[t].page)}
      [] OTHER -> {}

DrawnWhenRead ==
    LET walked == union.nodes \ UNION {ToWalk(t) : t \in Tasks}
    IN  /\ \A e \in union.edges \cup union.held : e[2] \in Refs[e[1]]
        /\ \A e \in union.held : e[2] \notin walked
        /\ \A c \in walked : \A d \in Refs[c] : <<c, d>> \in union.edges \cup union.held

(* The overlay never outlives the work: with nothing under way that shows a *)
(* stage, none is shown, and so the panes its buttons disable work again.   *)
IdleIsNotBusy ==
    (\A t \in Tasks : task[t].pc \in {"idle", "listing", "closure"}) => ~busy

(* The scope chosen is one the listing shown holds, whatever listings and   *)
(* selections overlapped.                                                   *)
SelectedIsListed ==
    listing.state = "ready" =>
        selected \in {NoScope} \cup listing.scopes

(* What a task has come to tells what it carries: a page is merged from its *)
(* first claim on, a merge of references has one left to walk, and whatever *)
(* follows an answer follows it of a scope.                                 *)
Scoped == {"merging", "nodes", "edges", "asking", "closure", "placing", "filling"}

TasksCarry ==
    \A t \in Tasks :
        /\ task[t].at # 0 => task[t].pc \in {"nodes", "edges", "shape", "laying", "framing"}
        /\ task[t].pc = "edges" => task[t].at < Len(task[t].page)
        /\ task[t].pc \in Scoped => task[t].scope \in Scope

(* The inductive invariant.                                                 *)
IInv ==
    /\ TypeOK /\ TasksCarry
    /\ DrawnWhenRead /\ IdleIsNotBusy /\ SelectedIsListed

(* A membership recorded whole is never replaced by part of it.             *)
WholeStaysWhole ==
    [][\A h \in DOMAIN members :
          members[h] = Closure(h) => members'[h] = Closure(h)]_members

=============================================================================
