----------------------- MODULE ExplorerSession_proofs -----------------------
(***************************************************************************)
(* Theorems about ExplorerSession for any claims, references, sources,     *)
(* tasks and limits.                                                       *)
(***************************************************************************)
EXTENDS ExplorerSession, TLAPS, SequenceTheorems, FiniteSetTheorems, WellFoundedInduction

-----------------------------------------------------------------------------
(* The graph of the session.                                               *)

\* A graph as TypeOK has it: its edges join nodes, and what is described is one.
Sound(g) ==
    /\ g \in Union
    /\ g.edges \subseteq g.nodes \X g.nodes
    /\ g.described \subseteq g.nodes

\* What is drawn or held is a reference, all those of the claims W are, and none is
\* held that leads to W.
Drawn(g, W) ==
    /\ \A e \in g.edges \cup g.held : e[2] \in Refs[e[1]]
    /\ \A e \in g.held : e[2] \notin W
    /\ \A c \in W : \A d \in Refs[c] : <<c, d>> \in g.edges \cup g.held

\* addNodes keeps a graph sound and draws nothing.
LEMMA AddNodesFacts ==
    ASSUME NEW g, Sound(g), NEW C \in SUBSET Claims
    PROVE  /\ Sound(AddNodes(g, C))
           /\ AddNodes(g, C).nodes = g.nodes \cup C
           /\ AddNodes(g, C).edges = g.edges
           /\ AddNodes(g, C).held = g.held
<1>0. g \in Union
  BY DEF Sound
<1>1. /\ AddNodes(g, C).nodes = g.nodes \cup C
      /\ AddNodes(g, C).described = g.described \cup (C \ g.nodes)
      /\ AddNodes(g, C).edges = g.edges
      /\ AddNodes(g, C).held = g.held
  BY <1>0 DEF AddNodes, Union
<1>2. AddNodes(g, C) \in Union
  <2>1. g.nodes \cup C \in SUBSET Claims /\ g.described \cup (C \ g.nodes) \in SUBSET Claims
    BY <1>0 DEF Union
  <2> QED
    BY <1>0, <2>1 DEF AddNodes, Union
<1> QED
  BY <1>1, <1>2 DEF Sound

\* addEdges and drainPending keep a graph sound, and no node comes to be but of the
\* batch.
LEMMA WalkFacts ==
    ASSUME NEW g, Sound(g), NEW C \in SUBSET Claims
    PROVE  /\ Sound(Walk(g, C))
           /\ g.nodes \subseteq Walk(g, C).nodes
           /\ Walk(g, C).nodes \subseteq g.nodes \cup C
<1> DEFINE drawn == {e \in C \X g.nodes : e[2] \in Refs[e[1]]}
           absent == {e \in C \X (Claims \ g.nodes) : e[2] \in Refs[e[1]]}
           present == g.nodes \cup {e[1] : e \in drawn}
           waiting == {e \in g.held : e[2] \in C /\ e[1] \in present}
<1>0. g \in Union
  BY DEF Sound
<1>1. /\ g.nodes \subseteq Claims /\ g.described \subseteq g.nodes
      /\ g.edges \subseteq g.nodes \X g.nodes /\ g.held \subseteq Claims \X Claims
      /\ g.edges \subseteq Claims \X Claims /\ g.described \subseteq Claims
  BY DEF Sound, Union
<1>a. Walk(g, C) = [g EXCEPT !.nodes = present \cup {e[2] : e \in waiting},
                  !.edges = g.edges \cup drawn \cup waiting,
                  !.held = {e \in g.held \cup absent : e[2] \notin C}]
  BY DEF Walk
<1>3. {e[1] : e \in drawn} \subseteq C /\ {e[2] : e \in waiting} \subseteq C
  OBVIOUS
<1>4. drawn \subseteq present \X g.nodes
  OBVIOUS
<1>5. waiting \subseteq present \X {e[2] : e \in waiting}
  BY <1>1
<1>6. drawn \subseteq Claims \X Claims /\ absent \subseteq Claims \X Claims
      /\ waiting \subseteq Claims \X Claims
  BY <1>1
<1> HIDE DEF drawn, absent, present, waiting
<1>2. /\ Walk(g, C).nodes = present \cup {e[2] : e \in waiting}
      /\ Walk(g, C).described = g.described
      /\ Walk(g, C).edges = g.edges \cup drawn \cup waiting
      /\ Walk(g, C).held = {e \in g.held \cup absent : e[2] \notin C}
  BY <1>0, <1>a DEF Union
<1>7. present \subseteq Claims /\ g.nodes \subseteq present /\ present \subseteq g.nodes \cup C
  BY <1>1, <1>3 DEF present
<1>8. Walk(g, C) \in Union
  <2> DEFINE n == present \cup {e[2] : e \in waiting}
             r == g.edges \cup drawn \cup waiting
             h == {e \in g.held \cup absent : e[2] \notin C}
  <2>1. n \in SUBSET Claims /\ r \in SUBSET (Claims \X Claims) /\ h \in SUBSET (Claims \X Claims)
    BY <1>1, <1>3, <1>6, <1>7
  <2> HIDE DEF n, r, h
  <2>2. Walk(g, C) = [g EXCEPT !.nodes = n, !.edges = r, !.held = h]
    BY <1>a DEF n, r, h
  <2> QED
    BY <1>0, <2>1, <2>2 DEF Union
<1>9. g.edges \cup drawn \cup waiting
        \subseteq (present \cup {e[2] : e \in waiting}) \X (present \cup {e[2] : e \in waiting})
  BY <1>1, <1>4, <1>5, <1>7
<1> QED
  BY <1>1, <1>2, <1>3, <1>7, <1>8, <1>9 DEF Sound

\* A walk draws the references of its batch and those that waited for it: what
\* was walked before and the batch are walked after.
LEMMA WalkDraws ==
    ASSUME NEW g, Sound(g), NEW C \in SUBSET Claims, NEW W \in SUBSET g.nodes, Drawn(g, W),
           \A c, d \in C : d \in Refs[c] => d \in g.nodes
    PROVE  Drawn(Walk(g, C), W \cup C)
<1> DEFINE drawn == {e \in C \X g.nodes : e[2] \in Refs[e[1]]}
           absent == {e \in C \X (Claims \ g.nodes) : e[2] \in Refs[e[1]]}
           present == g.nodes \cup {e[1] : e \in drawn}
           waiting == {e \in g.held : e[2] \in C /\ e[1] \in present}
<1>0. g \in Union /\ g.nodes \subseteq Claims
  BY DEF Sound, Union
<1>1. /\ Walk(g, C).edges = g.edges \cup drawn \cup waiting
      /\ Walk(g, C).held = {e \in g.held \cup absent : e[2] \notin C}
  BY <1>0 DEF Walk, Union
<1>a. g.edges \subseteq Claims \X Claims /\ g.held \subseteq Claims \X Claims
  BY <1>0 DEF Union
<1>2. \A e \in Walk(g, C).edges \cup Walk(g, C).held : e[2] \in Refs[e[1]]
  <2>1. \A e \in drawn \cup absent : e[2] \in Refs[e[1]]
    OBVIOUS
  <2>2. \A e \in g.edges \cup g.held : e[2] \in Refs[e[1]]
    BY DEF Drawn
  <2>3. waiting \subseteq g.held
    OBVIOUS
  <2> HIDE DEF drawn, absent, waiting
  <2> QED
    BY <1>1, <2>1, <2>2, <2>3
<1>3. \A e \in Walk(g, C).held : e[2] \notin W \cup C
  <2>1. \A e \in g.held \cup absent : e[2] \notin W
    BY DEF Drawn
  <2> QED
    BY <1>1, <2>1
<1>4. ASSUME NEW c \in W \cup C, NEW d \in Refs[c]
      PROVE  <<c, d>> \in Walk(g, C).edges \cup Walk(g, C).held
  <2>0. c \in Claims /\ d \in Claims
    BY <1>0, RefsAssumption
  <2>1. CASE c \in C /\ d \in g.nodes
    <3>1. <<c, d>> \in drawn
      BY <2>1
    <3> QED
      BY <1>1, <3>1
  <2>2. CASE c \in C /\ d \notin g.nodes
    <3>1. <<c, d>> \in absent /\ d \notin C
      BY <2>0, <2>2
    <3> QED
      BY <1>1, <3>1
  <2>3. CASE c \notin C
    <3>1. <<c, d>> \in g.edges \cup g.held /\ c \in g.nodes
      BY <2>3 DEF Drawn
    <3>2. d \in C => <<c, d>> \in g.edges \cup waiting
      BY <3>1
    <3> QED
      BY <1>1, <3>1, <3>2
  <2> QED
    BY <2>1, <2>2, <2>3
<1> QED
  BY <1>2, <1>3, <1>4 DEF Drawn

\* A merge in one go takes the graph of some claims to the graph of those and of its
\* own (build.ts: addClaims), so that neither the order nor the cut of pages shows.
THEOREM MergeIsUnion ==
    ASSUME NEW N \in SUBSET Claims, NEW C \in SUBSET Claims
    PROVE  MergeMore(GraphOf(N), C) = GraphOf(N \cup C)
<1> DEFINE g == GraphOf(N)
           a == AddNodes(g, C)
           all == N \cup C
           drawn == {e \in C \X all : e[2] \in Refs[e[1]]}
           absent == {e \in C \X (Claims \ all) : e[2] \in Refs[e[1]]}
           waiting == {e \in g.held : e[2] \in C /\ e[1] \in all}
<1>1. /\ a.nodes = all /\ a.described = all
      /\ a.edges = {e \in N \X N : e[2] \in Refs[e[1]]}
      /\ a.held = {e \in N \X (Claims \ N) : e[2] \in Refs[e[1]]}
      /\ a = [nodes |-> all, described |-> all, edges |-> a.edges, held |-> a.held]
      /\ g.held = a.held
  <2> DEFINE r == {e \in N \X N : e[2] \in Refs[e[1]]}
             h == {e \in N \X (Claims \ N) : e[2] \in Refs[e[1]]}
  <2>1. g = [nodes |-> N, described |-> N, edges |-> r, held |-> h]
    BY DEF GraphOf
  <2>2. a = [g EXCEPT !.nodes = g.nodes \cup C, !.described = g.described \cup (C \ g.nodes)]
    BY DEF AddNodes
  <2> HIDE DEF g, a, r, h
  <2>3. g.nodes = N /\ g.described = N /\ g.edges = r /\ g.held = h
    BY <2>1
  <2>4. N \cup (C \ N) = all
    OBVIOUS
  <2>5. a = [nodes |-> all, described |-> all, edges |-> r, held |-> h]
    BY <2>1, <2>2, <2>3, <2>4
  <2> QED
    BY <2>3, <2>5 DEF r, h
<1>2. all \cup {e[1] : e \in drawn} = all
  OBVIOUS
<1>3. {e \in a.held : e[2] \in C /\ e[1] \in a.nodes \cup {d[1] : d \in drawn}} = waiting
  BY <1>1, <1>2
<1>4. all \cup {e[2] : e \in waiting} = all
  OBVIOUS
<1>5. a.edges \cup drawn \cup waiting = {e \in all \X all : e[2] \in Refs[e[1]]}
  <2>1. ASSUME NEW r \in all \X all, r[2] \in Refs[r[1]]
        PROVE  r \in a.edges \cup drawn \cup waiting
    <3>1. CASE r[1] \in C
      BY <2>1, <3>1
    <3>2. CASE r[1] \notin C /\ r[2] \in N
      BY <1>1, <2>1, <3>2
    <3>3. CASE r[1] \notin C /\ r[2] \notin N
      <4>1. r \in N \X (Claims \ N)
        BY <2>1, <3>3
      <4> QED
        BY <1>1, <2>1, <3>3, <4>1
    <3> QED
      BY <3>1, <3>2, <3>3
  <2>2. a.edges \cup drawn \cup waiting \subseteq {e \in all \X all : e[2] \in Refs[e[1]]}
    BY <1>1
  <2> QED
    BY <2>1, <2>2
<1>6. {e \in a.held \cup absent : e[2] \notin C} = {e \in all \X (Claims \ all) : e[2] \in Refs[e[1]]}
  BY <1>1
<1>7. Walk(a, C) = [a EXCEPT !.nodes = all \cup {e[2] : e \in waiting},
                             !.edges = a.edges \cup drawn \cup waiting,
                             !.held = {e \in a.held \cup absent : e[2] \notin C}]
  BY <1>1, <1>2, <1>3 DEF Walk
<1> HIDE DEF a, drawn, absent, waiting
<1>8. Walk(a, C) = [nodes |-> all, described |-> all,
                    edges |-> {e \in all \X all : e[2] \in Refs[e[1]]},
                    held |-> {e \in all \X (Claims \ all) : e[2] \in Refs[e[1]]}]
  BY <1>1, <1>4, <1>5, <1>6, <1>7
<1> QED
  BY <1>8 DEF MergeMore, GraphOf, a

\* Pages merged in either order, or as one, leave the same graph.
COROLLARY MergesCommute ==
    ASSUME NEW N \in SUBSET Claims, NEW C \in SUBSET Claims, NEW D \in SUBSET Claims
    PROVE  /\ MergeMore(MergeMore(GraphOf(N), C), D) = MergeMore(MergeMore(GraphOf(N), D), C)
           /\ MergeMore(MergeMore(GraphOf(N), C), D) = MergeMore(GraphOf(N), C \cup D)
<1>1. (N \cup C) \cup D = (N \cup D) \cup C /\ (N \cup C) \cup D = N \cup (C \cup D)
  OBVIOUS
<1>2. /\ N \cup C \in SUBSET Claims /\ N \cup D \in SUBSET Claims
      /\ C \cup D \in SUBSET Claims
  OBVIOUS
<1>3. /\ MergeMore(GraphOf(N), C) = GraphOf(N \cup C)
      /\ MergeMore(GraphOf(N), D) = GraphOf(N \cup D)
      /\ MergeMore(GraphOf(N), C \cup D) = GraphOf(N \cup (C \cup D))
  BY <1>2, MergeIsUnion
<1>4. /\ MergeMore(GraphOf(N \cup C), D) = GraphOf((N \cup C) \cup D)
      /\ MergeMore(GraphOf(N \cup D), C) = GraphOf((N \cup D) \cup C)
  BY <1>2, MergeIsUnion
<1> QED
  BY <1>1, <1>3, <1>4

-----------------------------------------------------------------------------
(* Types.                                                                  *)

\* What a closure is read from.
LEMMA OrderFacts ==
    ASSUME NEW h \in Claims
    PROVE  Order[h] \in Seq(Claims) /\ Closure(h) \in SUBSET Claims /\ h \in Closure(h)
<1>1. Order[h] \in Seq(Claims)
  BY OrderAssumption
<1> QED
  BY <1>1, OrderAssumption DEF Closure, Range

\* A page holds finitely many claims.
LEMMA RangeFinite ==
    ASSUME NEW S, NEW s \in Seq(S)
    PROVE  IsFiniteSet(Range(s))
<1>1. Len(s) \in Nat /\ DOMAIN s = 1 .. Len(s)
  OBVIOUS
<1>2. IsFiniteSet(DOMAIN s)
  BY <1>1, FS_Interval
<1>3. s \in Surjection(DOMAIN s, Range(s))
  BY DEF Surjection, Range
<1> QED
  BY <1>2, <1>3, FS_Surjection

\* A task as TypeOK and TasksCarry have it.
Good(r) ==
    /\ r \in Task
    /\ r.at \in 0 .. Len(r.page)
    /\ r.at # 0 => r.pc \in {"nodes", "edges", "shape", "laying", "framing"}
    /\ r.pc = "edges" => r.at < Len(r.page)
    /\ r.pc \in Scoped => r.scope \in Scope

LEMMA GoodTasks ==
    TypeOK /\ TasksCarry => task \in [Tasks -> Task] /\ \A t \in Tasks : Good(task[t])
  BY DEF TypeOK, TasksCarry, Good

LEMMA IdleGood == ASSUME NEW s \in Sources PROVE Good(Idle(s))
  BY DEF Good, Idle, Task, PCs, Scoped, MaybeScope, NoScope

\* A step of one task.
LEMMA OneTask ==
    ASSUME task \in [Tasks -> Task], \A u \in Tasks : Good(task[u]),
           NEW t \in Tasks, NEW r, Good(r), task' = [task EXCEPT ![t] = r]
    PROVE  task' \in [Tasks -> Task] /\ \A u \in Tasks : Good(task'[u])
  BY DEF Good

\* The parts of the type invariant, by what an action leaves alone together.
MembersTyped == DOMAIN members \subseteq Claims /\ \A h \in DOMAIN members : members[h] \subseteq Claims
FlagsTyped == busy \in BOOLEAN /\ shown \in BOOLEAN /\ limit \in Limits /\ starts \in 0 .. MaxStarts
TabsTyped == /\ views \in Seq(Tab)
             /\ active \in 0 .. Len(views) /\ (active = 0 <=> views = <<>>)
ScopesTyped == source \in Sources /\ listing \in Listing /\ selected \in MaybeScope
TasksGood == task \in [Tasks -> Task] /\ \A t \in Tasks : Good(task[t])

Parts == /\ Sound(union) /\ MembersTyped /\ FlagsTyped
         /\ TabsTyped /\ ScopesTyped /\ TasksGood

LEMMA PartsAreTypes == Parts <=> TypeOK /\ TasksCarry
  BY DEF Parts, TypeOK, TasksCarry, Sound, MembersTyped, FlagsTyped, TabsTyped, ScopesTyped,
         TasksGood, Good

LEMMA PartsAreTypesNext == Parts' <=> TypeOK' /\ TasksCarry'
  BY DEF Parts, TypeOK, TasksCarry, Sound, MembersTyped, FlagsTyped, TabsTyped, ScopesTyped,
         TasksGood, Good

\* The last of some places is one of them.
LEMMA MaxIsIn ==
    ASSUME NEW n \in Nat, NEW S \in SUBSET (1 .. n), S # {}
    PROVE  Max(S) \in S
<1> DEFINE T == {n - i : i \in S}
           R == {p \in Nat \X Nat : p[1] < p[2]}
<1>1. T \subseteq Nat /\ T # {}
  <2>1. PICK j \in S : TRUE
    OBVIOUS
  <2>2. n - j \in T
    BY <2>1
  <2>3. T \subseteq Nat
    OBVIOUS
  <2> HIDE DEF T
  <2> QED
    BY <2>2, <2>3
<1>2. IsWellFoundedOn(R, Nat)
  BY NatLessThanWellFounded, Zenon DEF OpToRel
<1> HIDE DEF R, T
<1>3. PICK x \in T : \A y \in T : <<y, x>> \notin R
  BY <1>1, <1>2, WFMin
<1>4. PICK i \in S : x = n - i
  BY <1>3 DEF T
<1>5. ASSUME NEW j \in S PROVE i >= j
  <2>1. n - j \in T /\ n - j \in Nat /\ n - i \in Nat /\ i \in Nat /\ j \in Nat
    BY <1>1 DEF T
  <2>2. ~(n - j < n - i)
    BY <1>3, <1>4, <2>1 DEF R
  <2> QED
    BY <2>1, <2>2
<1> QED
  BY <1>5 DEF Max

\* ensureView moves to a graph that is open, or appends one and moves to it.
LEMMA EnsureViewTyped ==
    ASSUME TabsTyped, NEW asNew, NEW current \in Seq(Tab), Len(current) = Len(views),
           selected' \in MaybeScope, EnsureView(asNew, current)
    PROVE  TabsTyped'
<1>1. CASE asNew \/ GraphTabs(current) = {}
  <2>1. views' = Append(current, selected') /\ active' = Len(current) + 1
    BY <1>1 DEF EnsureView
  <2>2. views' \in Seq(Tab) /\ Len(views') = Len(current) + 1
    BY <2>1, AppendProperties DEF Tab
  <2> QED
    BY <2>1, <2>2 DEF TabsTyped
<1>2. CASE ~(asNew \/ GraphTabs(current) = {})
  <2>1. views' = current /\ active' = IF Viewing THEN active ELSE Max(GraphTabs(current))
    BY <1>2 DEF EnsureView
  <2>2. Len(current) \in Nat /\ GraphTabs(current) \in SUBSET (1 .. Len(current))
    BY DEF GraphTabs
  <2>3. Max(GraphTabs(current)) \in 1 .. Len(current)
    BY <1>2, <2>2, MaxIsIn
  <2>4. Viewing => active \in 1 .. Len(current)
    BY DEF TabsTyped, Viewing, GraphTabs
  <2>5. active' \in 1 .. Len(views')
    BY <2>1, <2>3, <2>4
  <2> QED
    BY <2>1, <2>5 DEF TabsTyped
<1> QED
  BY <1>1, <1>2

\* What the active tab shows is a scope or none.
LEMMA ActiveScopeTyped == TabsTyped => ActiveScope \in MaybeScope
<1> SUFFICES ASSUME TabsTyped, Viewing PROVE views[active] \in MaybeScope
  BY DEF ActiveScope, MaybeScope
<1>1. views[active] \in Tab /\ views[active].kind # "cbor"
  BY DEF TabsTyped, Viewing, GraphTabs
<1> QED
  BY <1>1 DEF Tab, Cbor

LEMMA ScopeKinds ==
    /\ NoScope \in MaybeScope /\ Scope \subseteq MaybeScope
    /\ \A s \in MaybeScope : s # NoScope => s \in Scope /\ s.head \in Claims
    /\ \A h \in Claims : Branch(h) \in Scope /\ Archive(h) \in Scope /\ Provenance(h) \in Scope
    /\ MaybeScope \subseteq Tab /\ \A c \in Claims : Cbor(c) \in Tab
  BY DEF MaybeScope, NoScope, Scope, Branch, Archive, Provenance, Tab

\* A task that ends is idle, and one that goes on keeps what it carries.
LEMMA TaskEnds ==
    ASSUME Parts, NEW t \in Tasks, Ends(t)
    PROVE  TasksGood'
  BY IdleGood, OneTask DEF Ends, TasksGood, ScopesTyped, Parts

LEMMA TaskBecomes ==
    ASSUME Parts, NEW t \in Tasks, NEW pc \in PCs, pc # "edges",
           task[t].at # 0 => pc \in {"shape", "laying", "framing"},
           pc \in Scoped => task[t].scope \in Scope, Becomes(t, pc)
    PROVE  TasksGood'
<1>1. Good([task[t] EXCEPT !.pc = pc])
  BY DEF Good, Task, Parts, TasksGood
<1>2. task' = [task EXCEPT ![t] = [task[t] EXCEPT !.pc = pc]]
  BY DEF Becomes
<1> QED
  BY <1>1, <1>2, OneTask DEF TasksGood, Parts

\* The steps of load (session.ts: load, and what it calls).
LEMMA LoadTyped ==
    ASSUME Parts, NEW t \in Tasks,
           \/ Fetch(t) \/ FetchFails(t) \/ FetchAnswers(t)
           \/ MergeNodes(t) \/ MergeTurns(t) \/ MergeEdges(t)
           \/ Measure(t) \/ Draw(t) \/ Frame(t)
    PROVE  Parts'
<1> USE DEF Parts
<1>0. /\ Good(task[t]) /\ task[t] \in Task /\ task \in [Tasks -> Task] /\ source \in Sources
      /\ \A u \in Tasks : Good(task[u])
  BY DEF TasksGood, ScopesTyped
<1>e. Ends(t) => TasksGood'
  BY TaskEnds
<1>b. ASSUME NEW pc \in PCs, pc # "edges", task[t].at # 0 => pc \in {"shape", "laying", "framing"},
             pc \in Scoped => task[t].scope \in Scope, Becomes(t, pc)
      PROVE  TasksGood'
  BY <1>b, TaskBecomes
<1>r. ASSUME Record(t), task[t].scope \in Scope
      PROVE  MembersTyped'
  <2>1. task[t].scope.head \in Claims /\ Range(task[t].page) \subseteq Claims
    BY <1>0, <1>r DEF Scope, Task, Range
  <2> QED
    BY <1>r, <2>1 DEF Record, MembersTyped
<1>p. task[t].page \in Seq(Claims) /\ task[t].at \in 0 .. Len(task[t].page)
  BY <1>0 DEF Good, Task
<1>1. CASE Fetch(t)
  <2> DEFINE scope == IF task[t].scope # NoScope THEN task[t].scope ELSE ActiveScope
             page == IF scope = NoScope THEN <<>>
                     ELSE SubSeq(Order[scope.head], 1,
                                 IF Limit(t) < Len(Order[scope.head])
                                 THEN Limit(t) ELSE Len(Order[scope.head]))
             r == [task[t] EXCEPT !.pc = "fetching", !.scope = scope, !.page = page]
  <2>1. scope \in MaybeScope
    BY <1>0, ActiveScopeTyped DEF Task
  <2>2. page \in Seq(Claims)
    <3>1. CASE scope = NoScope
      BY <3>1
    <3>2. CASE scope # NoScope
      <4>1. Order[scope.head] \in Seq(Claims)
        BY <2>1, <3>2, OrderFacts, ScopeKinds
      <4>2. Limit(t) \in Nat
        BY <1>0, BoundsAssumption DEF Limit, Task, FlagsTyped
      <4> QED
        BY <3>2, <4>1, <4>2, SubSeqProperties
    <3> QED
      BY <3>1, <3>2
  <2>3. task' = [task EXCEPT ![t] = r]
    BY <1>1 DEF Fetch
  <2> HIDE DEF scope, page
  <2>4. Good(r)
    <3>1. task[t].at = 0
      BY <1>0, <1>1 DEF Good, Fetch
    <3>2. r \in Task
      BY <1>0, <2>1, <2>2 DEF Task, PCs
    <3>3. r.pc = "fetching" /\ r.at = 0 /\ r.page = page
      BY <1>0, <3>1 DEF Task
    <3> QED
      BY <2>2, <3>2, <3>3 DEF Good, Scoped
  <2>5. TasksGood'
    BY <1>0, <2>3, <2>4, OneTask DEF TasksGood
  <2> QED
    BY <1>1, <2>5 DEF Fetch, status, tabs, scopes, MembersTyped, FlagsTyped, TabsTyped, ScopesTyped
<1>2. CASE FetchFails(t)
  BY <1>2, <1>e DEF FetchFails, tabs, scopes, MembersTyped, FlagsTyped, TabsTyped, ScopesTyped
<1>3. CASE FetchAnswers(t)
  <2>1. task[t].scope \in Scope
    BY <1>0, <1>3, ScopeKinds DEF FetchAnswers, Task
  <2>2. TasksGood'
    BY <1>0, <1>3, <1>b, <2>1 DEF FetchAnswers, Good, PCs
  <2> QED
    BY <1>3, <2>2 DEF FetchAnswers, tabs, scopes, MembersTyped, FlagsTyped, TabsTyped, ScopesTyped
<1>4. CASE MergeNodes(t)
  <2> DEFINE at == task[t].at + 1
             r == [task[t] EXCEPT !.pc = "nodes", !.at = at]
  <2>1. /\ at \in 1 .. Len(task[t].page) /\ at < Len(task[t].page) /\ at \in Nat
        /\ task[t].scope \in Scope
    BY <1>0, <1>p, <1>4 DEF MergeNodes, Good, Scoped
  <2>2. task' = [task EXCEPT ![t] = r]
    BY <1>4 DEF MergeNodes
  <2>3. {task[t].page[at]} \in SUBSET Claims
    BY <1>p, <2>1
  <2>4. Sound(union')
    BY <1>4, <2>3, AddNodesFacts DEF MergeNodes
  <2> HIDE DEF at
  <2>5. r \in Task
    BY <1>0, <2>1 DEF Task, PCs
  <2>6. r.pc = "nodes" /\ r.at = at /\ r.page = task[t].page /\ r.scope = task[t].scope
    BY <1>0 DEF Task
  <2>7. TasksGood'
    BY <1>0, <2>1, <2>2, <2>5, <2>6, OneTask DEF TasksGood, Good
  <2> QED
    BY <1>4, <2>4, <2>7 DEF MergeNodes, tabs, scopes, MembersTyped, FlagsTyped, TabsTyped, ScopesTyped
<1>5. CASE MergeTurns(t)
  <2>1. /\ task[t].scope \in Scope /\ task[t].page # <<>>
        /\ Len(task[t].page) \in 1 .. Len(task[t].page)
    BY <1>0, <1>p, <1>5 DEF MergeTurns, Good, Scoped
  <2>2. {Last(task[t].page)} \in SUBSET Claims /\ {Head(task[t].page)} \in SUBSET Claims
    BY <1>p, <2>1, HeadTailProperties DEF Last
  <2>3. Sound(union')
    BY <1>5, <2>2, AddNodesFacts, WalkFacts DEF MergeTurns
  <2>4. TasksGood' /\ MembersTyped'
    <3>1. CASE Len(task[t].page) > 1
      <4> DEFINE r == [task[t] EXCEPT !.pc = "edges", !.at = 1]
      <4>1. task' = [task EXCEPT ![t] = r] /\ UNCHANGED members
        BY <1>5, <3>1 DEF MergeTurns
      <4>2. r \in Task
        BY <1>0 DEF Task, PCs
      <4>3. r.pc = "edges" /\ r.at = 1 /\ r.page = task[t].page /\ r.scope = task[t].scope
        BY <1>0 DEF Task
      <4>4. Good(r)
        BY <1>p, <2>1, <3>1, <4>2, <4>3 DEF Good
      <4> QED
        BY <1>0, <4>1, <4>4, OneTask DEF TasksGood, MembersTyped
    <3>2. CASE ~(Len(task[t].page) > 1)
      <4>1. Becomes(t, "shape") /\ Record(t)
        BY <1>5, <3>2 DEF MergeTurns
      <4> QED
        BY <1>b, <1>r, <2>1, <4>1 DEF PCs, Scoped
    <3> QED
      BY <3>1, <3>2
  <2> QED
    BY <1>5, <2>3, <2>4 DEF MergeTurns, tabs, scopes, FlagsTyped, TabsTyped, ScopesTyped
<1>6. CASE MergeEdges(t)
  <2> DEFINE at == task[t].at + 1
  <2>1. at \in 1 .. Len(task[t].page) /\ at \in Nat /\ task[t].scope \in Scope
    BY <1>0, <1>p, <1>6 DEF MergeEdges, Good, Scoped
  <2>2. {task[t].page[at]} \in SUBSET Claims
    BY <1>p, <2>1
  <2>3. Sound(union')
    BY <1>6, <2>2, WalkFacts DEF MergeEdges
  <2>4. TasksGood' /\ MembersTyped'
    <3>1. CASE at < Len(task[t].page)
      <4> DEFINE r == [task[t] EXCEPT !.at = at]
      <4>1. task' = [task EXCEPT ![t] = r] /\ UNCHANGED members
        BY <1>6, <3>1 DEF MergeEdges
      <4> HIDE DEF at
      <4>2. r \in Task
        BY <1>0, <2>1 DEF Task
      <4>3. r.pc = "edges" /\ r.at = at /\ r.page = task[t].page /\ r.scope = task[t].scope
        BY <1>0, <1>6 DEF Task, MergeEdges
      <4>4. Good(r)
        BY <2>1, <3>1, <4>2, <4>3 DEF Good
      <4> QED
        BY <1>0, <4>1, <4>4, OneTask DEF TasksGood, MembersTyped
    <3>2. CASE ~(at < Len(task[t].page))
      <4>1. Becomes(t, "shape") /\ Record(t)
        BY <1>6, <3>2 DEF MergeEdges
      <4> QED
        BY <1>b, <1>r, <2>1, <4>1 DEF PCs, Scoped
    <3> QED
      BY <3>1, <3>2
  <2> QED
    BY <1>6, <2>3, <2>4 DEF MergeEdges, tabs, scopes, FlagsTyped, TabsTyped, ScopesTyped
<1>7. CASE Draw(t)
  <2>1. TasksGood'
    BY <1>b, <1>7 DEF Draw, PCs, Scoped
  <2>2. shown' \in BOOLEAN
    BY <1>7 DEF Draw
  <2> QED
    BY <1>7, <2>1, <2>2 DEF Draw, tabs, scopes, MembersTyped, FlagsTyped, TabsTyped, ScopesTyped
<1>8. CASE Frame(t)
  BY <1>8, <1>e DEF Frame, tabs, scopes, MembersTyped, FlagsTyped, TabsTyped, ScopesTyped
<1>9. CASE Measure(t)
  <2>1. TasksGood'
    BY <1>b, <1>9 DEF Measure, PCs, Scoped
  <2> QED
    BY <1>9, <2>1 DEF Measure, tabs, scopes, MembersTyped, FlagsTyped, TabsTyped, ScopesTyped
<1> QED
  BY <1>1, <1>2, <1>3, <1>4, <1>5, <1>6, <1>7, <1>8, <1>9

\* A task that starts to read or to ask for a scope.
LEMMA TaskTakes ==
    ASSUME NEW was \in [Tasks -> Task], \A u \in Tasks : Good(was[u]),
           NEW t \in Tasks, was[t].at = 0, NEW pc \in PCs \ {"edges"},
           NEW scope \in MaybeScope, pc \in Scoped => scope \in Scope, NEW max \in Nat
    PROVE  /\ Good([was[t] EXCEPT !.pc = pc, !.scope = scope, !.limit = max])
           /\ Good([was[t] EXCEPT !.pc = pc, !.scope = scope])
<1>1. /\ [was[t] EXCEPT !.pc = pc, !.scope = scope, !.limit = max] \in Task
      /\ [was[t] EXCEPT !.pc = pc, !.scope = scope] \in Task
  BY DEF Task
<1>2. was[t].at = 0 /\ was[t] \in Task
  OBVIOUS
<1> QED
  BY <1>1, <1>2 DEF Good, Task

\* What selecting a scope leaves.
LEMMA SelectTyped ==
    ASSUME Parts, NEW t \in Tasks, NEW scope \in MaybeScope,
           NEW pinned \in [Tasks -> Task], \A u \in Tasks : Good(pinned[u]),
           pinned[t].at = 0, Select(t, scope, pinned)
    PROVE  TasksGood' /\ TabsTyped' /\ busy' \in BOOLEAN /\ selected' = scope
<1> DEFINE onItsOwnClaim == ActiveScope.kind = "provenance"
           patched == IF Viewing /\ ~onItsOwnClaim
                      THEN [views EXCEPT ![active] = scope] ELSE views
<1>0. TabsTyped /\ busy \in BOOLEAN
  BY DEF Parts, FlagsTyped
<1>1. patched \in Seq(Tab) /\ Len(patched) = Len(views)
  BY <1>0, ExceptSeq DEF TabsTyped, Tab
<1>2. views' = patched /\ UNCHANGED active => TabsTyped'
  BY <1>0, <1>1 DEF TabsTyped
<1>3. selected' = scope
  BY DEF Select
<1> HIDE DEF patched, onItsOwnClaim
<1>4. CASE scope = NoScope \/ onItsOwnClaim
  <2>1. views' = patched /\ task' = pinned /\ UNCHANGED <<active, busy>>
    BY <1>4 DEF Select, patched, onItsOwnClaim
  <2> QED
    BY <1>0, <1>2, <1>3, <2>1 DEF TasksGood
<1>5. CASE ~(scope = NoScope \/ onItsOwnClaim)
  <2>0. scope \in Scope
    BY <1>5, ScopeKinds
  <2>1. CASE scope.head \notin DOMAIN members /\ union.nodes = {}
    <3>1. /\ EnsureView(FALSE, patched) /\ busy' = TRUE
          /\ task' = [pinned EXCEPT ![t].pc = "read", ![t].scope = scope]
      BY <1>5, <2>1 DEF Select, patched, onItsOwnClaim
    <3>2. Good([pinned[t] EXCEPT !.pc = "read", !.scope = scope])
      BY <2>0, TaskTakes DEF PCs
    <3>3. task' = [pinned EXCEPT ![t] = [pinned[t] EXCEPT !.pc = "read", !.scope = scope]]
      BY <3>1
    <3>4. TasksGood'
      BY <3>2, <3>3 DEF TasksGood, Good
    <3> QED
      BY <1>0, <1>1, <1>3, <3>1, <3>4, EnsureViewTyped
  <2>2. CASE ~(scope.head \notin DOMAIN members /\ union.nodes = {})
    <3>1. /\ views' = patched /\ busy' = TRUE /\ UNCHANGED active
          /\ task' = [pinned EXCEPT ![t].pc = "asking", ![t].scope = scope]
      BY <1>5, <2>2 DEF Select, patched, onItsOwnClaim
    <3>2. Good([pinned[t] EXCEPT !.pc = "asking", !.scope = scope])
      BY <2>0, TaskTakes DEF PCs
    <3>3. task' = [pinned EXCEPT ![t] = [pinned[t] EXCEPT !.pc = "asking", !.scope = scope]]
      BY <3>1
    <3>4. TasksGood'
      BY <3>2, <3>3 DEF TasksGood, Good
    <3> QED
      BY <1>2, <1>3, <3>1, <3>4
  <2> QED
    BY <2>1, <2>2
<1> QED
  BY <1>4, <1>5

\* What a task scoped by a claim asks for is a closure.
LEMMA ScopedTask ==
    ASSUME Parts, NEW t \in Tasks, task[t].pc \in Scoped
    PROVE  /\ task[t].scope \in Scope /\ task[t].scope \in MaybeScope
           /\ task[t].scope.head \in Claims
           /\ Closure(task[t].scope.head) \in SUBSET Claims
<1>1. task[t].scope \in Scope
  BY DEF Parts, TasksGood, Good
<1>2. task[t].scope.head \in Claims
  BY <1>1 DEF Scope
<1> QED
  BY <1>1, <1>2, OrderFacts, ScopeKinds

\* The steps of selectScope, discoverScopes and openClaimProvenance.
LEMMA OtherStepsTyped ==
    ASSUME Parts, NEW t \in Tasks,
           \/ IdsFail(t) \/ IdsAnswer(t) \/ DiscoverFails(t) \/ DiscoverAnswers(t)
           \/ ClosureFails(t) \/ ClosureAnswers(t) \/ LoadMore(t) \/ Fill(t)
    PROVE  Parts'
<1> USE DEF Parts
<1>0. /\ Good(task[t]) /\ task[t] \in Task /\ task \in [Tasks -> Task] /\ source \in Sources
      /\ \A u \in Tasks : Good(task[u])
  BY DEF TasksGood, ScopesTyped
<1>s. task[t].pc \in {"asking", "closure", "placing", "filling"} =>
        task[t].pc \in Scoped /\ task[t].at = 0
  BY <1>0 DEF Scoped, Good
<1>m. ASSUME NEW h \in Claims, NEW ids \in SUBSET Claims, SetMembers(h, ids)
      PROVE  MembersTyped'
  BY <1>m DEF SetMembers, MembersTyped
<1>1. CASE IdsFail(t)
  BY <1>1, TaskEnds DEF IdsFail, tabs, scopes, MembersTyped, FlagsTyped, TabsTyped, ScopesTyped
<1>2. CASE IdsAnswer(t)
  <2> DEFINE h == task[t].scope.head
  <2>1. /\ h \in Claims /\ Closure(h) \in SUBSET Claims
        /\ task[t].scope \in Scope /\ task[t].scope \in MaybeScope
    BY <1>2, <1>s, ScopedTask DEF IdsAnswer
  <2>2. MembersTyped' /\ UNCHANGED <<selected, union, shown, limit, source, listing, starts>>
    BY <1>2, <1>m, <2>1 DEF IdsAnswer
  <2>3. CASE Missing(union, Closure(h)) # {}
    <3>1. Load(t, task[t].scope, Cardinality(Closure(h)), FALSE, views)
      BY <1>2, <2>3 DEF IdsAnswer
    <3>2. busy' = TRUE
      BY <3>1 DEF Load
    <3>3. TabsTyped'
      BY <2>2, <3>1, EnsureViewTyped DEF Load, TabsTyped, ScopesTyped
    <3>4. Cardinality(Closure(h)) \in Nat
      <4>1. Order[h] \in Seq(Claims)
        BY <2>1, OrderFacts
      <4>2. IsFiniteSet(Closure(h))
        BY <4>1, RangeFinite DEF Closure
      <4> QED
        BY <4>2, FS_CardinalityType
    <3>5. TasksGood'
      <4> DEFINE max == Cardinality(Closure(h))
                 r == [task[t] EXCEPT !.pc = "read", !.scope = task[t].scope, !.limit = max]
      <4>1. task' = [task EXCEPT ![t] = r]
        BY <3>1 DEF Load
      <4>2. Good(r)
        BY <1>0, <1>2, <1>s, <2>1, <3>4, TaskTakes DEF PCs, IdsAnswer
      <4> QED
        BY <1>0, <4>1, <4>2, OneTask DEF TasksGood
    <3> QED
      BY <2>2, <3>2, <3>3, <3>5 DEF FlagsTyped, ScopesTyped
  <2>4. CASE ~(Missing(union, Closure(h)) # {})
    <3>1. busy' = FALSE /\ Ends(t) /\ UNCHANGED tabs
      BY <1>2, <2>4 DEF IdsAnswer
    <3> QED
      BY <2>2, <3>1, TaskEnds DEF tabs, FlagsTyped, TabsTyped, ScopesTyped
  <2> QED
    BY <2>3, <2>4
<1>3. CASE DiscoverFails(t)
  BY <1>3, TaskEnds, ScopeKinds
  DEF DiscoverFails, Nothing, status, tabs, MembersTyped, FlagsTyped, TabsTyped, ScopesTyped, Listing
<1>4. CASE DiscoverAnswers(t)
  <2> DEFINE heads == Heads[task[t].from]
  <2>1. heads \in SUBSET Claims /\ Table[task[t].from] \in Claims
    BY <1>0, SourcesAssumption DEF Task
  <2>2. PICK listed \in Listings(task[t].from) :
          /\ listing' = [state |-> "ready", scopes |-> listed]
          /\ IF Cardinality(heads) = 1
             THEN \E h \in heads : Select(t, Branch(h), [task EXCEPT ![t] = Idle(source)])
             ELSE /\ selected' = IF selected \in listed THEN selected ELSE NoScope
                  /\ Ends(t)
                  /\ UNCHANGED <<tabs, busy>>
    BY <1>4 DEF DiscoverAnswers
  <2>3. UNCHANGED <<union, members, shown, limit, source, starts>>
    BY <1>4 DEF DiscoverAnswers
  <2>6. listed \in SUBSET Scope
    BY <2>1, ScopeKinds DEF Listings
  <2>7. listing' \in Listing
    BY <2>2, <2>6 DEF Listing
  <2>4. CASE Cardinality(heads) = 1
    <3>1. PICK h \in heads : Select(t, Branch(h), [task EXCEPT ![t] = Idle(source)])
      BY <2>2, <2>4
    <3> DEFINE pinned == [task EXCEPT ![t] = Idle(source)]
    <3>2. pinned \in [Tasks -> Task] /\ (\A u \in Tasks : Good(pinned[u])) /\ pinned[t].at = 0
      BY <1>0, IdleGood DEF Good, Idle
    <3>3. Branch(h) \in MaybeScope
      BY <2>1, ScopeKinds
    <3> HIDE DEF pinned
    <3>4. TasksGood' /\ TabsTyped' /\ busy' \in BOOLEAN /\ selected' = Branch(h)
      BY <3>1, <3>2, <3>3, SelectTyped DEF pinned
    <3> QED
      BY <2>3, <2>7, <3>3, <3>4 DEF MembersTyped, FlagsTyped, ScopesTyped
  <2>5. CASE ~(Cardinality(heads) = 1)
    <3>1. /\ selected' = IF selected \in listed THEN selected ELSE NoScope
          /\ Ends(t) /\ UNCHANGED <<tabs, busy>>
      BY <2>2, <2>5
    <3>2. selected' \in MaybeScope
      BY <3>1, ScopeKinds DEF ScopesTyped
    <3> QED
      BY <2>3, <2>7, <3>1, <3>2, TaskEnds
      DEF tabs, MembersTyped, FlagsTyped, TabsTyped, ScopesTyped
  <2> QED
    BY <2>4, <2>5
<1>5. CASE ClosureFails(t)
  BY <1>5, TaskEnds
  DEF ClosureFails, status, tabs, scopes, MembersTyped, FlagsTyped, TabsTyped, ScopesTyped
<1>6. CASE ClosureAnswers(t)
  <2>1. /\ task[t].scope \in Scope /\ task[t].scope.head \in Claims /\ task[t].at = 0
        /\ Closure(task[t].scope.head) \in SUBSET Claims
    BY <1>6, <1>s, ScopedTask DEF ClosureAnswers
  <2>2. MembersTyped'
    BY <1>6, <1>m, <2>1 DEF ClosureAnswers
  <2>3. TasksGood'
    BY <1>6, <2>1, TaskBecomes DEF ClosureAnswers, PCs
  <2> QED
    BY <1>6, <2>2, <2>3 DEF ClosureAnswers, tabs, scopes, FlagsTyped, TabsTyped, ScopesTyped
<1>7. CASE LoadMore(t)
  <2> DEFINE lacks == Missing(union, Closure(task[t].scope.head))
             r == [task[t] EXCEPT !.pc = "filling", !.lacks = lacks]
  <2>1. task[t].scope \in Scope /\ lacks \in SUBSET Claims /\ task[t].at = 0
    BY <1>7, <1>s, ScopedTask DEF LoadMore, Missing
  <2>2. TasksGood'
    <3>1. CASE lacks = {}
      BY <1>7, <3>1, TaskEnds DEF LoadMore
    <3>2. CASE lacks # {}
      <4>1. task' = [task EXCEPT ![t] = r]
        BY <1>7, <3>2 DEF LoadMore
      <4> HIDE DEF lacks
      <4>2. r \in Task
        BY <1>0, <2>1 DEF Task, PCs
      <4>3. r.pc = "filling" /\ r.at = 0 /\ r.page = task[t].page /\ r.scope = task[t].scope
        BY <1>0, <2>1 DEF Task
      <4>4. Good(r)
        BY <1>0, <2>1, <4>2, <4>3 DEF Good
      <4> QED
        BY <1>0, <4>1, <4>4, OneTask DEF TasksGood
    <3> QED
      BY <3>1, <3>2
  <2>3. busy' \in BOOLEAN
    BY <1>7 DEF LoadMore
  <2> QED
    BY <1>7, <2>2, <2>3
    DEF LoadMore, tabs, scopes, MembersTyped, FlagsTyped, TabsTyped, ScopesTyped
<1>8. CASE Fill(t)
  <2>1. PICK C \in ReadMissing(task[t].lacks, Closure(task[t].scope.head)) :
          union' = MergeMore(union, C) /\ shown' = (union'.nodes # {})
    BY <1>8 DEF Fill
  <2>2. C \in SUBSET Claims
    <3>1. task[t].lacks \in SUBSET Claims
      BY <1>0 DEF Task
    <3>2. Closure(task[t].scope.head) \in SUBSET Claims
      BY <1>8, <1>s, ScopedTask DEF Fill
    <3> QED
      BY <3>1, <3>2 DEF ReadMissing
  <2>3. Sound(union')
    BY <2>1, <2>2, AddNodesFacts, WalkFacts DEF MergeMore
  <2> QED
    BY <1>8, <2>1, <2>3, TaskEnds
    DEF Fill, tabs, scopes, MembersTyped, FlagsTyped, TabsTyped, ScopesTyped
<1> QED
  BY <1>1, <1>2, <1>3, <1>4, <1>5, <1>6, <1>7, <1>8

\* What a reader starts, and what a reader does at once.
LEMMA ReaderTyped ==
    ASSUME Parts, Reader
    PROVE  Parts'
<1> USE DEF Parts
<1>0. /\ task \in [Tasks -> Task] /\ \A u \in Tasks : Good(task[u])
      /\ source \in Sources /\ listing \in Listing /\ views \in Seq(Tab)
  BY DEF TasksGood, ScopesTyped, TabsTyped
<1>s. ASSUME NEW t \in Tasks, Starts(t)
      PROVE  /\ task[t].pc = "idle" /\ task[t].at = 0 /\ starts' \in 0 .. MaxStarts
             /\ Good(task[t]) /\ task[t] \in Task
  BY <1>0, <1>s, BoundsAssumption DEF Starts, Counted, FlagsTyped, Good
<1>1. ASSUME NEW t \in Tasks, NEW asNew \in BOOLEAN, Run(t, asNew) PROVE Parts'
  <2>1. Starts(t) /\ Load(t, NoScope, 0, asNew, views) /\ UNCHANGED selected
        /\ UNCHANGED <<union, members, shown, limit, source, listing>>
    BY <1>1 DEF Run
  <2>2. TabsTyped'
    BY <1>0, <2>1, EnsureViewTyped DEF Load, ScopesTyped
  <2>3. TasksGood'
    <3> DEFINE r == [task[t] EXCEPT !.pc = "read", !.scope = NoScope, !.limit = 0]
    <3>1. task' = [task EXCEPT ![t] = r]
      BY <2>1 DEF Load
    <3>2. Good(r)
      BY <1>0, <1>s, <2>1, TaskTakes, ScopeKinds DEF PCs, Scoped
    <3> QED
      BY <1>0, <3>1, <3>2, OneTask DEF TasksGood
  <2> QED
    BY <1>s, <2>1, <2>2, <2>3 DEF Load, MembersTyped, FlagsTyped, ScopesTyped
<1>2. ASSUME NEW t \in Tasks, NEW scope \in MaybeScope, SelectScope(t, scope) PROVE Parts'
  <2>1. Starts(t) /\ Select(t, scope, task)
        /\ UNCHANGED <<union, members, shown, limit, source, listing>>
    BY <1>2 DEF SelectScope
  <2>2. TasksGood' /\ TabsTyped' /\ busy' \in BOOLEAN /\ selected' = scope
    BY <1>0, <1>s, <2>1, SelectTyped
  <2> QED
    BY <1>s, <2>1, <2>2 DEF MembersTyped, FlagsTyped, ScopesTyped
<1>3. ASSUME NEW t \in Tasks, NEW s \in Sources, Activate(t, s) PROVE Parts'
  <2> DEFINE r == [task[t] EXCEPT !.pc = "listing", !.from = s]
  <2>1. Starts(t) /\ source' = s /\ listing' = [state |-> "loading", scopes |-> {}]
        /\ task' = [task EXCEPT ![t] = r]
        /\ UNCHANGED <<union, members, status, limit, tabs, selected>>
    BY <1>3 DEF Activate, Discover, Nothing
  <2>2. r \in Task /\ r.pc = "listing" /\ r.at = 0 /\ r.page = task[t].page
    BY <1>s, <2>1 DEF Task, PCs
  <2>3. Good(r)
    BY <1>s, <2>1, <2>2 DEF Good, Scoped
  <2>4. TasksGood'
    BY <1>0, <2>1, <2>3, OneTask DEF TasksGood
  <2>5. listing' \in Listing
    BY <2>1 DEF Listing
  <2> QED
    BY <1>s, <2>1, <2>4, <2>5 DEF status, tabs, MembersTyped, FlagsTyped, TabsTyped, ScopesTyped
<1>4. ASSUME NEW t \in Tasks, NEW c \in Claims, OpenProvenance(t, c) PROVE Parts'
  <2>1. Starts(t) /\ UNCHANGED <<union, members, status, limit, scopes>>
    BY <1>4 DEF OpenProvenance
  <2>2. TabsTyped' /\ TasksGood'
    <3>1. CASE \E i \in DOMAIN views : views[i] = Provenance(c)
      <4>1. active' \in DOMAIN views /\ UNCHANGED <<views, task>>
        BY <1>4, <3>1 DEF OpenProvenance
      <4> QED
        BY <1>0, <4>1 DEF TabsTyped, TasksGood
    <3>2. CASE ~(\E i \in DOMAIN views : views[i] = Provenance(c))
      <4> DEFINE r == [task[t] EXCEPT !.pc = "closure", !.scope = Provenance(c)]
      <4>1. /\ views' = Append(views, Provenance(c)) /\ active' = Len(views) + 1
            /\ task' = [task EXCEPT ![t] = r]
        BY <1>4, <3>2 DEF OpenProvenance
      <4>2. Provenance(c) \in Scope /\ Provenance(c) \in MaybeScope
        BY ScopeKinds
      <4>3. Good(r)
        BY <1>0, <1>s, <2>1, <4>2, TaskTakes DEF PCs
      <4>4. views' \in Seq(Tab) /\ Len(views') = Len(views) + 1
        BY <1>0, <4>1, <4>2, ScopeKinds, AppendProperties
      <4>5. TasksGood'
        BY <1>0, <4>1, <4>3, OneTask DEF TasksGood
      <4>6. TabsTyped'
        BY <4>1, <4>4 DEF TabsTyped
      <4> QED
        BY <4>5, <4>6
    <3> QED
      BY <3>1, <3>2
  <2> QED
    BY <1>s, <2>1, <2>2 DEF status, scopes, MembersTyped, FlagsTyped, ScopesTyped
<1>5. ASSUME NEW t \in Tasks, Relayout(t) PROVE Parts'
  <2>1. TasksGood'
    BY <1>5, <1>s, TaskBecomes DEF Relayout, PCs, Scoped
  <2> QED
    BY <1>5, <1>s, <2>1 DEF Relayout, tabs, scopes, MembersTyped, FlagsTyped, TabsTyped, ScopesTyped
<1>6. CASE ClearSession
  <2>1. Sound(union')
    BY <1>6 DEF ClearSession, EmptyUnion, Sound, Union
  <2> QED
    BY <1>6, <2>1
    DEF ClearSession, tabs, scopes, MembersTyped, FlagsTyped, TabsTyped, ScopesTyped, TasksGood
<1>7. ASSUME NEW n \in Limits, SetLimit(n) PROVE Parts'
  BY <1>7
  DEF SetLimit, status, tabs, scopes, MembersTyped, FlagsTyped, TabsTyped, ScopesTyped, TasksGood
<1>8. ASSUME NEW i \in DOMAIN views, ActivateTab(i) PROVE Parts'
  BY <1>0, <1>8
  DEF ActivateTab, status, scopes, MembersTyped, FlagsTyped, TabsTyped, ScopesTyped, TasksGood
<1>9. ASSUME NEW i \in DOMAIN views, CloseTab(i) PROVE Parts'
  <2>0. PICK j \in 1 .. Len(views) : j # i
    BY <1>0, <1>9 DEF CloseTab, GraphTabs
  <2>1. /\ i \in 1 .. Len(views) /\ Len(views) > 1
        /\ views' = SubSeq(views, 1, i - 1) \o SubSeq(views, i + 1, Len(views))
    BY <1>0, <1>9, <2>0 DEF CloseTab, RemoveAt
  <2>2. /\ SubSeq(views, 1, i - 1) \in Seq(Tab) /\ Len(SubSeq(views, 1, i - 1)) = i - 1
        /\ SubSeq(views, i + 1, Len(views)) \in Seq(Tab)
        /\ Len(SubSeq(views, i + 1, Len(views))) = Len(views) - i
    BY <1>0, <2>1, SubSeqProperties
  <2>3. views' \in Seq(Tab) /\ Len(views') = Len(views) - 1
    <3> DEFINE before == SubSeq(views, 1, i - 1)
               after == SubSeq(views, i + 1, Len(views))
    <3>1. /\ before \in Seq(Tab) /\ Len(before) = i - 1
          /\ after \in Seq(Tab) /\ Len(after) = Len(views) - i
          /\ views' = before \o after
      BY <2>1, <2>2
    <3> HIDE DEF before, after
    <3>2. before \o after \in Seq(Tab) /\ Len(before \o after) = Len(before) + Len(after)
      BY <3>1, ConcatProperties
    <3>3. Len(views) \in Nat /\ i \in Nat
      BY <1>0, <2>1
    <3>4. (i - 1) + (Len(views) - i) = Len(views) - 1
      BY <3>3
    <3> QED
      BY <3>1, <3>2, <3>4
  <2>4. active \in 1 .. Len(views)
    BY <1>0, <2>1 DEF TabsTyped
  <2>5. active' \in 1 .. Len(views')
    <3>1. active' = IF i = active THEN Len(views) - 1
                    ELSE IF i < active THEN active - 1 ELSE active
      BY <1>9 DEF CloseTab
    <3> DEFINE n == Len(views)
    <3>2. n \in Nat /\ n > 1 /\ i \in 1 .. n /\ active \in 1 .. n /\ Len(views') = n - 1
      BY <1>0, <2>1, <2>3, <2>4
    <3>3. active' = IF i = active THEN n - 1 ELSE IF i < active THEN active - 1 ELSE active
      BY <3>1
    <3> HIDE DEF n
    <3> QED
      BY <3>2, <3>3
  <2>6. TabsTyped'
    BY <2>3, <2>5 DEF TabsTyped
  <2> QED
    BY <1>9, <2>6 DEF CloseTab, status, scopes, MembersTyped, FlagsTyped, ScopesTyped, TasksGood
<1>10. ASSUME NEW c \in Claims, OpenCbor(c) PROVE Parts'
  <2>1. /\ UNCHANGED <<union, members, status, limit, scopes, task>>
        /\ starts' \in 0 .. MaxStarts
    BY <1>10, BoundsAssumption DEF OpenCbor, Counted, FlagsTyped
  <2>2. CASE \E i \in DOMAIN views : views[i] = Cbor(c)
    <3>1. active' \in DOMAIN views /\ UNCHANGED views
      BY <1>10, <2>2 DEF OpenCbor
    <3> QED
      BY <1>0, <2>1, <3>1
      DEF status, scopes, MembersTyped, FlagsTyped, TabsTyped, ScopesTyped, TasksGood
  <2>3. CASE ~(\E i \in DOMAIN views : views[i] = Cbor(c))
    <3>1. views' = Append(views, Cbor(c)) /\ active' = Len(views) + 1
      BY <1>10, <2>3 DEF OpenCbor
    <3>2. views' \in Seq(Tab) /\ Len(views') = Len(views) + 1
      BY <1>0, <3>1, ScopeKinds, AppendProperties
    <3>3. TabsTyped'
      BY <3>1, <3>2 DEF TabsTyped
    <3> QED
      BY <2>1, <3>3 DEF status, scopes, MembersTyped, FlagsTyped, ScopesTyped, TasksGood
  <2> QED
    BY <2>2, <2>3
<1> QED
  BY <1>1, <1>2, <1>3, <1>4, <1>5, <1>6, <1>7, <1>8, <1>9, <1>10 DEF Reader

\* Every step keeps the types.
LEMMA TypeStep ==
    ASSUME TypeOK, TasksCarry, [Next]_vars
    PROVE  TypeOK' /\ TasksCarry'
<1> SUFFICES Parts'
  BY PartsAreTypesNext
<1>1. Parts
  BY PartsAreTypes
<1>2. ASSUME NEW t \in Tasks, Step(t) PROVE Parts'
  BY <1>1, <1>2, LoadTyped, OtherStepsTyped DEF Step
<1>3. ASSUME NEW t \in Tasks, Progress(t) PROVE Parts'
  BY <1>1, <1>3
  DEF Progress, tabs, scopes, Parts, MembersTyped, FlagsTyped, TabsTyped, ScopesTyped, TasksGood
<1>4. CASE UNCHANGED vars
  BY <1>1, <1>4
  DEF vars, status, tabs, scopes, Parts, MembersTyped, FlagsTyped, TabsTyped, ScopesTyped, TasksGood
<1>5. CASE Reader
  BY <1>1, <1>5, ReaderTyped
<1> QED
  BY <1>2, <1>3, <1>4, <1>5 DEF Next

-----------------------------------------------------------------------------
(* References are drawn.                                                   *)

Walked == union.nodes \ UNION {ToWalk(t) : t \in Tasks}

LEMMA DrawnWhenReadIs == DrawnWhenRead <=> Drawn(union, Walked)
  BY DEF DrawnWhenRead, Drawn, Walked

LEMMA DrawnWhenReadNext == DrawnWhenRead' <=> Drawn(union', Walked')
  BY DEF DrawnWhenRead, Drawn, Walked

LEMMA DrawnSubset ==
    ASSUME NEW g, NEW W, Drawn(g, W), NEW V \in SUBSET W
    PROVE  Drawn(g, V)
  BY DEF Drawn

\* A step that leaves the graph alone, and no task with less to walk.
LEMMA QuietDraws ==
    ASSUME DrawnWhenRead, union' = union,
           \A u \in Tasks : task[u].pc \in {"merging", "nodes", "edges"} => task'[u] = task[u]
    PROVE  DrawnWhenRead'
<1>1. \A u \in Tasks : ToWalk(u) \subseteq ToWalk(u)'
  BY DEF ToWalk
<1>2. Walked' \subseteq Walked
  BY <1>1 DEF Walked
<1> QED
  BY <1>2, DrawnWhenReadIs, DrawnWhenReadNext, DrawnSubset

\* A batch of claims or of references, of one task.
LEMMA MergeDraws ==
    ASSUME Parts, DrawnWhenRead, NEW t \in Tasks,
           MergeNodes(t) \/ MergeTurns(t) \/ MergeEdges(t)
    PROVE  DrawnWhenRead'
<1> DEFINE page == task[t].page
<1>0. /\ Sound(union) /\ Drawn(union, Walked) /\ task \in [Tasks -> Task]
      /\ Walked \in SUBSET union.nodes
      /\ page \in Seq(Claims) /\ task[t].at \in 0 .. Len(page) /\ Len(page) \in Nat
  BY DrawnWhenReadIs DEF Parts, TasksGood, Good, Task, Walked
<1>1. \A u \in Tasks \ {t} : task'[u] = task[u]
  BY <1>0 DEF MergeNodes, MergeTurns, MergeEdges, Becomes
<1>2. \A u \in Tasks \ {t} : ToWalk(u)' = ToWalk(u)
  BY <1>1 DEF ToWalk
<1>3. CASE MergeNodes(t)
  <2> DEFINE at == task[t].at + 1
  <2>1. /\ at \in 1 .. Len(page) /\ union' = AddNodes(union, {page[at]})
        /\ task[t].pc \in {"merging", "nodes"} /\ task'[t].pc = "nodes"
        /\ task'[t].page = page
    BY <1>0, <1>3 DEF MergeNodes, Task
  <2>2. page[at] \in Range(page) /\ page[at] \in Claims
    BY <1>0, <2>1 DEF Range
  <2>3. ToWalk(t) = Range(page) /\ ToWalk(t)' = Range(page)
    BY <2>1 DEF ToWalk
  <2>4. /\ union'.nodes = union.nodes \cup {page[at]}
        /\ union'.edges = union.edges /\ union'.held = union.held
    BY <1>0, <2>1, <2>2, AddNodesFacts
  <2>5. Walked' \subseteq Walked
    BY <1>2, <2>2, <2>3, <2>4 DEF Walked
  <2> QED
    BY <1>0, <2>4, <2>5, DrawnWhenReadNext DEF Drawn
<1>4. CASE MergeTurns(t)
  <2> DEFINE x == Head(page)
             l == Last(page)
             g == AddNodes(union, {l})
  <2>0. page # <<>> /\ Len(page) \in 1 .. Len(page) /\ task[t].pc \in {"merging", "nodes"}
    BY <1>0, <1>4 DEF MergeTurns
  <2>1. x \in Claims /\ l \in Claims /\ x = page[1] /\ l \in Range(page)
    BY <1>0, <2>0, HeadTailProperties DEF Last, Range
  <2>2. /\ Sound(g) /\ g.nodes = union.nodes \cup {l}
        /\ g.edges = union.edges /\ g.held = union.held
    BY <1>0, <2>1, AddNodesFacts
  <2>3. union' = Walk(g, {x})
    BY <1>4 DEF MergeTurns
  <2> HIDE DEF g, l
  <2>4. Drawn(g, Walked) /\ Walked \in SUBSET g.nodes
    BY <1>0, <2>2 DEF Drawn
  <2>5. Drawn(union', Walked \cup {x})
    BY <2>1, <2>2, <2>3, <2>4, WalkDraws, RefsAssumption
  <2>6. union'.nodes \subseteq g.nodes \cup {x}
    BY <2>1, <2>2, <2>3, WalkFacts
  <2>7. ToWalk(t) = Range(page)
    BY <2>0 DEF ToWalk
  <2>8. Range(page) \ {x} \subseteq ToWalk(t)'
    <3>1. CASE Len(page) > 1
      <4>1. task'[t].pc = "edges" /\ task'[t].at = 1 /\ task'[t].page = page
        BY <1>0, <1>4, <3>1 DEF MergeTurns, Task
      <4>2. ToWalk(t)' = {page[i] : i \in 1 + 1 .. Len(page)}
        BY <4>1 DEF ToWalk
      <4> QED
        BY <1>0, <2>1, <4>2 DEF Range
    <3>2. CASE ~(Len(page) > 1)
      BY <1>0, <2>0, <2>1, <3>2 DEF Range
    <3> QED
      BY <3>1, <3>2
  <2>9. Walked' \subseteq Walked \cup {x}
    BY <1>2, <2>1, <2>2, <2>6, <2>7, <2>8 DEF Walked
  <2> QED
    BY <2>5, <2>9, DrawnSubset, DrawnWhenReadNext
<1>5. CASE MergeEdges(t)
  <2> DEFINE at == task[t].at + 1
             x == page[at]
  <2>1. /\ at \in 1 .. Len(page) /\ at \in Nat /\ union' = Walk(union, {x})
        /\ task[t].pc = "edges"
    BY <1>0, <1>5 DEF MergeEdges, Parts, TasksGood, Good
  <2>2. x \in Claims
    BY <1>0, <2>1
  <2>3. Drawn(union', Walked \cup {x}) /\ union'.nodes \subseteq union.nodes \cup {x}
    BY <1>0, <2>1, <2>2, WalkDraws, WalkFacts, RefsAssumption
  <2>4. ToWalk(t) = {page[i] : i \in at .. Len(page)}
    BY <2>1 DEF ToWalk
  <2>5. ToWalk(t) \ {x} \subseteq ToWalk(t)'
    <3>1. CASE at < Len(page)
      <4>1. task'[t].pc = "edges" /\ task'[t].at = at /\ task'[t].page = page
        BY <1>0, <1>5, <3>1 DEF MergeEdges, Task
      <4>2. ToWalk(t)' = {page[i] : i \in at + 1 .. Len(page)}
        BY <4>1 DEF ToWalk
      <4> QED
        BY <1>0, <2>1, <2>4, <4>2
    <3>2. CASE ~(at < Len(page))
      BY <1>0, <2>1, <2>4, <3>2
    <3> QED
      BY <3>1, <3>2
  <2>6. Walked' \subseteq Walked \cup {x}
    BY <1>2, <2>3, <2>5 DEF Walked
  <2> QED
    BY <2>3, <2>6, DrawnSubset, DrawnWhenReadNext
<1> QED
  BY <1>3, <1>4, <1>5

\* What was missing of a closure, merged in one go.
LEMMA FillDraws ==
    ASSUME Parts, DrawnWhenRead, NEW t \in Tasks, Fill(t)
    PROVE  DrawnWhenRead'
<1>0. /\ Sound(union) /\ Drawn(union, Walked) /\ task \in [Tasks -> Task]
      /\ Walked \in SUBSET union.nodes
  BY DrawnWhenReadIs DEF Parts, TasksGood, Walked
<1>1. PICK C \in ReadMissing(task[t].lacks, Closure(task[t].scope.head)) :
        union' = MergeMore(union, C)
  BY DEF Fill
<1>2. C \in SUBSET Claims
  <2>1. task[t].lacks \in SUBSET Claims
    BY <1>0 DEF Task
  <2>2. Closure(task[t].scope.head) \in SUBSET Claims
    BY ScopedTask DEF Fill, Scoped
  <2> QED
    BY <2>1, <2>2 DEF ReadMissing
<1> DEFINE g == AddNodes(union, C)
<1>3. /\ Sound(g) /\ g.nodes = union.nodes \cup C
      /\ g.edges = union.edges /\ g.held = union.held
  BY <1>0, <1>2, AddNodesFacts
<1>4. union' = Walk(g, C)
  BY <1>1 DEF MergeMore
<1> HIDE DEF g
<1>5. Drawn(g, Walked) /\ Walked \in SUBSET g.nodes
  BY <1>0, <1>3 DEF Drawn
<1>6. Drawn(union', Walked \cup C) /\ union'.nodes \subseteq union.nodes \cup C
  BY <1>2, <1>3, <1>4, <1>5, WalkDraws, WalkFacts
<1>7. \A u \in Tasks : ToWalk(u) \subseteq ToWalk(u)'
  <2>1. \A u \in Tasks \ {t} : task'[u] = task[u]
    BY <1>0 DEF Fill, Ends
  <2>2. ToWalk(t) = {}
    BY DEF Fill, ToWalk
  <2>3. \A u \in Tasks \ {t} : ToWalk(u)' = ToWalk(u)
    BY <2>1 DEF ToWalk
  <2> QED
    BY <2>2, <2>3
<1>8. Walked' \subseteq Walked \cup C
  BY <1>6, <1>7 DEF Walked
<1> QED
  BY <1>6, <1>8, DrawnSubset, DrawnWhenReadNext

\* Every step keeps the references of what was walked drawn.
LEMMA DrawnStep ==
    ASSUME Parts, DrawnWhenRead, [Next]_vars
    PROVE  DrawnWhenRead'
<1>0. task \in [Tasks -> Task]
  BY DEF Parts, TasksGood
<1>1. ASSUME NEW t \in Tasks, Fetch(t) \/ FetchFails(t) \/ FetchAnswers(t)
                              \/ Measure(t) \/ Draw(t) \/ Frame(t)
      PROVE  DrawnWhenRead'
  <2>1. union' = union /\ \A u \in Tasks \ {t} : task'[u] = task[u]
    BY <1>0, <1>1 DEF Fetch, FetchFails, FetchAnswers, Measure, Draw, Frame, Ends, Becomes
  <2>2. task[t].pc \notin {"merging", "nodes", "edges"}
    BY <1>1 DEF Fetch, FetchFails, FetchAnswers, Measure, Draw, Frame
  <2> QED
    BY <2>1, <2>2, QuietDraws
<1>2. ASSUME NEW t \in Tasks, IdsFail(t) \/ IdsAnswer(t) \/ DiscoverFails(t) \/ DiscoverAnswers(t)
      PROVE  DrawnWhenRead'
  <2>1. union' = union /\ \A u \in Tasks \ {t} : task'[u] = task[u]
    BY <1>0, <1>2 DEF IdsFail, IdsAnswer, DiscoverFails, DiscoverAnswers, Ends, Load, Select
  <2>2. task[t].pc \notin {"merging", "nodes", "edges"}
    BY <1>2 DEF IdsFail, IdsAnswer, DiscoverFails, DiscoverAnswers
  <2> QED
    BY <2>1, <2>2, QuietDraws
<1>3. ASSUME NEW t \in Tasks, ClosureFails(t) \/ ClosureAnswers(t) \/ LoadMore(t)
      PROVE  DrawnWhenRead'
  <2>1. union' = union /\ \A u \in Tasks \ {t} : task'[u] = task[u]
    BY <1>0, <1>3 DEF ClosureFails, ClosureAnswers, LoadMore, Ends, Becomes
  <2>2. task[t].pc \notin {"merging", "nodes", "edges"}
    BY <1>3 DEF ClosureFails, ClosureAnswers, LoadMore
  <2> QED
    BY <2>1, <2>2, QuietDraws
<1>4. ASSUME NEW t \in Tasks, Step(t) PROVE DrawnWhenRead'
  BY <1>1, <1>2, <1>3, <1>4, MergeDraws, FillDraws DEF Step
<1>5. ASSUME NEW t \in Tasks,
             \/ \E asNew \in BOOLEAN : Run(t, asNew)
             \/ \E scope \in MaybeScope : SelectScope(t, scope)
             \/ \E s \in Sources : Activate(t, s)
             \/ \E c \in Claims : OpenProvenance(t, c)
             \/ Relayout(t)
      PROVE  DrawnWhenRead'
  <2>1. union' = union /\ \A u \in Tasks \ {t} : task'[u] = task[u]
    BY <1>0, <1>5
    DEF Run, SelectScope, Activate, OpenProvenance, Relayout, Load, Select, Discover, Becomes
  <2>2. task[t].pc = "idle"
    BY <1>5 DEF Run, SelectScope, Activate, OpenProvenance, Relayout, Starts
  <2> QED
    BY <2>1, <2>2, QuietDraws
<1>6. CASE ClearSession
  <2>1. Walked' = {} /\ union'.edges = {} /\ union'.held = {}
    BY <1>6 DEF ClearSession, EmptyUnion, Walked
  <2> QED
    BY <2>1, DrawnWhenReadNext DEF Drawn
<1>7. ASSUME UNCHANGED <<union, task>> PROVE DrawnWhenRead'
  BY <1>7, QuietDraws
<1>8. CASE Reader
  BY <1>5, <1>6, <1>7, <1>8 DEF Reader, OpenCbor, SetLimit, ActivateTab, CloseTab
<1>9. ASSUME NEW t \in Tasks, Progress(t) PROVE DrawnWhenRead'
  BY <1>7, <1>9 DEF Progress
<1>10. CASE UNCHANGED vars
  BY <1>7, <1>10 DEF vars
<1> QED
  BY <1>4, <1>8, <1>9, <1>10 DEF Next

-----------------------------------------------------------------------------
(* The overlay.                                                            *)

QuietPCs == {"idle", "listing", "closure"}

\* What keeps the overlay from outliving the work: a step ends it, leaves work
\* under way, or changes neither it nor whether any is.
LEMMA BusyCases ==
    ASSUME IdleIsNotBusy,
           \/ busy' = FALSE
           \/ \E u \in Tasks : task'[u].pc \notin QuietPCs
           \/ /\ busy' = busy
              /\ \A u \in Tasks : task'[u].pc \in QuietPCs => task[u].pc \in QuietPCs
    PROVE  IdleIsNotBusy'
  BY DEF IdleIsNotBusy, QuietPCs

\* Selecting leaves the overlay as it is or starts a read of the scope.
LEMMA SelectBusy ==
    ASSUME NEW t \in Tasks, NEW scope, NEW pinned \in [Tasks -> Task], Select(t, scope, pinned)
    PROVE  \/ busy' = busy /\ task' = pinned
           \/ task'[t].pc \notin QuietPCs
<1>1. \/ busy' = busy /\ task' = pinned
      \/ task' = [pinned EXCEPT ![t].pc = "read", ![t].scope = scope]
      \/ task' = [pinned EXCEPT ![t].pc = "asking", ![t].scope = scope]
  BY DEF Select
<1>2. ASSUME NEW pc, task' = [pinned EXCEPT ![t].pc = pc, ![t].scope = scope]
      PROVE  task'[t].pc = pc
  <2>1. pinned[t] \in Task
    OBVIOUS
  <2> QED
    BY <1>2, <2>1 DEF Task
<1>3. "read" \notin QuietPCs /\ "asking" \notin QuietPCs
  BY DEF QuietPCs
<1> QED
  BY <1>1, <1>2, <1>3

LEMMA BusyStep ==
    ASSUME Parts, IdleIsNotBusy, [Next]_vars
    PROVE  IdleIsNotBusy'
<1>0. task \in [Tasks -> Task] /\ source \in Sources
  BY DEF Parts, TasksGood, ScopesTyped
<1>i. \A s : Idle(s).pc = "idle"
  BY DEF Idle
<1>1. ASSUME NEW t \in Tasks, FetchFails(t) \/ Frame(t) \/ IdsFail(t) \/ Fill(t)
      PROVE  IdleIsNotBusy'
  BY <1>1, BusyCases DEF FetchFails, Frame, IdsFail, Fill
<1>2. ASSUME NEW t \in Tasks, Fetch(t) \/ FetchAnswers(t) \/ MergeNodes(t) \/ MergeTurns(t)
                              \/ MergeEdges(t) \/ Measure(t) \/ Draw(t) \/ ClosureAnswers(t)
      PROVE  IdleIsNotBusy'
  <2>1. task'[t].pc \notin QuietPCs
    <3>1. CASE Fetch(t) \/ FetchAnswers(t) \/ ClosureAnswers(t)
      BY <1>0, <3>1 DEF Fetch, FetchAnswers, ClosureAnswers, Becomes, QuietPCs, Task
    <3>2. CASE MergeNodes(t)
      BY <1>0, <3>2 DEF MergeNodes, Becomes, QuietPCs, Task
    <3>3. CASE MergeTurns(t)
      BY <1>0, <3>3 DEF MergeTurns, Becomes, QuietPCs, Task
    <3>4. CASE MergeEdges(t)
      BY <1>0, <3>4 DEF MergeEdges, Becomes, QuietPCs, Task
    <3>5. CASE Measure(t) \/ Draw(t)
      BY <1>0, <3>5 DEF Measure, Draw, Becomes, QuietPCs, Task
    <3> QED
      BY <1>2, <3>1, <3>2, <3>3, <3>4, <3>5
  <2> QED
    BY <2>1, BusyCases
<1>3. ASSUME NEW t \in Tasks, IdsAnswer(t) \/ LoadMore(t)
      PROVE  IdleIsNotBusy'
  <2>1. busy' = FALSE \/ task'[t].pc \notin QuietPCs
    <3>1. CASE IdsAnswer(t)
      <4>1. \/ busy' = FALSE
            \/ task' = [task EXCEPT ![t].pc = "read", ![t].scope = task[t].scope,
                            ![t].limit = Cardinality(Closure(task[t].scope.head))]
        BY <3>1 DEF IdsAnswer, Load
      <4>2. task'[t].pc = "read" \/ busy' = FALSE
        BY <1>0, <4>1 DEF Task
      <4> QED
        BY <4>2 DEF QuietPCs
    <3>2. CASE LoadMore(t)
      BY <1>0, <3>2 DEF LoadMore, QuietPCs, Task
    <3> QED
      BY <1>3, <3>1, <3>2
  <2> QED
    BY <2>1, BusyCases
<1>4. ASSUME NEW t \in Tasks, DiscoverFails(t) \/ ClosureFails(t)
      PROVE  IdleIsNotBusy'
  <2>1. busy' = busy /\ task' = [task EXCEPT ![t] = Idle(source)]
    BY <1>4 DEF DiscoverFails, ClosureFails, Ends, status
  <2>2. task[t].pc \in QuietPCs
    BY <1>4 DEF DiscoverFails, ClosureFails, QuietPCs
  <2>3. \A u \in Tasks : task'[u].pc \in QuietPCs => task[u].pc \in QuietPCs
    BY <1>0, <2>1, <2>2
  <2> QED
    BY <2>1, <2>3, BusyCases
<1>5. ASSUME NEW t \in Tasks, DiscoverAnswers(t)
      PROVE  IdleIsNotBusy'
  <2> DEFINE pinned == [task EXCEPT ![t] = Idle(source)]
  <2>1. task[t].pc \in QuietPCs
    BY <1>5 DEF DiscoverAnswers, QuietPCs
  <2>2. pinned \in [Tasks -> Task]
    BY <1>0, IdleGood DEF Good
  <2>3. \A u \in Tasks : pinned[u].pc \in QuietPCs => task[u].pc \in QuietPCs
    BY <1>0, <2>1
  <2>4. (\E h : Select(t, Branch(h), pinned)) \/ (task' = pinned /\ busy' = busy)
    BY <1>5 DEF DiscoverAnswers, Ends
  <2> HIDE DEF pinned
  <2>5. (busy' = busy /\ task' = pinned) \/ task'[t].pc \notin QuietPCs
    BY <2>2, <2>4, SelectBusy
  <2> QED
    BY <2>3, <2>5, BusyCases
<1>6. ASSUME NEW t \in Tasks, Step(t) PROVE IdleIsNotBusy'
  BY <1>1, <1>2, <1>3, <1>4, <1>5, <1>6 DEF Step
<1>7. ASSUME NEW t \in Tasks, (\E asNew \in BOOLEAN : Run(t, asNew)) \/ Relayout(t)
      PROVE  IdleIsNotBusy'
  <2>1. task'[t].pc \notin QuietPCs
    BY <1>0, <1>7 DEF Run, Load, Relayout, Becomes, QuietPCs, Task
  <2> QED
    BY <2>1, BusyCases
<1>8. ASSUME NEW t \in Tasks, NEW scope \in MaybeScope, SelectScope(t, scope)
      PROVE  IdleIsNotBusy'
  <2>1. (busy' = busy /\ task' = task) \/ task'[t].pc \notin QuietPCs
    BY <1>0, <1>8, SelectBusy DEF SelectScope
  <2> QED
    BY <2>1, BusyCases
<1>9. ASSUME NEW t \in Tasks, (\E s \in Sources : Activate(t, s))
                              \/ \E c \in Claims : OpenProvenance(t, c)
      PROVE  IdleIsNotBusy'
  <2>1. busy' = busy /\ task[t].pc \in QuietPCs /\ \A u \in Tasks \ {t} : task'[u] = task[u]
    BY <1>0, <1>9 DEF Activate, OpenProvenance, Discover, Starts, status, QuietPCs
  <2> QED
    BY <2>1, BusyCases
<1>10. ASSUME NEW t \in Tasks, Progress(t) PROVE IdleIsNotBusy'
  <2>1. task'[t].pc \notin QuietPCs
    BY <1>10 DEF Progress, QuietPCs
  <2> QED
    BY <2>1, BusyCases
<1>11. ASSUME UNCHANGED <<busy, task>> PROVE IdleIsNotBusy'
  BY <1>11, BusyCases
<1>12. CASE Reader
  BY <1>7, <1>8, <1>9, <1>11, <1>12
  DEF Reader, OpenCbor, ClearSession, SetLimit, ActivateTab, CloseTab, status
<1>13. CASE UNCHANGED vars
  BY <1>11, <1>13 DEF vars, status
<1> QED
  BY <1>6, <1>10, <1>12, <1>13 DEF Next
-----------------------------------------------------------------------------
(* The scope chosen.                                                       *)

LEMMA SelectedStep ==
    ASSUME SelectedIsListed, [Next]_vars
    PROVE  SelectedIsListed'
<1>1. ASSUME UNCHANGED <<listing, selected>> PROVE SelectedIsListed'
  BY <1>1 DEF SelectedIsListed
<1>2. ASSUME NEW t \in Tasks, NEW scope \in MaybeScope, SelectScope(t, scope)
      PROVE  SelectedIsListed'
  <2>1. /\ listing' = listing /\ selected' = scope
        /\ scope \in {NoScope} \cup listing.scopes
    BY <1>2 DEF SelectScope, Select
  <2> QED
    BY <2>1 DEF SelectedIsListed
<1>3. ASSUME NEW t \in Tasks, NEW s \in Sources, Activate(t, s)
      PROVE  SelectedIsListed'
  BY <1>3 DEF Activate, Discover, Nothing, SelectedIsListed
<1>4. ASSUME NEW t \in Tasks, DiscoverFails(t)
      PROVE  SelectedIsListed'
  BY <1>4 DEF DiscoverFails, Nothing, SelectedIsListed
<1>5. ASSUME NEW t \in Tasks, DiscoverAnswers(t)
      PROVE  SelectedIsListed'
  <2>1. PICK listed \in Listings(task[t].from) :
          /\ listing' = [state |-> "ready", scopes |-> listed]
          /\ \/ \E h \in Heads[task[t].from] : selected' = Branch(h)
             \/ selected' = IF selected \in listed THEN selected ELSE NoScope
    BY <1>5 DEF DiscoverAnswers, Select
  <2>2. \A h \in Heads[task[t].from] : Branch(h) \in listed
    BY DEF Listings
  <2> QED
    BY <2>1, <2>2 DEF SelectedIsListed
<1>6. ASSUME NEW t \in Tasks, Step(t) PROVE SelectedIsListed'
  BY <1>1, <1>4, <1>5, <1>6
  DEF Step, Fetch, FetchFails, FetchAnswers, MergeNodes, MergeTurns, MergeEdges, Measure, Draw,
      Frame, IdsFail, IdsAnswer, ClosureFails, ClosureAnswers, LoadMore, Fill, scopes
<1>7. CASE Reader
  BY <1>1, <1>2, <1>3, <1>7
  DEF Reader, Run, OpenProvenance, OpenCbor, Relayout, ClearSession, SetLimit, ActivateTab,
      CloseTab, scopes
<1>8. ASSUME NEW t \in Tasks, Progress(t) PROVE SelectedIsListed'
  BY <1>1, <1>8 DEF Progress, scopes
<1>9. CASE UNCHANGED vars
  BY <1>1, <1>9 DEF vars, scopes
<1> QED
  BY <1>6, <1>7, <1>8, <1>9 DEF Next

-----------------------------------------------------------------------------
(* The theorems.                                                           *)

LEMMA InitIInv == Init => IInv
<1> SUFFICES ASSUME Init PROVE IInv
  OBVIOUS
<1>1. PICK s \in Sources : s = source
  BY DEF Init
<1>2. PICK t, u \in Tasks :
        task = [v \in Tasks |-> IF v \in {t, u}
                                THEN [Idle(source) EXCEPT !.pc = "listing"]
                                ELSE Idle(source)]
  BY DEF Init
<1>3. Good(Idle(source)) /\ Good([Idle(source) EXCEPT !.pc = "listing"])
  <2> DEFINE r == [Idle(source) EXCEPT !.pc = "listing"]
  <2>1. Good(Idle(source)) /\ Idle(source) \in Task
    BY <1>1, IdleGood DEF Good
  <2>2. r \in Task
    BY <2>1 DEF Task, PCs
  <2>3. r.pc = "listing" /\ r.at = 0 /\ r.page = <<>>
    BY DEF Idle
  <2> HIDE DEF r
  <2>4. Good(r)
    BY <2>2, <2>3 DEF Good, Scoped
  <2> QED
    BY <2>1, <2>4 DEF r
<1>4. TasksGood
  BY <1>2, <1>3 DEF TasksGood, Good
<1>5. limit \in Limits
  BY BoundsAssumption DEF Init
<1>6. Sound(union)
  BY DEF Init, EmptyUnion, Sound, Union
<1>7. MembersTyped
  BY DEF Init, MembersTyped
<1>8. FlagsTyped /\ TabsTyped /\ ScopesTyped
  <2>1. FlagsTyped
    <3>1. busy = FALSE /\ shown = FALSE /\ starts = 0
      BY DEF Init
    <3>2. starts \in 0 .. MaxStarts
      BY <3>1, BoundsAssumption
    <3> QED
      BY <1>5, <3>1, <3>2 DEF FlagsTyped
  <2>2. TabsTyped
    BY DEF Init, TabsTyped
  <2>3. ScopesTyped
    BY <1>1, ScopeKinds DEF Init, Nothing, ScopesTyped, Listing
  <2> QED
    BY <2>1, <2>2, <2>3
<1>9. TypeOK /\ TasksCarry
  BY <1>4, <1>6, <1>7, <1>8, PartsAreTypes DEF Parts
<1>10. DrawnWhenRead
  BY DEF Init, EmptyUnion, DrawnWhenRead
<1>11. IdleIsNotBusy /\ SelectedIsListed
  BY DEF Init, Nothing, IdleIsNotBusy, SelectedIsListed
<1> QED
  BY <1>9, <1>10, <1>11 DEF IInv

LEMMA Inductive == Spec => []IInv
<1>1. IInv /\ [Next]_vars => IInv'
  <2> SUFFICES ASSUME IInv, [Next]_vars PROVE IInv'
    OBVIOUS
  <2>1. Parts
    BY PartsAreTypes DEF IInv
  <2> QED
    BY <2>1, TypeStep, DrawnStep, BusyStep, SelectedStep DEF IInv
<1> QED
  BY InitIInv, <1>1, PTL DEF Spec

\* The session's state is well typed, whatever tasks overlap (frontend/src/core/session.ts):
\* the active tab is one that is open, a graph's edges join its nodes.
THEOREM TypeCorrect == Spec => []TypeOK
<1>1. IInv => TypeOK
  BY DEF IInv
<1> QED
  BY Inductive, <1>1, PTL

\* A reference of a claim the session has read and walked is drawn, or held until its
\* other end is read: merges, fills and clearings that overlap lose none (store.ts).
THEOREM ReferencesAreDrawn == Spec => []DrawnWhenRead
<1>1. IInv => DrawnWhenRead
  BY DEF IInv
<1> QED
  BY Inductive, <1>1, PTL

\* Once no merge is in flight the graph is that of its nodes: each reference between
\* two of them is drawn, each that leaves them is held, and no other is of a node. How
\* merges interleaved, overlapped or were cleared between cannot be told (build.ts).
THEOREM SettledIsWhole ==
    Spec => []((\A t \in Tasks : ToWalk(t) = {}) =>
                   /\ union.edges = GraphOf(union.nodes).edges
                   /\ {e \in union.held : e[1] \in union.nodes} = GraphOf(union.nodes).held)
<1> DEFINE Whole == (\A t \in Tasks : ToWalk(t) = {}) =>
                       /\ union.edges = GraphOf(union.nodes).edges
                       /\ {e \in union.held : e[1] \in union.nodes} = GraphOf(union.nodes).held
<1>1. IInv => Whole
  <2> SUFFICES ASSUME IInv, \A t \in Tasks : ToWalk(t) = {}
               PROVE  /\ union.edges = GraphOf(union.nodes).edges
                      /\ {e \in union.held : e[1] \in union.nodes} = GraphOf(union.nodes).held
    OBVIOUS
  <2> DEFINE N == union.nodes
  <2>1. Walked = N
    BY DEF Walked
  <2>2. Drawn(union, N)
    BY <2>1, DrawnWhenReadIs DEF IInv
  <2>3. N \subseteq Claims /\ union.edges \subseteq N \X N /\ union.held \subseteq Claims \X Claims
    BY DEF IInv, TypeOK, Union
  <2>4. /\ GraphOf(N).edges = {e \in N \X N : e[2] \in Refs[e[1]]}
        /\ GraphOf(N).held = {e \in N \X (Claims \ N) : e[2] \in Refs[e[1]]}
    BY DEF GraphOf
  <2> HIDE DEF N
  <2>5. ASSUME NEW r \in N \X N, r[2] \in Refs[r[1]] PROVE r \in union.edges
    BY <2>2, <2>5 DEF Drawn
  <2>6. ASSUME NEW r \in N \X (Claims \ N), r[2] \in Refs[r[1]] PROVE r \in union.held
    <3>1. r \in union.edges \cup union.held
      BY <2>2, <2>6 DEF Drawn
    <3> QED
      BY <2>3, <3>1
  <2>7. union.edges \subseteq {e \in N \X N : e[2] \in Refs[e[1]]}
    BY <2>2, <2>3 DEF Drawn
  <2>8. {e \in union.held : e[1] \in N} \subseteq {e \in N \X (Claims \ N) : e[2] \in Refs[e[1]]}
    BY <2>2, <2>3 DEF Drawn
  <2> QED
    BY <2>4, <2>5, <2>6, <2>7, <2>8 DEF N
<1> QED
  BY Inductive, <1>1, PTL

\* The overlay is down whenever nothing that raises it is under way: a failure, on
\* whichever path, takes it down with the work (session.ts).
THEOREM OverlayEnds == Spec => []IdleIsNotBusy
<1>1. IInv => IdleIsNotBusy
  BY DEF IInv
<1> QED
  BY Inductive, <1>1, PTL

\* The scope chosen is one of the listing shown, however listings of several sources
\* overlap with selections (session.ts: discoverScopes, selectScope).
THEOREM SelectionIsListed == Spec => []SelectedIsListed
<1>1. IInv => SelectedIsListed
  BY DEF IInv
<1> QED
  BY Inductive, <1>1, PTL

\* A membership recorded whole stays so: a read cut at its limit, or by a limit changed
\* in the middle of it, never replaces it (session.ts: load; store.ts: setMembers).
THEOREM WholesStay == Spec => WholeStaysWhole
<1> DEFINE Kept == \A h \in DOMAIN members :
                      members[h] = Closure(h) => members'[h] = Closure(h)
<1>1. ASSUME NEW t, Record(t) PROVE Kept
  BY <1>1 DEF Record
<1>2. ASSUME NEW h, SetMembers(h, Closure(h)) PROVE Kept
  BY <1>2 DEF SetMembers
<1>0. ASSUME UNCHANGED members PROVE Kept
  BY <1>0
<1>3. ASSUME NEW t \in Tasks, Step(t) PROVE Kept
  BY <1>0, <1>1, <1>2, <1>3
  DEF Step, Fetch, FetchFails, FetchAnswers, MergeNodes, MergeTurns, MergeEdges, Measure, Draw,
      Frame, IdsFail, IdsAnswer, DiscoverFails, DiscoverAnswers, ClosureFails, ClosureAnswers,
      LoadMore, Fill
<1>4. ASSUME Reader PROVE Kept
  BY <1>0, <1>4
  DEF Reader, Run, SelectScope, Activate, OpenProvenance, OpenCbor, Relayout, ClearSession,
      SetLimit, ActivateTab, CloseTab
<1>5. ASSUME NEW t \in Tasks, Progress(t) PROVE Kept
  BY <1>0, <1>5 DEF Progress
<1> HIDE DEF Kept
<1>6. [Next]_vars => Kept
  BY <1>0, <1>3, <1>4, <1>5 DEF Next, vars
<1> QED
  BY <1>6, PTL DEF Spec, WholeStaysWhole, Kept

-----------------------------------------------------------------------------
(* Tasks end.                                                               *)

Rank == [pc \in PCs |->
           CASE pc = "listing" -> 10 [] pc = "asking" -> 9 [] pc = "read" -> 8
             [] pc = "fetching" -> 7 [] pc = "merging" -> 6 [] pc = "nodes" -> 5
             [] pc = "edges" -> 4 [] pc = "shape" -> 3 [] pc = "laying" -> 2
             [] pc = "framing" -> 1
             [] pc = "closure" -> 3 [] pc = "placing" -> 2 [] pc = "filling" -> 1
             [] pc = "relaying" -> 1 [] pc = "idle" -> 0]

RankOf(t) == Rank[task[t].pc]
Unmerged(t) == Len(task[t].page) - task[t].at

\* A task comes nearer to its end: to a later stage of it, or on in the page it merges.
Nearer(t) ==
    \/ RankOf(t)' < RankOf(t)
    \/ RankOf(t)' = RankOf(t) /\ Unmerged(t)' < Unmerged(t)

LEMMA StepNears ==
    ASSUME Parts, NEW t \in Tasks, Step(t)
    PROVE  Nearer(t) /\ \A u \in Tasks \ {t} : task'[u] = task[u]
<1>0. /\ task \in [Tasks -> Task] /\ task[t] \in Task /\ source \in Sources
      /\ task[t].page \in Seq(Claims) /\ task[t].at \in 0 .. Len(task[t].page)
      /\ Len(task[t].page) \in Nat
  BY DEF Parts, TasksGood, ScopesTyped, Good, Task
<1>1. /\ Rank["listing"] = 10 /\ Rank["asking"] = 9 /\ Rank["read"] = 8
      /\ Rank["fetching"] = 7 /\ Rank["merging"] = 6 /\ Rank["nodes"] = 5
      /\ Rank["edges"] = 4 /\ Rank["shape"] = 3 /\ Rank["laying"] = 2
      /\ Rank["framing"] = 1
      /\ Rank["closure"] = 3 /\ Rank["placing"] = 2 /\ Rank["filling"] = 1
      /\ Rank["relaying"] = 1 /\ Rank["idle"] = 0
  BY DEF Rank, PCs
<1>2. Idle(source).pc = "idle"
  BY DEF Idle
<1>e. ASSUME Ends(t), task[t].pc # "idle", RankOf(t) > 0
      PROVE  Nearer(t) /\ \A u \in Tasks \ {t} : task'[u] = task[u]
  <2>1. task'[t].pc = "idle" /\ \A u \in Tasks \ {t} : task'[u] = task[u]
    BY <1>0, <1>2, <1>e DEF Ends
  <2> QED
    BY <1>1, <1>e, <2>1 DEF Nearer, RankOf
<1>b. ASSUME NEW pc \in PCs, Becomes(t, pc), Rank[pc] < RankOf(t)
      PROVE  Nearer(t) /\ \A u \in Tasks \ {t} : task'[u] = task[u]
  <2>1. task'[t].pc = pc /\ \A u \in Tasks \ {t} : task'[u] = task[u]
    BY <1>0, <1>b DEF Becomes, Task
  <2> QED
    BY <1>b, <2>1 DEF Nearer, RankOf
<1>3. CASE Fetch(t)
  <2>1. /\ task[t].pc = "read" /\ task'[t].pc = "fetching"
        /\ \A u \in Tasks \ {t} : task'[u] = task[u]
    BY <1>0, <1>3 DEF Fetch, Task
  <2> QED
    BY <1>1, <2>1 DEF Nearer, RankOf
<1>4. CASE FetchFails(t) \/ Frame(t) \/ IdsFail(t) \/ DiscoverFails(t) \/ ClosureFails(t) \/ Fill(t)
  BY <1>1, <1>4, <1>e
  DEF FetchFails, Frame, IdsFail, DiscoverFails, ClosureFails, Fill, RankOf
<1>5. CASE FetchAnswers(t) \/ Measure(t) \/ Draw(t) \/ ClosureAnswers(t)
  BY <1>1, <1>5, <1>b DEF FetchAnswers, Measure, Draw, ClosureAnswers, RankOf, PCs
<1>6. CASE MergeNodes(t)
  <2>1. /\ task[t].pc \in {"merging", "nodes"} /\ task'[t].pc = "nodes"
        /\ task'[t].at = task[t].at + 1 /\ task'[t].page = task[t].page
        /\ \A u \in Tasks \ {t} : task'[u] = task[u]
    BY <1>0, <1>6 DEF MergeNodes, Task
  <2>2. Unmerged(t)' < Unmerged(t)
    BY <1>0, <2>1 DEF Unmerged
  <2> QED
    BY <1>1, <2>1, <2>2 DEF Nearer, RankOf
<1>7. CASE MergeTurns(t)
  <2>1. task[t].pc \in {"merging", "nodes"}
    BY <1>7 DEF MergeTurns
  <2>2. CASE Len(task[t].page) > 1
    <3>1. task'[t].pc = "edges" /\ \A u \in Tasks \ {t} : task'[u] = task[u]
      BY <1>0, <1>7, <2>2 DEF MergeTurns, Task
    <3> QED
      BY <1>1, <2>1, <3>1 DEF Nearer, RankOf
  <2>3. CASE ~(Len(task[t].page) > 1)
    BY <1>1, <1>7, <1>b, <2>1, <2>3 DEF MergeTurns, RankOf, PCs
  <2> QED
    BY <2>2, <2>3
<1>8. CASE MergeEdges(t)
  <2>1. task[t].pc = "edges"
    BY <1>8 DEF MergeEdges
  <2>2. CASE task[t].at + 1 < Len(task[t].page)
    <3>1. /\ task'[t].pc = "edges" /\ task'[t].at = task[t].at + 1
          /\ task'[t].page = task[t].page
          /\ \A u \in Tasks \ {t} : task'[u] = task[u]
      BY <1>0, <1>8, <2>1, <2>2 DEF MergeEdges, Task
    <3>2. Unmerged(t)' < Unmerged(t)
      BY <1>0, <3>1 DEF Unmerged
    <3> QED
      BY <2>1, <3>1, <3>2 DEF Nearer, RankOf
  <2>3. CASE ~(task[t].at + 1 < Len(task[t].page))
    BY <1>1, <1>8, <1>b, <2>1, <2>3 DEF MergeEdges, RankOf, PCs
  <2> QED
    BY <2>2, <2>3
<1>9. CASE IdsAnswer(t)
  <2>1. task[t].pc = "asking"
    BY <1>9 DEF IdsAnswer
  <2>2. CASE Missing(union, Closure(task[t].scope.head)) # {}
    <3>1. task'[t].pc = "read" /\ \A u \in Tasks \ {t} : task'[u] = task[u]
      BY <1>0, <1>9, <2>2 DEF IdsAnswer, Load, Task
    <3> QED
      BY <1>1, <2>1, <3>1 DEF Nearer, RankOf
  <2>3. CASE ~(Missing(union, Closure(task[t].scope.head)) # {})
    BY <1>1, <1>9, <1>e, <2>1, <2>3 DEF IdsAnswer, RankOf
  <2> QED
    BY <2>2, <2>3
<1>10. CASE DiscoverAnswers(t)
  <2>1. task[t].pc = "listing"
    BY <1>10 DEF DiscoverAnswers
  <2>2. CASE Cardinality(Heads[task[t].from]) = 1
    <3> DEFINE pinned == [task EXCEPT ![t] = Idle(source)]
    <3>1. PICK h \in Heads[task[t].from] : Select(t, Branch(h), pinned)
      BY <1>10, <2>2 DEF DiscoverAnswers
    <3>2. /\ pinned \in [Tasks -> Task] /\ pinned[t].pc = "idle"
          /\ \A u \in Tasks \ {t} : pinned[u] = task[u]
      BY <1>0, <1>2, IdleGood DEF Good
    <3> HIDE DEF pinned
    <3>3. /\ task'[t].pc \in {"idle", "read", "asking"}
          /\ \A u \in Tasks \ {t} : task'[u] = task[u]
      BY <3>1, <3>2 DEF Select, Task
    <3> QED
      BY <1>1, <2>1, <3>3 DEF Nearer, RankOf
  <2>3. CASE Cardinality(Heads[task[t].from]) # 1
    BY <1>1, <1>10, <1>e, <2>1, <2>3 DEF DiscoverAnswers, RankOf
  <2> QED
    BY <2>2, <2>3
<1>11. CASE LoadMore(t)
  <2>1. task[t].pc = "placing"
    BY <1>11 DEF LoadMore
  <2>2. CASE Missing(union, Closure(task[t].scope.head)) = {}
    BY <1>1, <1>11, <1>e, <2>1, <2>2 DEF LoadMore, RankOf
  <2>3. CASE Missing(union, Closure(task[t].scope.head)) # {}
    <3>1. task'[t].pc = "filling" /\ \A u \in Tasks \ {t} : task'[u] = task[u]
      BY <1>0, <1>11, <2>3 DEF LoadMore, Task
    <3> QED
      BY <1>1, <2>1, <3>1 DEF Nearer, RankOf
  <2> QED
    BY <2>2, <2>3
<1> QED
  BY <1>3, <1>4, <1>5, <1>6, <1>7, <1>8, <1>9, <1>10, <1>11 DEF Step

\* A task of the reader's comes nearer to its end with each step of its own, and no other
\* step touches it once it is under way (session.ts, provenance.ts): none goes round,
\* whatever overlaps it, and each has at most ten stages and a page to merge twice.
THEOREM TasksDescend ==
    Spec => [][\A t \in Tasks :
                  /\ Step(t) => Nearer(t)
                  /\ task[t].pc # "idle" /\ task'[t] # task[t] => Nearer(t)]_vars
<1> DEFINE Down == \A t \in Tasks :
                     /\ Step(t) => Nearer(t)
                     /\ task[t].pc # "idle" /\ task'[t] # task[t] => Nearer(t)
<1>1. ASSUME Parts, [Next]_vars PROVE Down
  <2>0. task \in [Tasks -> Task]
    BY <1>1 DEF Parts, TasksGood
  <2>1. \A t \in Tasks : Step(t) => Nearer(t)
    BY <1>1, StepNears
  <2>2. ASSUME NEW u \in Tasks, Step(u)
        PROVE  \A t \in Tasks : task'[t] # task[t] => Nearer(t)
    BY <1>1, <2>2, StepNears
  <2>3. ASSUME NEW u \in Tasks,
               \/ \E asNew \in BOOLEAN : Run(u, asNew)
               \/ \E scope \in MaybeScope : SelectScope(u, scope)
               \/ \E s \in Sources : Activate(u, s)
               \/ \E c \in Claims : OpenProvenance(u, c)
               \/ Relayout(u)
        PROVE  \A t \in Tasks : task'[t] # task[t] => task[t].pc = "idle"
    <3>1. \A v \in Tasks \ {u} : task'[v] = task[v]
      BY <2>0, <2>3
      DEF Run, SelectScope, Activate, OpenProvenance, Relayout, Load, Select, Discover, Becomes
    <3>2. task[u].pc = "idle"
      BY <2>3 DEF Run, SelectScope, Activate, OpenProvenance, Relayout, Starts
    <3> QED
      BY <3>1, <3>2
  <2>7. \A t \in Tasks : task[t].pc # "idle" /\ task'[t] # task[t] => Nearer(t)
    <3>1. CASE task' = task
      BY <3>1
    <3>2. CASE Reader
      <4>1. \A t \in Tasks : task'[t] # task[t] => task[t].pc = "idle"
        BY <2>3, <3>2 DEF Reader, OpenCbor, ClearSession, SetLimit, ActivateTab, CloseTab
      <4> QED
        BY <4>1
    <3>3. CASE \E u \in Tasks : Step(u)
      BY <2>2, <3>3
    <3> QED
      BY <1>1, <3>1, <3>2, <3>3 DEF Next, Progress, vars
  <2> QED
    BY <2>1, <2>7
<1> HIDE DEF Down
<1>2. IInv => Parts
  BY PartsAreTypes DEF IInv
<1>3. IInv /\ [Next]_vars => [Down]_vars
  BY <1>1, <1>2
<1>4. Spec => [][Down]_vars
  BY <1>3, Inductive, PTL DEF Spec
<1> QED
  BY <1>4 DEF Down

\* The measure a task descends by is of naturals, the first of them at most ten.
THEOREM TasksAreBounded ==
    Spec => [](\A t \in Tasks : RankOf(t) \in 0 .. 10 /\ Unmerged(t) \in Nat)
<1>1. IInv => \A t \in Tasks : RankOf(t) \in 0 .. 10 /\ Unmerged(t) \in Nat
  <2> SUFFICES ASSUME IInv, NEW t \in Tasks
               PROVE  RankOf(t) \in 0 .. 10 /\ Unmerged(t) \in Nat
    OBVIOUS
  <2>1. task[t].pc \in PCs /\ task[t].at \in 0 .. Len(task[t].page) /\ Len(task[t].page) \in Nat
    BY DEF IInv, TypeOK, Task
  <2>2. Unmerged(t) \in Nat
    BY <2>1 DEF Unmerged
  <2>3. RankOf(t) \in 0 .. 10
    BY <2>1 DEF RankOf, Rank, PCs
  <2> QED
    BY <2>2, <2>3
<1> QED
  BY <1>1, Inductive, PTL

=============================================================================
