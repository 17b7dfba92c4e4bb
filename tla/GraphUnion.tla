----------------------------- MODULE GraphUnion -----------------------------
(***************************************************************************)
(* The explorer's one graph of every claim read this session, and what a   *)
(* merge does to it (frontend/src/core/graph/build.ts and universe.ts). A  *)
(* merge writes the claims of a page and then walks their references: one  *)
(* whose target has been read is drawn, any other is held until a later    *)
(* merge brings its target.                                                *)
(***************************************************************************)
EXTENDS Naturals, FiniteSets

CONSTANTS
    Claims,   \* claim ids
    Refs      \* Refs[c]: the claims c references

ASSUME RefsAssumption ==
    /\ Refs \in [Claims -> SUBSET Claims]
    /\ \A c \in Claims : c \notin Refs[c]

Union == [nodes : SUBSET Claims,
          described : SUBSET Claims,   \* the nodes a read gave their attributes
          edges : SUBSET (Claims \X Claims),
          held : SUBSET (Claims \X Claims)]

EmptyUnion == [nodes |-> {}, described |-> {}, edges |-> {}, held |-> {}]

(* addNodes: a claim already present is a duplicate and stays as it is. *)
AddNodes(g, C) ==
    [g EXCEPT !.nodes = g.nodes \cup C,
              !.described = g.described \cup (C \ g.nodes)]

(* Mutant: a reference whose target is absent is dropped. *)
WalkUnheld(g, C) ==
    LET drawn == {e \in C \X g.nodes : e[2] \in Refs[e[1]]}
        waiting == {e \in g.held : e[2] \in C /\ e[1] \in g.nodes}
    IN  [g EXCEPT !.nodes = g.nodes \cup {e[1] : e \in drawn} \cup {e[2] : e \in waiting},
                  !.edges = g.edges \cup drawn \cup waiting,
                  !.held = {e \in g.held : e[2] \notin C}]

(* addEdges and drainPending over a batch whose claims are all present, or *)
(* a batch of one. graphology adds an edge's absent ends as bare nodes:    *)
(* only the target is checked before drawing, only the source in draining. *)
Walk(g, C) ==
    LET drawn == {e \in C \X g.nodes : e[2] \in Refs[e[1]]}
        absent == {e \in C \X (Claims \ g.nodes) : e[2] \in Refs[e[1]]}
        present == g.nodes \cup {e[1] : e \in drawn}
        waiting == {e \in g.held : e[2] \in C /\ e[1] \in present}
    IN  [g EXCEPT !.nodes = present \cup {e[2] : e \in waiting},
                  !.edges = g.edges \cup drawn \cup waiting,
                  !.held = {e \in g.held \cup absent : e[2] \notin C}]

(* mergeMore, which reads in one go: every claim, then every reference. *)
MergeMore(g, C) == Walk(AddNodes(g, C), C)

(* The graph of the claims N and of no other: each described, each of their  *)
(* references drawn or, where it leaves N, held.                            *)
GraphOf(N) ==
    [nodes |-> N, described |-> N,
     edges |-> {e \in N \X N : e[2] \in Refs[e[1]]},
     held |-> {e \in N \X (Claims \ N) : e[2] \in Refs[e[1]]}]

Missing(g, ids) == ids \ g.nodes
=============================================================================
