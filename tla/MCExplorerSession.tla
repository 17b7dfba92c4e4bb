------------------------- MODULE MCExplorerSession -------------------------
EXTENDS ExplorerSession

CONSTANTS key, draft, table, t1, t2, here, there

MCClaims == {key, draft, table}

(* Both are signed under the key, and the branch table names the draft. *)
MCRefs == [c \in MCClaims |->
    CASE c = key -> {} [] c = draft -> {key} [] c = table -> {key, draft}]

(* A closure arrives newest first, so a capped read lacks what it cites. *)
MCOrder == [c \in MCClaims |->
    CASE c = key -> <<key>> [] c = draft -> <<draft, key>>
      [] c = table -> <<table, draft, key>>]

(* One branch here, which is selected outright, and two there. *)
MCHeads == [s \in Sources |-> IF s = here THEN {draft} ELSE {draft, key}]
MCTable == [s \in Sources |-> table]

TaskSymmetry == Permutations(Tasks)
=============================================================================
