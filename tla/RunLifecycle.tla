---------------------------- MODULE RunLifecycle ----------------------------
(***************************************************************************)
(* What the run API of internal/core/verification.go and                   *)
(* client/verification.go promises of one verification run, whatever the   *)
(* registry does inside: a run is started, settles once by itself or by an *)
(* operator's stop, keeps its findings, and is deleted for good.           *)
(***************************************************************************)
CONSTANT Ids

VARIABLES
  phase,   \* what a poll of the run answers; "unborn" and "gone": not found
  final    \* whether its findings are recorded

lvars == <<phase, final>>

Retained == {"running", "stopped", "complete", "error"}

Init ==
  /\ phase = [id \in Ids |-> "unborn"]
  /\ final = [id \in Ids |-> FALSE]

Start(id) ==
  /\ phase[id] = "unborn"
  /\ phase' = [phase EXCEPT ![id] = "running"]
  /\ UNCHANGED final

Stop(id) ==
  /\ phase[id] = "running"
  /\ phase' = [phase EXCEPT ![id] = "stopped"]
  /\ UNCHANGED final

\* The findings arrive: a running run settles with them, a stopped one keeps
\* its status.
Settle(id) ==
  /\ ~ final[id]
  /\ \/ /\ phase[id] = "running"
        /\ \E outcome \in {"complete", "error"} :
             phase' = [phase EXCEPT ![id] = outcome]
     \/ phase[id] = "stopped" /\ UNCHANGED phase
  /\ final' = [final EXCEPT ![id] = TRUE]

Delete(id) ==
  /\ phase[id] \in Retained
  /\ phase' = [phase EXCEPT ![id] = "gone"]
  /\ final' = [final EXCEPT ![id] = FALSE]

Step(id) == Start(id) \/ Stop(id) \/ Settle(id) \/ Delete(id)

Next == \E id \in Ids : Step(id)

Spec == Init /\ [][Next]_lvars

=============================================================================
