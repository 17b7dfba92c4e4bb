------------------------------- MODULE Service -------------------------------
(***************************************************************************)
(* What the commands of cmd/ranke-db promise whoever launches them,        *)
(* whatever is assembled and whichever endpoints run inside: a check       *)
(* leaves the archives alone, a founding that succeeds leaves one, serving *)
(* is over an archive that exists, and a process that served ends well     *)
(* when it is told to stop and on no other account.                        *)
(***************************************************************************)
CONSTANTS
  Processes, Lists, NoJob,
  Asks     \* job -> [cmd, list, branch], what its command line asks for

VARIABLES
  job,        \* process -> the command line it runs
  phase,      \* process -> off, launching, serving, stopping or failing
  signalled,  \* process -> it was told to stop
  exit,       \* process -> how its last run ended
  archive     \* list -> the branch its archive was founded on, or "none"

svars == <<job, phase, signalled, exit, archive>>

Init ==
  /\ job = [p \in Processes |-> NoJob]
  /\ phase = [p \in Processes |-> "off"]
  /\ signalled = [p \in Processes |-> FALSE]
  /\ exit = [p \in Processes |-> "none"]
  /\ archive = [l \in Lists |-> "none"]

Begin(p, j) ==
  /\ phase[p] = "off"
  /\ job' = [job EXCEPT ![p] = j]
  /\ phase' = [phase EXCEPT ![p] = "launching"]
  /\ exit' = [exit EXCEPT ![p] = "none"]
  /\ UNCHANGED <<signalled, archive>>

Ends(p, how) ==
  /\ job' = [job EXCEPT ![p] = NoJob]
  /\ phase' = [phase EXCEPT ![p] = "off"]
  /\ signalled' = [signalled EXCEPT ![p] = FALSE]
  /\ exit' = [exit EXCEPT ![p] = how]

Ask(p) == Asks[job[p]]

\* The archive the command line names is there.
Founded(p) == Ask(p).list \in Lists /\ archive[Ask(p).list] # "none"

\* An archive is founded where there is none, under the branch asked for.
Founds(p) ==
  /\ phase[p] = "launching"
  /\ Ask(p).list \in Lists /\ archive[Ask(p).list] = "none"
  /\ archive' = [archive EXCEPT ![Ask(p).list] = Ask(p).branch]

\* A server founds on its way to serving, found before it reports: either may still
\* end without having come so far.
Found(p) ==
  /\ Founds(p) /\ Ask(p).cmd \in {"run", "found"}
  /\ UNCHANGED <<job, phase, signalled, exit>>

\* The archive is there, or a check is through.
Succeed(p) ==
  /\ phase[p] = "launching"
  /\ \/ Ask(p).cmd = "verify"
     \/ Ask(p).cmd = "found" /\ Founded(p)
  /\ Ends(p, "zero") /\ UNCHANGED archive

Moves(p, from, to) ==
  /\ phase[p] = from /\ phase' = [phase EXCEPT ![p] = to]
  /\ UNCHANGED <<job, signalled, exit, archive>>

Open(p) ==
  /\ phase[p] = "launching" /\ Ask(p).cmd = "run" /\ Founded(p)
  /\ Moves(p, "launching", "serving")

Signal(p) ==
  /\ phase[p] \in {"serving", "stopping", "failing"}
  /\ signalled' = [signalled EXCEPT ![p] = TRUE]
  /\ UNCHANGED <<job, phase, exit, archive>>

Stop(p) == signalled[p] /\ Moves(p, "serving", "stopping")

Fail(p) == Moves(p, "serving", "failing")

Close(p) ==
  /\ \/ phase[p] = "stopping" /\ Ends(p, "zero")
     \/ phase[p] = "failing" /\ Ends(p, "one")
  /\ UNCHANGED archive

\* A launch that cannot go on, and the ends nobody asked for.
Abort(p) ==
  /\ \/ phase[p] = "launching" /\ Ends(p, "one")
     \/ phase[p] # "off" /\ \E how \in {"panic", "killed"} : Ends(p, how)
  /\ UNCHANGED archive

Step(p) ==
  \/ \E j \in DOMAIN Asks : Begin(p, j)
  \/ Found(p) \/ Succeed(p) \/ Open(p) \/ Signal(p) \/ Stop(p) \/ Fail(p) \/ Close(p)
  \/ Abort(p)

Next == \E p \in Processes : Step(p)

Spec == Init /\ [][Next]_svars

=============================================================================
