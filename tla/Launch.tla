------------------------------- MODULE Launch -------------------------------
(***************************************************************************)
(* The server command (cmd/ranke-db, config, rest_http.Serve): processes   *)
(* over one host and one durable store, each checking a configuration,     *)
(* founding its archive, or assembling the stack and serving it, with the  *)
(* endpoints running beside the process's main goroutine.                  *)
(*                                                                         *)
(* What two processes share is the archive a bookmark list leads to, and   *)
(* the addresses: a port is held while its holder listens, a unix socket   *)
(* is a file that outlives the process that bound it.                      *)
(***************************************************************************)
EXTENDS LaunchConfig

CONSTANTS
    Processes,  \* the processes of the host
    Jobs,       \* the command lines they may be started with, by name
    Lists,      \* the bookmark lists of the store
    FilePaths,  \* the socket paths at which some other file lies
    MaxStarts,  \* bound: launches
    Given,      \* bound: process -> the jobs it is started with
    Rivals,     \* bound: the jobs that are run side by side
    NoJob, Nobody

\* A job is one of three commands, a list that can be named is one of the store's, and
\* "none" is no branch.
ASSUME JobsAssumption ==
    /\ NoJob \notin DOMAIN Jobs /\ MaxStarts \in Nat
    /\ \A j \in DOMAIN Jobs :
          LET c == Jobs[j].cfg IN
          /\ Jobs[j].cmd \in {"run", "verify", "found"}
          /\ c.endpoints \in Seq({c.endpoints[i] : i \in DOMAIN c.endpoints})
          /\ bookmarkList(c.sequencer) => ListOf(c.sequencer) \in Lists
          /\ foundingBranch(c.sequencer) => GetSection(c.sequencer).keys["branch"] # "none"

VARIABLES
    job,        \* process -> the command line it runs
    pc,         \* process -> where its main goroutine is
    app,        \* process -> what build has assembled
    stage,      \* process -> endpoint -> where its Serve is
    result,     \* process -> endpoint -> what its Serve returned
    errc,       \* process -> the results sent and not received
    ending,     \* process -> what serve will return
    signalled,  \* process -> SIGINT or SIGTERM arrived
    exit,       \* process -> how its last run ended
    archive,    \* list -> the branch its archive was founded on, or "none"
    bound,      \* address -> [kind, by]: what is there, and whose
    starts      \* launches so far

vars == <<job, pc, app, stage, result, errc, ending, signalled, exit, archive, bound, starts>>

Nothing == [storage |-> FALSE, signer |-> FALSE, genesis |-> FALSE, sequencer |-> FALSE,
            devClock |-> FALSE, layers |-> << >>, endpoints |-> 0, founded |-> "none"]

Absent == [kind |-> "absent", by |-> Nobody]

Line(p) == Jobs[job[p]]
Cfg(p) == Line(p).cfg
Endpoints(p) == IF job[p] = NoJob THEN {} ELSE DOMAIN Cfg(p).endpoints
Address(p, i) == AddrOf(Cfg(p).endpoints[i])
Paths == {Addrs[text].path : text \in DOMAIN Addrs}

Running == {"decode", "resolve", "storage", "signer", "sequencer", "describe", "endpoints",
            "founding", "found", "founded", "require", "serve", "wait"}
\* Somebody accepts connections at this address, as its file or port says.
Accepts(path) == bound[path].kind = "socket" /\ bound[path].by # Nobody

-----------------------------------------------------------------------------

Init ==
    /\ job = [p \in Processes |-> NoJob]
    /\ pc = [p \in Processes |-> "off"]
    /\ app = [p \in Processes |-> Nothing]
    /\ stage = [p \in Processes |-> << >>]
    /\ result = [p \in Processes |-> << >>]
    /\ errc = [p \in Processes |-> << >>]
    /\ ending = [p \in Processes |-> "none"]
    /\ signalled = [p \in Processes |-> FALSE]
    /\ exit = [p \in Processes |-> "none"]
    /\ archive = [l \in Lists |-> "none"]
    /\ bound = [path \in Paths |->
                  IF path \in FilePaths THEN [kind |-> "file", by |-> Nobody] ELSE Absent]
    /\ starts = 0

\* ranke-db run, verify or found.
Start(p, j) ==
    /\ pc[p] = "off" /\ starts < MaxStarts /\ j \in Given[p]
    /\ \A q \in Processes : pc[q] # "off" => {j, job[q]} \subseteq Rivals
    /\ job' = [job EXCEPT ![p] = j]
    /\ pc' = [pc EXCEPT ![p] = "decode"]
    /\ exit' = [exit EXCEPT ![p] = "none"]
    /\ starts' = starts + 1
    /\ UNCHANGED <<app, stage, result, errc, ending, signalled, archive, bound>>

\* A process that is gone holds no port; its socket files stay, nobody behind them.
Abandoned(p) ==
    [path \in Paths |->
        IF bound[path].by # p THEN bound[path]
        ELSE IF \E text \in DOMAIN Addrs : Addrs[text].path = path /\ Addrs[text].network = "unix"
        THEN [bound[path] EXCEPT !.by = Nobody] ELSE Absent]

Gone(p, how) ==
    /\ pc' = [pc EXCEPT ![p] = "off"]
    /\ exit' = [exit EXCEPT ![p] = how]
    /\ stage' = [stage EXCEPT ![p] = << >>]
    /\ result' = [result EXCEPT ![p] = << >>]
    /\ errc' = [errc EXCEPT ![p] = << >>]
    /\ ending' = [ending EXCEPT ![p] = "none"]
    /\ signalled' = [signalled EXCEPT ![p] = FALSE]
    /\ bound' = Abandoned(p)
    /\ job' = [job EXCEPT ![p] = NoJob]
    /\ app' = [app EXCEPT ![p] = Nothing]
    /\ UNCHANGED starts

\* main ends with what the command returned.
Exit(p, how) == Gone(p, how) /\ UNCHANGED archive

Goes(p, to) ==
    /\ pc' = [pc EXCEPT ![p] = to]
    /\ UNCHANGED <<job, stage, result, errc, ending, signalled, exit, bound, starts>>

\* A step of the launch that succeeds or ends it with an error.
Either(p, holds, to) ==
    IF holds THEN Goes(p, to) /\ UNCHANGED <<app, archive>> ELSE Exit(p, "one")

-----------------------------------------------------------------------------
(* Up to the assembled stack.                                              *)

Decode(p) ==
    /\ pc[p] = "decode"
    /\ LET deeper == Line(p).cmd = "verify"
           pubkey == Line(p).cmd = "found" => Line(p).pubkey # "unread"
       IN  IF deeper /\ Line(p).level = "syntax" /\ Decodes(Line(p)) THEN Exit(p, "zero")
           ELSE Either(p, pubkey /\ Decodes(Line(p)), IF deeper THEN "resolve" ELSE "storage")

Resolve(p) ==
    /\ pc[p] = "resolve"
    /\ IF Line(p).level = "resolve" /\ resolveAll(Cfg(p)) THEN Exit(p, "zero")
       ELSE Either(p, resolveAll(Cfg(p)), "storage")

BuildStorage(p) ==
    /\ pc[p] = "storage"
    /\ IF Configured(Cfg(p).storage) /\ build[Cfg(p).storage] = Failed THEN Exit(p, "one")
       ELSE /\ app' = [app EXCEPT ![p].storage = Configured(Cfg(p).storage)]
            /\ Goes(p, "signer") /\ UNCHANGED archive

BuildSigner(p) ==
    /\ pc[p] = "signer"
    /\ IF Configured(Cfg(p).signer) /\ ~BuildsSigner(Cfg(p).signer) THEN Exit(p, "one")
       ELSE /\ app' = [app EXCEPT ![p].signer = Configured(Cfg(p).signer)]
            /\ Goes(p, "sequencer") /\ UNCHANGED archive

\* The library opens the list: a seed's may be empty, a bookmark's entry is there.
OpensList(p) ==
    /\ app[p].storage
    /\ HasValue(Cfg(p).sequencer, "bookmark") => archive[ListOf(Cfg(p).sequencer)] # "none"

\* A sequencer configured without a signer is built over a nil one.
OverNilSigner(p) ==
    /\ Configured(Cfg(p).sequencer) /\ ~app[p].signer
    /\ app[p].storage => CheckBookmarks(Cfg(p).storage)
    /\ Line(p).cmd = "run" => SteersClock(Line(p))
    /\ Get(Cfg(p).sequencer, "type") /\ bookmarkList(Cfg(p).sequencer)

OpenSequencer(p) ==
    /\ pc[p] = "sequencer"
    /\ IF ~Configured(Cfg(p).sequencer) THEN Goes(p, "describe") /\ UNCHANGED <<app, archive>>
       ELSE IF OverNilSigner(p) THEN Exit(p, "panic")
       ELSE IF /\ app[p].storage => CheckBookmarks(Cfg(p).storage)
               /\ Line(p).cmd = "run" => SteersClock(Line(p))
               /\ NewSequencer(Cfg(p)) /\ OpensList(p)
       THEN /\ app' = [app EXCEPT
                  ![p].sequencer = TRUE,
                  ![p].genesis = archive[ListOf(Cfg(p).sequencer)] = "none",
                  ![p].devClock = Line(p).cmd = "run" /\ Line(p).dev]
            /\ Goes(p, "describe") /\ UNCHANGED archive
       ELSE Exit(p, "one")

DescribeLayers(p) ==
    /\ pc[p] = "describe"
    /\ IF ~app[p].storage THEN Goes(p, "endpoints") /\ UNCHANGED <<app, archive>>
       ELSE IF ~Describes(Cfg(p).storage) THEN Exit(p, "one")
       ELSE /\ app' = [app EXCEPT ![p].layers = Describe(Cfg(p).storage)]
            /\ Goes(p, "endpoints") /\ UNCHANGED archive

\* Mutant: build itself founds, so a check does.
BuildEndpointsFounding(p) ==
    /\ pc[p] = "endpoints"
    /\ IF \E i \in Endpoints(p) : ~BuildsEndpoint(Cfg(p).endpoints[i]) THEN Exit(p, "one")
       ELSE /\ app' = [app EXCEPT ![p].endpoints = Cardinality(Endpoints(p))]
            /\ Goes(p, IF Line(p).cmd = "found" THEN "found" ELSE "founding") /\ UNCHANGED archive

BuildEndpoints(p) ==
    /\ pc[p] = "endpoints"
    /\ IF \E i \in Endpoints(p) : ~BuildsEndpoint(Cfg(p).endpoints[i]) THEN Exit(p, "one")
       ELSE IF Line(p).cmd = "verify" THEN Exit(p, "zero")
       ELSE /\ app' = [app EXCEPT ![p].endpoints = Cardinality(Endpoints(p))]
            /\ Goes(p, IF Line(p).cmd = "run" THEN "founding" ELSE "found") /\ UNCHANGED archive

\* A backend, a vault or a key set does not answer while an adapter is built.
BackendFails(p) ==
    /\ pc[p] \in {"resolve", "storage", "signer", "sequencer", "endpoints"}
    /\ Exit(p, "one")

-----------------------------------------------------------------------------
(* Founding.                                                               *)

\* The branch the configuration founds an archive on.
Branch(p) == GetSection(Cfg(p).sequencer).keys["branch"]

\* The library founds a list that is still empty: a second founding is refused.
Founds(p) ==
    IF archive[ListOf(Cfg(p).sequencer)] # "none" THEN Exit(p, "one")
    ELSE /\ archive' = [archive EXCEPT ![ListOf(Cfg(p).sequencer)] = Branch(p)]
         /\ Goes(p, "founded") /\ UNCHANGED app

\* What was founded is read back: only then does found report it, or a launch go on.
ReadsFounded(p) ==
    /\ pc[p] = "founded"
    /\ IF Line(p).cmd = "found" THEN Exit(p, "zero")
       ELSE /\ app' = [app EXCEPT ![p].founded = Branch(p)]
            /\ Goes(p, "require") /\ UNCHANGED archive

\* Mutant: an empty list is left to be founded later.
foundNever(p) == pc[p] = "founding" /\ Goes(p, "require") /\ UNCHANGED <<app, archive>>

foundIfConfigured(p) ==
    /\ pc[p] = "founding"
    /\ LET found == GetSection(Cfg(p).sequencer) IN
       IF ~app[p].sequencer \/ ~app[p].genesis THEN Goes(p, "require") /\ UNCHANGED <<app, archive>>
       ELSE IF /\ Get(found, "pubkey") /\ foundingBranch(Cfg(p).sequencer)
               /\ found.keys["pubkey"] = "pem"
       THEN Founds(p)
       ELSE Exit(p, "one")

\* ranke-db found: an archive that is there is success.
Found(p) ==
    /\ pc[p] = "found"
    /\ IF ~app[p].sequencer THEN Exit(p, "one")
       ELSE IF ~app[p].genesis THEN Exit(p, "zero")
       ELSE IF foundingBranch(Cfg(p).sequencer) /\ Line(p).pubkey = "pem" THEN Founds(p)
       ELSE Exit(p, "one")

\* The founding merge is refused by the store, or what it founded cannot be read back:
\* an archive may be there though the launch that founded it failed.
FoundingFails(p) ==
    /\ pc[p] \in {"founding", "found", "founded"} /\ app[p].genesis
    /\ Exit(p, "one")

requireServing(p) ==
    /\ pc[p] = "require"
    /\ IF app[p].signer /\ app[p].storage /\ app[p].sequencer /\ app[p].endpoints > 0
       THEN /\ pc' = [pc EXCEPT ![p] = "serve"]
            /\ stage' = [stage EXCEPT ![p] = [i \in Endpoints(p) |->
                  IF Address(p, i).network = "unix" THEN "stat" ELSE "bind"]]
            /\ result' = [result EXCEPT ![p] = [i \in Endpoints(p) |-> "none"]]
            /\ UNCHANGED <<job, app, errc, ending, signalled, exit, archive, bound, starts>>
       ELSE Exit(p, "one")

-----------------------------------------------------------------------------
(* Each endpoint's Serve, in a goroutine of its own.                       *)

At(p, i, here, there) ==
    /\ stage[p] # << >> /\ stage[p][i] = here
    /\ stage' = [stage EXCEPT ![p][i] = there]
    /\ UNCHANGED <<job, pc, app, errc, ending, signalled, exit, archive, starts>>

On(p, i) == Address(p, i).path

\* Mutant: the goroutine drops what Serve returned.
ReturnsSilently(p, i, here, what) ==
    At(p, i, here, "done") /\ result' = [result EXCEPT ![p][i] = what]

\* Serve returns: its goroutine is about to send what it returned.
Returns(p, i, here, what) ==
    At(p, i, here, "returned") /\ result' = [result EXCEPT ![p][i] = what]

Proceeds(p, i, here, there) == At(p, i, here, there) /\ UNCHANGED result

\* A file of another kind is left alone, and a path that cannot be examined too.
Stat(p, i) ==
    /\ UNCHANGED bound
    /\ \/ bound[On(p, i)].kind = "absent" /\ Proceeds(p, i, "stat", "bind")
       \/ bound[On(p, i)].kind = "socket" /\ Proceeds(p, i, "stat", "dial")
       \/ Returns(p, i, "stat", "error")

Dial(p, i) ==
    /\ UNCHANGED bound
    /\ IF Accepts(On(p, i)) THEN Returns(p, i, "dial", "error")
       ELSE Proceeds(p, i, "dial", "remove")

\* os.Remove takes what is there by now; nothing there is an error.
Unlink(p, i) ==
    IF bound[On(p, i)] = Absent THEN Returns(p, i, "remove", "error") /\ UNCHANGED bound
    ELSE /\ Proceeds(p, i, "remove", "bind")
         /\ bound' = [bound EXCEPT ![On(p, i)] = Absent]

claimSocket(p, i) == Stat(p, i) \/ Dial(p, i) \/ Unlink(p, i)

Listen(p, i) ==
    IF bound[On(p, i)] # Absent THEN Returns(p, i, "bind", "error") /\ UNCHANGED bound
    ELSE /\ Proceeds(p, i, "bind", IF Address(p, i).network = "unix" THEN "chmod" ELSE "listening")
         /\ bound' = [bound EXCEPT ![On(p, i)] = [kind |-> "socket", by |-> p]]

\* Permission bits and group go to whatever has the path; on failure nothing closes
\* the listener.
Chmod(p, i) ==
    /\ UNCHANGED bound
    /\ \/ bound[On(p, i)] # Absent /\ Proceeds(p, i, "chmod", "listening")
       \/ Returns(p, i, "chmod", "error")

Accept(p, i) == Proceeds(p, i, "listening", "up") /\ UNCHANGED bound

\* Closing a listener removes its path by name, whoever has it by now.
Unbound(p, i) == [bound EXCEPT ![On(p, i)] =
    IF Address(p, i).network = "unix" \/ @.by = p THEN Absent ELSE @]

\* http.Server.Serve returns an error of the listener, which it closes.
ServeFails(p, i) == Returns(p, i, "up", "error") /\ bound' = Unbound(p, i)

\* Mutant: the endpoints are told of a failure, and not of a signal.
CancelledByFailure(p) == pc[p] = "wait" /\ ending[p] = "error"

\* serve has stopped waiting for the first result: the endpoints' context is cancelled.
Cancelled(p) == pc[p] = "wait" \/ signalled[p]

\* The listener is closed, and the open requests are waited for, ten seconds.  A
\* listener Serve has not yet taken over is not closed here.
Shutdown(p, i) ==
    /\ Cancelled(p)
    /\ \/ /\ Returns(p, i, "up", "nil") \/ Returns(p, i, "up", "error")
          /\ bound' = Unbound(p, i)
       \/ /\ Returns(p, i, "listening", "nil")
          /\ bound' = bound \/ bound' = Unbound(p, i)

Serve(p, i) ==
    \/ claimSocket(p, i) \/ Listen(p, i) \/ Chmod(p, i) \/ Accept(p, i)
    \/ Shutdown(p, i)

\* Mutant: errc without a buffer.
SendUnbuffered(p, i) ==
    /\ stage[p] # << >> /\ stage[p][i] = "returned"
    /\ pc[p] = "serve" /\ errc[p] = << >>
    /\ errc' = [errc EXCEPT ![p] = Append(@, result[p][i])]
    /\ stage' = [stage EXCEPT ![p][i] = "done"]
    /\ UNCHANGED <<job, pc, app, result, ending, signalled, exit, archive, bound, starts>>

\* errc has room for every endpoint.
Send(p, i) ==
    /\ stage[p] # << >> /\ stage[p][i] = "returned"
    /\ Len(errc[p]) < Cardinality(Endpoints(p))
    /\ errc' = [errc EXCEPT ![p] = Append(@, result[p][i])]
    /\ stage' = [stage EXCEPT ![p][i] = "done"]
    /\ UNCHANGED <<job, pc, app, result, ending, signalled, exit, archive, bound, starts>>

-----------------------------------------------------------------------------
(* serve, the main goroutine.                                              *)

Waits(p, with) ==
    /\ pc[p] = "serve"
    /\ pc' = [pc EXCEPT ![p] = "wait"]
    /\ ending' = [ending EXCEPT ![p] = with]
    /\ UNCHANGED <<job, app, stage, result, signalled, exit, archive, bound, starts>>

\* The first endpoint to return takes the process down.
Receive(p) ==
    /\ errc[p] # << >>
    /\ Waits(p, Head(errc[p]))
    /\ errc' = [errc EXCEPT ![p] = Tail(@)]

ShutsDown(p) == signalled[p] /\ Waits(p, "nil") /\ UNCHANGED errc

\* wg.Wait, and main returns.
Finish(p) ==
    /\ pc[p] = "wait"
    /\ \A i \in Endpoints(p) : stage[p][i] = "done"
    /\ Exit(p, IF ending[p] = "nil" THEN "zero" ELSE "one")

\* SIGINT or SIGTERM, which serve has asked to be told of.
Signal(p) ==
    /\ pc[p] \in {"serve", "wait"} /\ ~signalled[p]
    /\ signalled' = [signalled EXCEPT ![p] = TRUE]
    /\ UNCHANGED <<job, pc, app, stage, result, errc, ending, exit, archive, bound, starts>>

\* Any other end: a signal nobody asked to be told of, SIGKILL, the machine.
Killed(p) == pc[p] \in Running /\ Exit(p, "killed")

\* The refresh loop of a key set ends the process that started it.
RefreshPanics(p) ==
    /\ pc[p] \in {"founding", "found", "founded", "require", "serve", "wait"}
    /\ \E i \in Endpoints(p) : \E k \in DOMAIN Cfg(p).endpoints[i].auth :
          TickerPanics(Cfg(p).endpoints[i].auth[k])
    /\ Exit(p, "panic")

Launch(p) ==
    \/ Decode(p) \/ Resolve(p) \/ BuildStorage(p) \/ BuildSigner(p) \/ OpenSequencer(p)
    \/ DescribeLayers(p) \/ BuildEndpoints(p) \/ foundIfConfigured(p) \/ Found(p)
    \/ ReadsFounded(p) \/ requireServing(p)

\* What runs once the stack is assembled: the endpoints, and serve waiting for them.
Serving(p) ==
    \/ Receive(p) \/ ShutsDown(p) \/ Finish(p)
    \/ \E i \in Endpoints(p) : Serve(p, i) \/ Send(p, i)

Environment(p) ==
    \/ \E j \in DOMAIN Jobs : Start(p, j)
    \/ BackendFails(p) \/ FoundingFails(p) \/ RefreshPanics(p)
    \/ Signal(p) \/ Killed(p)
    \/ \E i \in Endpoints(p) : ServeFails(p, i)

\* What the goroutines of a process do by themselves.
Goroutines(p) == Launch(p) \/ Serving(p)

Next == \E p \in Processes : Goroutines(p) \/ Environment(p)

Spec == Init /\ [][Next]_vars

\* Once it serves, a process that can go on does: its file system and its own channel do
\* not block, a dial ends after 200 ms and a shutdown after ten seconds. Assembling the
\* stack promises nothing: it reads terminals, vaults and stores with no deadline.
FairSpec == Spec /\ \A p \in Processes : WF_vars(Serving(p))

-----------------------------------------------------------------------------
(* Properties.                                                             *)

Stages == {"stat", "dial", "remove", "bind", "chmod", "listening", "up", "returned", "done"}
Results == {"none", "nil", "error"}
Branches == {GetSection(Jobs[j].cfg.sequencer).keys["branch"] :
                j \in {k \in DOMAIN Jobs : foundingBranch(Jobs[k].cfg.sequencer)}}
App == [storage : BOOLEAN, signer : BOOLEAN, genesis : BOOLEAN, sequencer : BOOLEAN,
        devClock : BOOLEAN, layers : {<< >>} \union {Describe(Jobs[j].cfg.storage) : j \in DOMAIN Jobs},
        endpoints : Nat, founded : Branches \union {"none"}]

Bindings == [Paths -> [kind : {"absent", "file", "socket"}, by : Processes \union {Nobody}]]

\* Type correctness of the launch's state.
TypeOK ==
    /\ job \in [Processes -> DOMAIN Jobs \union {NoJob}]
    /\ pc \in [Processes -> Running \union {"off"}]
    /\ app \in [Processes -> App]
    /\ DOMAIN stage = Processes /\ DOMAIN result = Processes
    /\ errc \in [Processes -> Seq(Results)]
    /\ \A p \in Processes :
          /\ pc[p] # "off" <=> job[p] # NoJob
          /\ IF pc[p] \in {"serve", "wait"}
             THEN stage[p] \in [Endpoints(p) -> Stages] /\ result[p] \in [Endpoints(p) -> Results]
             ELSE stage[p] = << >> /\ result[p] = << >> /\ errc[p] = << >>
          /\ Len(errc[p]) <= Cardinality(Endpoints(p))
    /\ ending \in [Processes -> Results]
    /\ signalled \in [Processes -> BOOLEAN]
    /\ exit \in [Processes -> {"none", "zero", "one", "panic", "killed"}]
    /\ archive \in [Lists -> Branches \union {"none"}]
    /\ bound \in Bindings
    /\ starts \in 0 .. MaxStarts

\* What serves is the whole stack over an archive that exists: the one this launch
\* founded, if it found none (run.go requireServing, found.go foundIfConfigured); and
\* the clock is steerable only under --dev.
ServingIsWhole ==
    /\ TypeOK
    /\ \A p \in Processes : pc[p] \in {"serve", "wait"} =>
          /\ app[p].signer /\ app[p].storage /\ app[p].sequencer
          /\ archive[ListOf(Cfg(p).sequencer)] # "none"
          /\ app[p].genesis => app[p].founded = archive[ListOf(Cfg(p).sequencer)]
          /\ app[p].devClock => Line(p).dev /\ Cfg(p).sequencer.keys["type"] = "dev"

\* Whatever two processes do at once: only run and found ever found an archive, and an
\* archive is founded once (config.go: Founding is Run's, never build's).
ChecksFoundNothing ==
    [][\A l \in Lists : archive'[l] # archive[l] =>
          /\ archive[l] = "none"
          /\ \E p \in Processes :
                app[p].sequencer /\ app[p].genesis /\ Line(p).cmd # "verify"]_vars

\* Where a process is in the eyes of whoever launched it, and what that asked for.
Phase(p) ==
    IF pc[p] = "off" THEN "off"
    ELSE IF pc[p] = "serve" THEN "serving"
    ELSE IF pc[p] # "wait" THEN "launching"
    ELSE IF ending[p] = "nil" THEN "stopping" ELSE "failing"

Asked(line) ==
    LET seq == line.cfg.sequencer IN
    [cmd    |-> line.cmd,
     list   |-> IF bookmarkList(seq) THEN ListOf(seq) ELSE "none",
     branch |-> IF foundingBranch(seq) THEN GetSection(seq).keys["branch"] ELSE "none"]

Promised == INSTANCE Service WITH
    phase <- [p \in Processes |-> Phase(p)], Asks <- [j \in DOMAIN Jobs |-> Asked(Jobs[j])]

\* Whatever is assembled, fails and runs side by side inside, the processes are what
\* their commands promise: founding where nothing was founded, serving an archive that
\* is there, and an exit that says what happened (run.go, found.go, verify.go).
ImplementsService == Promised!Spec

\* A stack that starts serving settles: every endpoint comes up, or the process ends
\* (run.go serve, rest_http.go Serve).
ServingSettles ==
    \A p \in Processes : pc[p] = "serve" ~>
        \/ pc[p] = "off"
        \/ pc[p] = "serve" /\ \A i \in Endpoints(p) : stage[p][i] = "up"

\* One endpoint that fails takes the process down (run.go: a stack serving less than
\* configured is not the stack the operator asked for).
FailureTakesDown ==
    \A p \in Processes :
        (stage[p] # << >> /\ \E i \in Endpoints(p) : result[p][i] = "error") ~> pc[p] = "off"

\* A signal ends the process.
SignalStops == \A p \in Processes : signalled[p] ~> pc[p] = "off"

\* An endpoint that listens on a socket has its path: claimSocket refuses a path where
\* another instance is listening (rest_http.go:215).
LiveSocketStays ==
    \A p \in Processes : stage[p] # << >> => \A i \in Endpoints(p) :
        Address(p, i).network = "unix" /\ stage[p][i] \in {"listening", "up"} =>
            bound[On(p, i)] = [kind |-> "socket", by |-> p]

-----------------------------------------------------------------------------
(* How far a launch is.                                                    *)

MainRank == [decode |-> 1, resolve |-> 2, storage |-> 3, signer |-> 4, sequencer |-> 5,
             describe |-> 6, endpoints |-> 7, founding |-> 8, found |-> 9, founded |-> 10,
             require |-> 11, serve |-> 12, wait |-> 13]
StageRank == [stat |-> 1, dial |-> 2, remove |-> 3, bind |-> 4, chmod |-> 5, listening |-> 6,
              up |-> 7, returned |-> 8, done |-> 9]

\* The places a process has still ahead, its main goroutine's and each endpoint's.
MainAhead(p) == {n \in 1 .. 13 : pc[p] # "off" /\ MainRank[pc[p]] <= n}
StagesAhead(p) ==
    {s \in Endpoints(p) \X (1 .. 9) :
        pc[p] \in {"serve", "wait"} => StageRank[stage[p][s[1]]] <= s[2]}

Ahead(p) == ({0} \X MainAhead(p)) \union StagesAhead(p)

\* No process turns back or goes in circles: what its goroutines do uses up part of
\* what is ahead, and nothing another process or the host does puts any of it back.
NeverTurnsBack ==
    [][\A p \in Processes :
          /\ Goroutines(p) => Ahead(p)' \subseteq Ahead(p) /\ Ahead(p)' # Ahead(p)
          /\ pc[p] # "off" => Ahead(p)' \subseteq Ahead(p)]_vars

-----------------------------------------------------------------------------
(* The inductive invariant.                                                *)

Assembled ==
    {"describe", "endpoints", "founding", "found", "founded", "require", "serve", "wait"}

\* Where only one of the commands comes.
Passes(cmd, at) ==
    /\ at = "resolve" => cmd = "verify"
    /\ at = "found" => cmd = "found"
    /\ at = "founded" => cmd \in {"run", "found"}
    /\ at \in {"founding", "require", "serve", "wait"} => cmd = "run"

\* What a process has assembled is its own configuration's, over a list whose archive
\* is there once this process has seen it or founded it.
AppIsOfJob ==
    \A p \in Processes :
      /\ pc[p] = "off" => app[p] = Nothing
      /\ app[p].devClock => Line(p).dev /\ Cfg(p).sequencer.keys["type"] = "dev"
      /\ app[p].sequencer => pc[p] \in Assembled /\ bookmarkList(Cfg(p).sequencer)
      /\ app[p].sequencer /\ ~app[p].genesis => archive[ListOf(Cfg(p).sequencer)] # "none"
      /\ app[p].sequencer /\ app[p].genesis /\ pc[p] \in {"require", "serve", "wait"} =>
            /\ archive[ListOf(Cfg(p).sequencer)] # "none"
            /\ app[p].founded = archive[ListOf(Cfg(p).sequencer)]
      /\ pc[p] = "founded" =>
            /\ app[p].sequencer /\ app[p].genesis
            /\ archive[ListOf(Cfg(p).sequencer)] # "none"
            /\ archive[ListOf(Cfg(p).sequencer)] = Branch(p)
      /\ Passes(Line(p).cmd, pc[p])
      /\ pc[p] \in {"serve", "wait"} => app[p].signer /\ app[p].storage /\ app[p].sequencer

\* Before serve has stopped waiting, an endpoint returns without an error only because
\* of a signal.
NilIsASignal ==
    \A p \in Processes : pc[p] = "serve" /\ ~signalled[p] =>
      /\ \A i \in Endpoints(p) : result[p][i] # "nil"
      /\ \A k \in DOMAIN errc[p] : errc[p][k] # "nil"

IInv == TypeOK /\ AppIsOfJob /\ NilIsASignal
=============================================================================
