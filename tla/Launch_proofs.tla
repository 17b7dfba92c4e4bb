---------------------------- MODULE Launch_proofs ----------------------------
(***************************************************************************)
(* What TLAPS proves of Launch, for any processes, command lines and lists: *)
(* type correctness, that what serves is a whole stack over an archive that *)
(* exists, that an archive is founded once and by no check, that a launch   *)
(* goes one way to its end, and that it implements Service, what its        *)
(* commands promise.                                                        *)
(***************************************************************************)
EXTENDS Launch, FiniteSetTheorems, SequenceTheorems, TLAPS

\* The inductive invariant by process: what is typed as a whole, where each process
\* stands, and whether what it has assembled fits its job.
Typed ==
    /\ job \in [Processes -> DOMAIN Jobs \union {NoJob}]
    /\ pc \in [Processes -> Running \union {"off"}]
    /\ app \in [Processes -> App]
    /\ DOMAIN stage = Processes /\ DOMAIN result = Processes
    /\ errc \in [Processes -> Seq(Results)]
    /\ ending \in [Processes -> Results]
    /\ signalled \in [Processes -> BOOLEAN]
    /\ exit \in [Processes -> {"none", "zero", "one", "panic", "killed"}]
    /\ archive \in [Lists -> Branches \union {"none"}]
    /\ bound \in Bindings
    /\ starts \in 0 .. MaxStarts

Stands(p) ==
    /\ pc[p] # "off" <=> job[p] # NoJob
    /\ IF pc[p] \in {"serve", "wait"}
       THEN stage[p] \in [Endpoints(p) -> Stages] /\ result[p] \in [Endpoints(p) -> Results]
       ELSE stage[p] = << >> /\ result[p] = << >> /\ errc[p] = << >>
    /\ Len(errc[p]) <= Cardinality(Endpoints(p))

Fits(p) ==
    /\ pc[p] = "off" => app[p] = Nothing
    /\ app[p].devClock => Line(p).dev /\ Cfg(p).sequencer.keys["type"] = "dev"
    /\ app[p].sequencer => pc[p] \in Assembled /\ bookmarkList(Cfg(p).sequencer)
    /\ app[p].sequencer /\ ~app[p].genesis => archive[ListOf(Cfg(p).sequencer)] # "none"
    /\ app[p].sequencer /\ app[p].genesis /\ pc[p] \in {"require", "serve", "wait"} =>
          /\ archive[ListOf(Cfg(p).sequencer)] # "none"
          /\ app[p].founded = archive[ListOf(Cfg(p).sequencer)]
    /\ pc[p] = "founded" =>
          /\ app[p].sequencer /\ app[p].genesis
          /\ archive[ListOf(Cfg(p).sequencer)] # "none"
          /\ archive[ListOf(Cfg(p).sequencer)] = Branch(p)
    /\ Passes(Line(p).cmd, pc[p])
    /\ pc[p] \in {"serve", "wait"} => app[p].signer /\ app[p].storage /\ app[p].sequencer

State == Typed /\ \A p \in Processes : Stands(p) /\ Fits(p)

LEMMA StateIs == State /\ NilIsASignal <=> IInv
  BY DEF State, Typed, Stands, Fits, Passes, IInv, TypeOK, AppIsOfJob

LEMMA StateIsNext == State' /\ NilIsASignal' <=> IInv'
  BY DEF State, Typed, Stands, Fits, Passes, IInv, TypeOK, AppIsOfJob

-----------------------------------------------------------------------------
(* Facts about jobs.                                                        *)

\* A job's endpoints are finitely many.
LEMMA JobsFinite ==
    ASSUME NEW j \in DOMAIN Jobs
    PROVE  Cardinality(DOMAIN Jobs[j].cfg.endpoints) \in Nat
<1> DEFINE E == Jobs[j].cfg.endpoints
<1>1. E \in Seq({E[i] : i \in DOMAIN E})
  BY JobsAssumption
<1>2. Len(E) \in Nat /\ DOMAIN E = 1 .. Len(E)
  BY <1>1
<1> HIDE DEF E
<1>3. IsFiniteSet(DOMAIN E)
  BY <1>2, FS_Interval
<1>4. Cardinality(DOMAIN E) \in Nat
  BY <1>3, FS_CardinalityType
<1> QED  BY <1>4 DEF E

LEMMA EndpointsFinite ==
    ASSUME Typed, NEW p \in Processes
    PROVE  Cardinality(Endpoints(p)) \in Nat
<1>1. CASE job[p] = NoJob
  BY <1>1, FS_EmptySet DEF Endpoints
<1>2. CASE job[p] # NoJob
  BY <1>2, JobsFinite DEF Typed, Endpoints, Cfg, Line
<1> QED  BY <1>1, <1>2

\* The list a sequencer advances is one of the store's.
LEMMA ListIsThere ==
    ASSUME Typed, NEW p \in Processes, job[p] # NoJob, bookmarkList(Cfg(p).sequencer)
    PROVE  ListOf(Cfg(p).sequencer) \in Lists
<1>1. job[p] \in DOMAIN Jobs
  BY DEF Typed
<1> QED  BY <1>1, JobsAssumption DEF Cfg, Line

\* Archives are founded, and stay.
ArchivesStay == \A l \in Lists : archive[l] # "none" => archive'[l] = archive[l]

\* What a process does leaves the others as they are.
Apart(p) ==
    \A q \in Processes \ {p} :
      /\ job'[q] = job[q] /\ pc'[q] = pc[q] /\ app'[q] = app[q]
      /\ stage'[q] = stage[q] /\ result'[q] = result[q] /\ errc'[q] = errc[q]

LEMMA OthersStay ==
    ASSUME State, NEW p \in Processes, Apart(p), ArchivesStay,
           Typed', Stands(p)', Fits(p)'
    PROVE  State'
<1> SUFFICES ASSUME NEW q \in Processes \ {p} PROVE Stands(q)' /\ Fits(q)'
  BY DEF State
<1>1. Stands(q) /\ Fits(q) /\ Typed
  BY DEF State
<1>2. /\ job'[q] = job[q] /\ pc'[q] = pc[q] /\ app'[q] = app[q]
      /\ stage'[q] = stage[q] /\ result'[q] = result[q] /\ errc'[q] = errc[q]
  BY DEF Apart
<1>3. /\ Line(q)' = Line(q) /\ Cfg(q)' = Cfg(q) /\ Endpoints(q)' = Endpoints(q)
      /\ Branch(q)' = Branch(q)
  BY <1>2 DEF Line, Cfg, Endpoints, Branch
<1>4. Stands(q)'
  BY <1>1, <1>2, <1>3 DEF Stands
<1>5. app[q].sequencer => ListOf(Cfg(q).sequencer) \in Lists
  <2>1. app[q].sequencer => pc[q] # "off" /\ bookmarkList(Cfg(q).sequencer)
    BY <1>1 DEF Fits, Passes, Assembled
  <2> QED  BY <1>1, <2>1, ListIsThere DEF Stands
<1>6. Fits(q)'
  BY <1>1, <1>2, <1>3, <1>5 DEF Fits, Passes, ArchivesStay
<1> QED  BY <1>4, <1>6

-----------------------------------------------------------------------------
(* A process that is gone, and one that goes on.                            *)

Exits == {"zero", "one", "panic", "killed"}

LEMMA NothingIsApp == Nothing \in App
  BY DEF Nothing, App

LEMMA GoneStep ==
    ASSUME State, NEW p \in Processes, NEW how \in Exits, Gone(p, how), ArchivesStay,
           archive' \in [Lists -> Branches \union {"none"}]
    PROVE  State'
<1>1. Typed
  BY DEF State
<1>2. /\ job' = [job EXCEPT ![p] = NoJob] /\ pc' = [pc EXCEPT ![p] = "off"]
      /\ exit' = [exit EXCEPT ![p] = how] /\ stage' = [stage EXCEPT ![p] = << >>]
      /\ result' = [result EXCEPT ![p] = << >>] /\ errc' = [errc EXCEPT ![p] = << >>]
      /\ ending' = [ending EXCEPT ![p] = "none"] /\ signalled' = [signalled EXCEPT ![p] = FALSE]
      /\ app' = [app EXCEPT ![p] = Nothing] /\ starts' = starts
  BY DEF Gone
<1>3. bound' \in Bindings
  <2>1. bound' = Abandoned(p)
    BY DEF Gone
  <2>2. \A path \in Paths : bound[path] \in [kind : {"absent", "file", "socket"}, by : Processes \union {Nobody}]
    BY <1>1 DEF Typed, Bindings
  <2>3. \A path \in Paths :
          /\ [bound[path] EXCEPT !.by = Nobody] \in [kind : {"absent", "file", "socket"}, by : Processes \union {Nobody}]
          /\ Absent \in [kind : {"absent", "file", "socket"}, by : Processes \union {Nobody}]
    BY <2>2 DEF Absent
  <2> QED  BY <2>1, <2>2, <2>3 DEF Abandoned, Bindings
<1>4. << >> \in Seq(Results) /\ Len(<< >>) = 0
  OBVIOUS
<1>5. Typed'
  BY <1>1, <1>2, <1>3, <1>4, NothingIsApp DEF Typed, Exits, Results
<1>6. Apart(p)
  BY <1>1, <1>2 DEF Apart, Typed
<1>7. job'[p] = NoJob /\ pc'[p] = "off" /\ stage'[p] = << >> /\ result'[p] = << >>
        /\ errc'[p] = << >> /\ app'[p] = Nothing
  BY <1>1, <1>2 DEF Typed
<1>8. Stands(p)'
  BY <1>4, <1>5, <1>7, EndpointsFinite, FS_EmptySet DEF Stands, Endpoints
<1>9. Fits(p)'
  BY <1>7 DEF Fits, Passes, Nothing
<1> QED  BY <1>5, <1>6, <1>8, <1>9, OthersStay

LEMMA ExitStep ==
    ASSUME State, NEW p \in Processes, NEW how \in Exits, Exit(p, how)
    PROVE  State'
<1>1. archive' = archive /\ Gone(p, how)
  BY DEF Exit
<1>2. ArchivesStay /\ archive' \in [Lists -> Branches \union {"none"}]
  BY <1>1 DEF ArchivesStay, State, Typed
<1> QED  BY <1>1, <1>2, GoneStep

\* A launch on its way, before it serves.
Underway == Running \ {"serve", "wait"}

LEMMA GoesStep ==
    ASSUME State, NEW p \in Processes, NEW to \in Underway, pc[p] \in Underway, Goes(p, to),
           NEW a \in App, app' = [app EXCEPT ![p] = a], ArchivesStay,
           archive' \in [Lists -> Branches \union {"none"}], Fits(p)'
    PROVE  State'
<1>1. Typed /\ Stands(p)
  BY DEF State
<1>2. /\ pc' = [pc EXCEPT ![p] = to]
      /\ UNCHANGED <<job, stage, result, errc, ending, signalled, exit, bound, starts>>
  BY DEF Goes
<1>3. Typed'
  BY <1>1, <1>2 DEF Typed, Underway
<1>4. Apart(p)
  BY <1>1, <1>2 DEF Apart, Typed
<1>5. pc'[p] = to /\ Endpoints(p)' = Endpoints(p)
  BY <1>1, <1>2 DEF Typed, Endpoints, Cfg, Line
<1>6. Stands(p)'
  BY <1>1, <1>2, <1>5 DEF Stands, Underway, Running
<1> QED  BY <1>3, <1>4, <1>6, OthersStay

\* A step that leaves what is assembled and every archive alone.
LEMMA PlainStep ==
    ASSUME State, NEW p \in Processes, NEW to \in Underway, pc[p] \in Underway, Goes(p, to),
           UNCHANGED <<app, archive>>, app[p].sequencer => to \in Assembled \ {"require"},
           to # "founded", Passes(Line(p).cmd, to)
    PROVE  State'
<1>1. Typed /\ Fits(p)
  BY DEF State
<1>2. app' = [app EXCEPT ![p] = app[p]] /\ app[p] \in App
  BY <1>1 DEF Typed
<1>3. ArchivesStay /\ archive' \in [Lists -> Branches \union {"none"}]
  BY <1>1 DEF ArchivesStay, Typed
<1>4. pc'[p] = to /\ app'[p] = app[p] /\ Line(p)' = Line(p) /\ Cfg(p)' = Cfg(p) /\ archive' = archive
  BY <1>1 DEF Goes, Typed, Line, Cfg
<1>5. Fits(p)'
  BY <1>1, <1>4 DEF Fits, Passes, Underway, Running, Assembled
<1> QED  BY <1>2, <1>3, <1>5, GoesStep
-----------------------------------------------------------------------------
(* The steps of a launch.                                                   *)

LEMMA EitherStep ==
    ASSUME State, NEW p \in Processes, NEW to \in Underway, pc[p] \in Underway,
           NEW holds, Either(p, holds, to), app[p].sequencer => to \in Assembled \ {"require"},
           to # "founded", Passes(Line(p).cmd, to)
    PROVE  State'
BY PlainStep, ExitStep DEF Either, Exits

\* Nothing of the sequencer is there before it is opened.
LEMMA NotOpened ==
    ASSUME State, NEW p \in Processes, pc[p] \notin Assembled
    PROVE  ~app[p].sequencer
BY DEF State, Fits, Passes

LEMMA DecodeStep == ASSUME State, NEW p \in Processes, Decode(p) PROVE State'
<1>1. pc[p] = "decode" /\ pc[p] \in Underway /\ ~app[p].sequencer
  BY NotOpened DEF Decode, Underway, Running, Assembled
<1>2. \/ Exit(p, "zero")
      \/ \E to \in {"resolve", "storage"}, holds \in BOOLEAN :
            (to = "resolve" => Line(p).cmd = "verify") /\ Either(p, holds, to)
  <2> DEFINE holds == (Line(p).cmd = "found" => Line(p).pubkey # "unread") /\ Decodes(Line(p))
             to == IF Line(p).cmd = "verify" THEN "resolve" ELSE "storage"
  <2>1. Exit(p, "zero") \/ Either(p, holds, to)
    BY DEF Decode
  <2>2. CASE holds
    BY <2>1, <2>2 DEF Either
  <2>3. CASE ~holds
    BY <2>1, <2>3 DEF Either
  <2> QED  BY <2>2, <2>3
<1>3. CASE Exit(p, "zero")
  BY <1>3, ExitStep DEF Exits
<1>4. ASSUME NEW to \in {"resolve", "storage"}, NEW holds \in BOOLEAN,
             to = "resolve" => Line(p).cmd = "verify", Either(p, holds, to)
      PROVE  State'
  BY <1>1, <1>4, EitherStep DEF Underway, Running, Passes
<1> QED  BY <1>2, <1>3, <1>4

LEMMA ResolveStep == ASSUME State, NEW p \in Processes, Resolve(p) PROVE State'
<1>1. pc[p] = "resolve" /\ pc[p] \in Underway /\ ~app[p].sequencer
  BY NotOpened DEF Resolve, Underway, Running, Assembled
<1>2. CASE Exit(p, "zero")
  BY <1>2, ExitStep DEF Exits
<1>3. CASE Either(p, resolveAll(Cfg(p)), "storage")
  BY <1>1, <1>3, EitherStep DEF Underway, Running, Passes
<1> QED  BY <1>2, <1>3 DEF Resolve

\* A step that adds to what is assembled, and founds nothing.
LEMMA AddsStep ==
    ASSUME State, NEW p \in Processes, NEW to \in Underway, pc[p] \in Underway, Goes(p, to),
           NEW a \in App, app' = [app EXCEPT ![p] = a], UNCHANGED archive, Fits(p)'
    PROVE  State'
<1>1. ArchivesStay /\ archive' \in [Lists -> Branches \union {"none"}]
  BY DEF ArchivesStay, State, Typed
<1> QED  BY <1>1, GoesStep

\* The job stays while a process goes on.
LEMMA JobStays ==
    ASSUME State, NEW p \in Processes, NEW to, Goes(p, to)
    PROVE  /\ pc'[p] = to /\ Line(p)' = Line(p) /\ Cfg(p)' = Cfg(p)
           /\ Fits(p) /\ app[p] \in App /\ app \in [Processes -> App]
BY DEF Goes, State, Typed, Line, Cfg

LEMMA StorageStep == ASSUME State, NEW p \in Processes, BuildStorage(p) PROVE State'
<1>1. pc[p] = "storage" /\ pc[p] \in Underway /\ ~app[p].sequencer
  BY NotOpened DEF BuildStorage, Underway, Running, Assembled
<1>2. CASE Exit(p, "one")
  BY <1>2, ExitStep DEF Exits
<1>3. CASE /\ app' = [app EXCEPT ![p].storage = Configured(Cfg(p).storage)]
           /\ Goes(p, "signer") /\ UNCHANGED archive
  <2>1. Configured(Cfg(p).storage) \in BOOLEAN
    BY DEF Configured
  <2> DEFINE a == [app[p] EXCEPT !.storage = Configured(Cfg(p).storage)]
  <2>2. a \in App /\ app' = [app EXCEPT ![p] = a] /\ app'[p] = a
    BY <1>3, <2>1, JobStays DEF App
  <2>3. /\ a.sequencer = app[p].sequencer /\ a.devClock = app[p].devClock
    BY JobStays, <1>3 DEF App
  <2>4. Fits(p)'
    BY <1>1, <1>3, <2>2, <2>3, JobStays DEF Fits, Passes
  <2> QED  BY <1>1, <1>3, <2>2, <2>4, AddsStep DEF Underway, Running
<1> QED  BY <1>2, <1>3 DEF BuildStorage

LEMMA SignerStep == ASSUME State, NEW p \in Processes, BuildSigner(p) PROVE State'
<1>1. pc[p] = "signer" /\ pc[p] \in Underway /\ ~app[p].sequencer
  BY NotOpened DEF BuildSigner, Underway, Running, Assembled
<1>2. CASE Exit(p, "one")
  BY <1>2, ExitStep DEF Exits
<1>3. CASE /\ app' = [app EXCEPT ![p].signer = Configured(Cfg(p).signer)]
           /\ Goes(p, "sequencer") /\ UNCHANGED archive
  <2>1. Configured(Cfg(p).signer) \in BOOLEAN
    BY DEF Configured
  <2> DEFINE a == [app[p] EXCEPT !.signer = Configured(Cfg(p).signer)]
  <2>2. a \in App /\ app' = [app EXCEPT ![p] = a] /\ app'[p] = a
    BY <1>3, <2>1, JobStays DEF App
  <2>3. /\ a.sequencer = app[p].sequencer /\ a.devClock = app[p].devClock
    BY JobStays, <1>3 DEF App
  <2>4. Fits(p)'
    BY <1>1, <1>3, <2>2, <2>3, JobStays DEF Fits, Passes
  <2> QED  BY <1>1, <1>3, <2>2, <2>4, AddsStep DEF Underway, Running
<1> QED  BY <1>2, <1>3 DEF BuildSigner
\* --dev is accepted over a dev sequencer only.
LEMMA SteersDev ==
    ASSUME NEW j, SteersClock(j), j.dev
    PROVE  j.cfg.sequencer.keys["type"] = "dev"
BY DEF SteersClock, Value

LEMMA SequencerStep == ASSUME State, NEW p \in Processes, OpenSequencer(p) PROVE State'
<1>1. pc[p] = "sequencer" /\ pc[p] \in Underway /\ ~app[p].sequencer
  BY NotOpened DEF OpenSequencer, Underway, Running, Assembled
<1>2. CASE Goes(p, "describe") /\ UNCHANGED <<app, archive>>
  BY <1>1, <1>2, PlainStep DEF Underway, Running, Passes
<1>3. ASSUME NEW how \in Exits, Exit(p, how) PROVE State'
  BY <1>3, ExitStep
<1>4. CASE /\ Line(p).cmd = "run" => SteersClock(Line(p))
           /\ NewSequencer(Cfg(p))
           /\ app' = [app EXCEPT
                  ![p].sequencer = TRUE,
                  ![p].genesis = archive[ListOf(Cfg(p).sequencer)] = "none",
                  ![p].devClock = Line(p).cmd = "run" /\ Line(p).dev]
           /\ Goes(p, "describe") /\ UNCHANGED archive
  <2> DEFINE empty == archive[ListOf(Cfg(p).sequencer)] = "none"
             steered == Line(p).cmd = "run" /\ Line(p).dev
             a == [app[p] EXCEPT !.sequencer = TRUE, !.genesis = empty, !.devClock = steered]
  <2>1. empty \in BOOLEAN /\ steered \in BOOLEAN
    OBVIOUS
  <2>2. a \in App /\ app' = [app EXCEPT ![p] = a] /\ app'[p] = a
    <3> HIDE DEF empty, steered
    <3>1. app' = [app EXCEPT ![p].sequencer = TRUE, ![p].genesis = empty, ![p].devClock = steered]
      BY <1>4 DEF empty, steered
    <3>2. app[p] \in App /\ app \in [Processes -> App]
      BY <1>4, JobStays
    <3>3. a \in App
      BY <2>1, <3>2 DEF App
    <3>4. app' = [app EXCEPT ![p] = a]
      BY <3>1, <3>2 DEF App
    <3> QED  BY <3>2, <3>3, <3>4
  <2>3. /\ a.sequencer = TRUE /\ a.genesis = empty /\ a.devClock = steered
    <3> HIDE DEF empty, steered
    <3> QED  BY JobStays, <1>4 DEF App
  <2>4. bookmarkList(Cfg(p).sequencer)
    BY <1>4 DEF NewSequencer
  <2>5. steered => Line(p).dev /\ Cfg(p).sequencer.keys["type"] = "dev"
    BY <1>4, SteersDev DEF Cfg
  <2>6. /\ pc'[p] = "describe" /\ Line(p)' = Line(p) /\ Cfg(p)' = Cfg(p) /\ archive' = archive
    BY <1>4, JobStays
  <2>7. Fits(p)'
    <3> HIDE DEF a, steered
    <3>1. app'[p].devClock => Line(p)'.dev /\ Cfg(p)'.sequencer.keys["type"] = "dev"
      BY <2>2, <2>3, <2>5, <2>6
    <3>2. ~app'[p].genesis => archive'[ListOf(Cfg(p)'.sequencer)] # "none"
      BY <2>2, <2>3, <2>6
    <3> QED  BY <2>2, <2>3, <2>4, <2>6, <3>1, <3>2 DEF Fits, Passes, Assembled
  <2> HIDE DEF a
  <2> QED  BY <1>1, <1>4, <2>2, <2>7, AddsStep DEF Underway, Running
<1> QED  BY <1>2, <1>3, <1>4 DEF OpenSequencer, Exits

LEMMA DescribeStep == ASSUME State, NEW p \in Processes, DescribeLayers(p) PROVE State'
<1>1. pc[p] = "describe" /\ pc[p] \in Underway
  BY DEF DescribeLayers, Underway, Running
<1>2. CASE Goes(p, "endpoints") /\ UNCHANGED <<app, archive>>
  BY <1>1, <1>2, PlainStep DEF Underway, Running, Assembled, Passes
<1>3. CASE Exit(p, "one")
  BY <1>3, ExitStep DEF Exits
<1>4. CASE /\ app' = [app EXCEPT ![p].layers = Describe(Cfg(p).storage)]
           /\ Goes(p, "endpoints") /\ UNCHANGED archive
  <2> DEFINE a == [app[p] EXCEPT !.layers = Describe(Cfg(p).storage)]
  <2>1. job[p] \in DOMAIN Jobs
    BY <1>1 DEF State, Typed, Stands
  <2>2. a \in App /\ app' = [app EXCEPT ![p] = a] /\ app'[p] = a
    <3> DEFINE layers == Describe(Cfg(p).storage)
               Layers == {<< >>} \union {Describe(Jobs[j].cfg.storage) : j \in DOMAIN Jobs}
    <3>1. layers \in Layers
      BY <2>1, Zenon DEF Cfg, Line
    <3>2. App = [storage : BOOLEAN, signer : BOOLEAN, genesis : BOOLEAN, sequencer : BOOLEAN,
                 devClock : BOOLEAN, layers : Layers, endpoints : Nat,
                 founded : Branches \union {"none"}]
      BY DEF App
    <3> HIDE DEF layers, Layers
    <3>3. a = [app[p] EXCEPT !.layers = layers] /\ app' = [app EXCEPT ![p].layers = layers]
      BY <1>4 DEF layers
    <3>4. app[p] \in App /\ app \in [Processes -> App]
      BY <1>4, JobStays
    <3>5. [app[p] EXCEPT !.layers = layers] \in App
      BY <3>1, <3>2, <3>4
    <3>6. app' = [app EXCEPT ![p] = [app[p] EXCEPT !.layers = layers]]
      BY <3>3, <3>4
    <3> HIDE DEF a
    <3> QED  BY <3>3, <3>4, <3>5, <3>6
  <2>3. /\ a.sequencer = app[p].sequencer /\ a.devClock = app[p].devClock
        /\ a.genesis = app[p].genesis
    BY JobStays, <1>4 DEF App
  <2>4. Fits(p)'
    BY <1>1, <1>4, <2>2, <2>3, JobStays DEF Fits, Passes, Assembled
  <2> QED  BY <1>1, <1>4, <2>2, <2>4, AddsStep DEF Underway, Running
<1> QED  BY <1>2, <1>3, <1>4 DEF DescribeLayers

LEMMA EndpointsStep == ASSUME State, NEW p \in Processes, BuildEndpoints(p) PROVE State'
<1>1. pc[p] = "endpoints" /\ pc[p] \in Underway
  BY DEF BuildEndpoints, Underway, Running
<1>2. ASSUME NEW how \in Exits, Exit(p, how) PROVE State'
  BY <1>2, ExitStep
<1>3. ASSUME NEW to \in {"founding", "found"}, Passes(Line(p).cmd, to),
             app' = [app EXCEPT ![p].endpoints = Cardinality(Endpoints(p))],
             Goes(p, to), UNCHANGED archive
      PROVE  State'
  <2> DEFINE a == [app[p] EXCEPT !.endpoints = Cardinality(Endpoints(p))]
  <2>1. Cardinality(Endpoints(p)) \in Nat
    BY EndpointsFinite DEF State
  <2>2. a \in App /\ app' = [app EXCEPT ![p] = a] /\ app'[p] = a
    BY <1>3, <2>1, JobStays DEF App
  <2>3. /\ a.sequencer = app[p].sequencer /\ a.devClock = app[p].devClock
        /\ a.genesis = app[p].genesis
    BY JobStays, <1>3 DEF App
  <2>4. Fits(p)'
    BY <1>1, <1>3, <2>2, <2>3, JobStays DEF Fits, Passes, Assembled
  <2> QED  BY <1>1, <1>3, <2>2, <2>4, AddsStep DEF Underway, Running
<1>4. Line(p).cmd \in {"run", "verify", "found"}
  BY <1>1, JobsAssumption DEF State, Typed, Stands, Line
<1> QED  BY <1>2, <1>3, <1>4 DEF BuildEndpoints, Exits, Passes

-----------------------------------------------------------------------------
(* Founding.                                                                *)

\* A list that is empty is founded on the branch the configuration names.
LEMMA FoundsStep ==
    ASSUME State, NEW p \in Processes, pc[p] \in {"founding", "found"}, Founds(p),
           app[p].sequencer, app[p].genesis, foundingBranch(Cfg(p).sequencer)
    PROVE  State'
<1> DEFINE list == ListOf(Cfg(p).sequencer)
<1>1. Typed /\ Fits(p) /\ Stands(p)
  BY DEF State
<1>2. job[p] \in DOMAIN Jobs /\ job[p] # NoJob
  BY <1>1 DEF Typed, Stands
<1>3. Branch(p) \in Branches /\ Branch(p) # "none"
  BY <1>2, JobsAssumption DEF Branches, Branch, Cfg, Line
<1>4. list \in Lists
  BY <1>1, <1>2, ListIsThere DEF Fits, Passes
<1>5. CASE archive[list] # "none"
  BY <1>5, ExitStep DEF Founds, Exits
<1>6. CASE archive[list] = "none"
  <2>1. /\ archive' = [archive EXCEPT ![list] = Branch(p)]
        /\ Goes(p, "founded") /\ app' = app
    BY <1>6 DEF Founds
  <2>2. ArchivesStay /\ archive' \in [Lists -> Branches \union {"none"}]
    BY <1>1, <1>3, <1>6, <2>1 DEF ArchivesStay, Typed
  <2>3. app' = [app EXCEPT ![p] = app[p]] /\ app[p] \in App
    BY <1>1, <2>1 DEF Typed
  <2>4. /\ pc'[p] = "founded" /\ Line(p)' = Line(p) /\ Cfg(p)' = Cfg(p) /\ app'[p] = app[p]
    BY <2>1, JobStays
  <2>5. Branch(p)' = Branch(p)
    BY <2>4 DEF Branch
  <2>6. archive'[list] = Branch(p)
    BY <1>1, <1>4, <2>1 DEF Typed
  <2>7. Line(p).cmd \in {"run", "found"}
    BY <1>1 DEF Fits, Passes
  <2>8. Fits(p)'
    BY <1>1, <1>3, <2>4, <2>5, <2>6, <2>7 DEF Fits, Passes, Assembled
  <2>9. pc[p] \in Underway /\ "founded" \in Underway
    BY DEF Underway, Running
  <2> QED  BY <2>1, <2>2, <2>3, <2>8, <2>9, GoesStep
<1> QED  BY <1>5, <1>6

\* What this launch founded is what its list leads to.
LEMMA ReadsFoundedStep == ASSUME State, NEW p \in Processes, ReadsFounded(p) PROVE State'
<1>1. Typed /\ Fits(p) /\ Stands(p) /\ pc[p] = "founded"
  BY DEF State, ReadsFounded
<1>2. CASE Exit(p, "zero")
  BY <1>2, ExitStep DEF Exits
<1>3. CASE /\ Line(p).cmd # "found" /\ app' = [app EXCEPT ![p].founded = Branch(p)]
           /\ Goes(p, "require") /\ UNCHANGED archive
  <2> DEFINE list == ListOf(Cfg(p).sequencer)
             branch == Branch(p)
             a == [app[p] EXCEPT !.founded = branch]
  <2>1. list \in Lists
    BY <1>1, ListIsThere DEF Fits, Passes, Stands
  <2>2. archive[list] = branch /\ branch \in Branches \union {"none"}
    BY <1>1, <2>1 DEF Fits, Typed
  <2> HIDE DEF branch
  <2>3. app' = [app EXCEPT ![p].founded = branch]
    BY <1>3 DEF branch
  <2>4. a \in App /\ app' = [app EXCEPT ![p] = a] /\ app'[p] = a
    <3>1. app[p] \in App /\ app \in [Processes -> App]
      BY <1>1 DEF Typed
    <3>2. a \in App
      BY <2>2, <3>1 DEF App
    <3>3. app' = [app EXCEPT ![p] = a]
      BY <2>3, <3>1 DEF App
    <3> QED  BY <3>1, <3>2, <3>3
  <2>5. /\ a.sequencer = app[p].sequencer /\ a.devClock = app[p].devClock
        /\ a.genesis = app[p].genesis /\ a.founded = branch
    BY <1>3, JobStays DEF App
  <2>6. /\ pc'[p] = "require" /\ Line(p)' = Line(p) /\ Cfg(p)' = Cfg(p)
    BY <1>3, JobStays
  <2>7. Line(p).cmd = "run"
    BY <1>1, <1>3 DEF Fits, Passes
  <2> HIDE DEF a
  <2>8. Fits(p)'
    BY <1>1, <1>3, <2>2, <2>4, <2>5, <2>6, <2>7 DEF Fits, Passes, Assembled
  <2>9. pc[p] \in Underway /\ "require" \in Underway
    BY <1>1 DEF Underway, Running
  <2> QED  BY <1>3, <2>4, <2>8, <2>9, AddsStep
<1> QED  BY <1>2, <1>3 DEF ReadsFounded

\* There is nothing to found: the archive is there, or there is no sequencer.
LEMMA RequiresStep ==
    ASSUME State, NEW p \in Processes, pc[p] = "founding", Goes(p, "require"),
           UNCHANGED <<app, archive>>, ~app[p].sequencer \/ ~app[p].genesis
    PROVE  State'
<1>1. app' = [app EXCEPT ![p] = app[p]] /\ app[p] \in App
  BY DEF State, Typed
<1>2. /\ pc'[p] = "require" /\ Line(p)' = Line(p) /\ Cfg(p)' = Cfg(p) /\ app'[p] = app[p]
      /\ archive' = archive /\ Fits(p)
  BY JobStays
<1>3. Fits(p)'
  BY <1>2 DEF Fits, Passes, Assembled
<1> QED  BY <1>1, <1>3, AddsStep DEF Underway, Running

LEMMA FoundingStep == ASSUME State, NEW p \in Processes, foundIfConfigured(p) PROVE State'
<1>1. pc[p] = "founding"
  BY DEF foundIfConfigured
<1>2. CASE ~app[p].sequencer \/ ~app[p].genesis
  BY <1>1, <1>2, RequiresStep DEF foundIfConfigured
<1>3. CASE app[p].sequencer /\ app[p].genesis
  <2>1. Exit(p, "one") \/ (Founds(p) /\ foundingBranch(Cfg(p).sequencer))
    BY <1>3 DEF foundIfConfigured
  <2> QED  BY <1>1, <1>3, <2>1, FoundsStep, ExitStep DEF Exits
<1> QED  BY <1>2, <1>3

LEMMA FoundStep == ASSUME State, NEW p \in Processes, Found(p) PROVE State'
<1>1. pc[p] = "found"
  BY DEF Found
<1>2. \/ \E how \in Exits : Exit(p, how)
      \/ /\ Founds(p) /\ foundingBranch(Cfg(p).sequencer)
         /\ app[p].sequencer /\ app[p].genesis
  BY DEF Found, Exits
<1> QED  BY <1>1, <1>2, FoundsStep, ExitStep
LEMMA ServingStep == ASSUME State, NEW p \in Processes, requireServing(p) PROVE State'
<1>1. Typed /\ Stands(p) /\ Fits(p) /\ pc[p] = "require"
  BY DEF State, requireServing
<1>2. CASE Exit(p, "one")
  BY <1>2, ExitStep DEF Exits
<1>3. CASE ~Exit(p, "one")
  <2>1. /\ app[p].signer /\ app[p].storage /\ app[p].sequencer
        /\ pc' = [pc EXCEPT ![p] = "serve"]
        /\ stage' = [stage EXCEPT ![p] = [i \in Endpoints(p) |->
              IF Address(p, i).network = "unix" THEN "stat" ELSE "bind"]]
        /\ result' = [result EXCEPT ![p] = [i \in Endpoints(p) |-> "none"]]
        /\ UNCHANGED <<job, app, errc, ending, signalled, exit, archive, bound, starts>>
    BY <1>3 DEF requireServing
  <2>2. Typed'
    BY <1>1, <2>1 DEF Typed, Running
  <2>3. Apart(p) /\ ArchivesStay
    BY <1>1, <2>1 DEF Apart, ArchivesStay, Typed
  <2>4. /\ pc'[p] = "serve" /\ Endpoints(p)' = Endpoints(p) /\ Line(p)' = Line(p) /\ Cfg(p)' = Cfg(p)
        /\ stage'[p] = [i \in Endpoints(p) |-> IF Address(p, i).network = "unix" THEN "stat" ELSE "bind"]
        /\ result'[p] = [i \in Endpoints(p) |-> "none"]
    BY <1>1, <2>1 DEF Typed, Endpoints, Cfg, Line
  <2>5. stage'[p] \in [Endpoints(p) -> Stages] /\ result'[p] \in [Endpoints(p) -> Results]
    BY <2>4 DEF Stages, Results
  <2>6. Stands(p)'
    BY <1>1, <2>1, <2>4, <2>5 DEF Stands
  <2>7. Fits(p)'
    BY <1>1, <2>1, <2>4 DEF Fits, Passes, Assembled
  <2> QED  BY <2>2, <2>3, <2>6, <2>7, OthersStay
<1> QED  BY <1>2, <1>3

-----------------------------------------------------------------------------
(* The endpoints' goroutines and the main one.                              *)

\* A step of one endpoint: its stage, what it returned, what is bound.
LEMMA EndpointStep ==
    ASSUME State, NEW p \in Processes, NEW i \in Endpoints(p), NEW here,
           NEW there \in Stages, NEW what \in Results, At(p, i, here, there),
           result' = result \/ result' = [result EXCEPT ![p][i] = what],
           bound' \in Bindings
    PROVE  State'
<1>1. Typed /\ Stands(p) /\ Fits(p)
  BY DEF State
<1>2. /\ stage[p] # << >> /\ stage' = [stage EXCEPT ![p][i] = there]
      /\ UNCHANGED <<job, pc, app, errc, ending, signalled, exit, archive, starts>>
  BY DEF At
<1>3. /\ pc[p] \in {"serve", "wait"}
      /\ stage[p] \in [Endpoints(p) -> Stages] /\ result[p] \in [Endpoints(p) -> Results]
  BY <1>1, <1>2 DEF Stands
<1>4. Typed'
  BY <1>1, <1>2 DEF Typed
<1>5. Apart(p) /\ ArchivesStay
  BY <1>1, <1>2 DEF Apart, ArchivesStay, Typed
<1>6. /\ stage'[p] = [stage[p] EXCEPT ![i] = there]
      /\ result'[p] = result[p] \/ result'[p] = [result[p] EXCEPT ![i] = what]
  BY <1>1, <1>2 DEF Typed
<1>7. stage'[p] \in [Endpoints(p) -> Stages] /\ result'[p] \in [Endpoints(p) -> Results]
  BY <1>3, <1>6
<1>8. Endpoints(p)' = Endpoints(p) /\ Line(p)' = Line(p) /\ Cfg(p)' = Cfg(p)
  BY <1>2 DEF Endpoints, Cfg, Line
<1>9. Stands(p)'
  BY <1>1, <1>2, <1>3, <1>7, <1>8 DEF Stands
<1>10. Fits(p)'
  BY <1>1, <1>2, <1>3, <1>8 DEF Fits, Passes
<1> QED  BY <1>4, <1>5, <1>9, <1>10, OthersStay

LEMMA BindingsTyped ==
    ASSUME Typed, NEW p \in Processes, NEW i
    PROVE  /\ bound \in Bindings /\ Unbound(p, i) \in Bindings
           /\ [bound EXCEPT ![On(p, i)] = Absent] \in Bindings
           /\ [bound EXCEPT ![On(p, i)] = [kind |-> "socket", by |-> p]] \in Bindings
<1> DEFINE Binding == [kind : {"absent", "file", "socket"}, by : Processes \union {Nobody}]
<1>1. Absent \in Binding /\ [kind |-> "socket", by |-> p] \in Binding
  BY DEF Absent
<1>2. bound \in [Paths -> Binding] /\ Bindings = [Paths -> Binding]
  BY DEF Typed, Bindings
<1> DEFINE drops == Address(p, i).network = "unix" \/ bound[On(p, i)].by = p
<1>3. Unbound(p, i) = [bound EXCEPT ![On(p, i)] = IF drops THEN Absent ELSE bound[On(p, i)]]
  BY DEF Unbound
<1> HIDE DEF Binding, drops
<1>4. [bound EXCEPT ![On(p, i)] = IF drops THEN Absent ELSE bound[On(p, i)]] \in [Paths -> Binding]
  BY <1>1, <1>2
<1>5. /\ [bound EXCEPT ![On(p, i)] = Absent] \in [Paths -> Binding]
      /\ [bound EXCEPT ![On(p, i)] = [kind |-> "socket", by |-> p]] \in [Paths -> Binding]
  BY <1>1, <1>2
<1> QED  BY <1>2, <1>3, <1>4, <1>5

LEMMA ProceedsStep ==
    ASSUME State, NEW p \in Processes, NEW i \in Endpoints(p), NEW here,
           NEW there \in Stages, Proceeds(p, i, here, there), bound' \in Bindings
    PROVE  State'
BY EndpointStep DEF Proceeds, Results

LEMMA ReturnsStep ==
    ASSUME State, NEW p \in Processes, NEW i \in Endpoints(p), NEW here,
           NEW what \in Results, Returns(p, i, here, what), bound' \in Bindings
    PROVE  State'
BY EndpointStep DEF Returns, Stages

LEMMA ServeStep ==
    ASSUME State, NEW p \in Processes, NEW i \in Endpoints(p), Serve(p, i) \/ ServeFails(p, i)
    PROVE  State'
<1> USE DEF Stages, Results
<1>1. bound' = bound => bound' \in Bindings
  BY BindingsTyped DEF State
<1>2. CASE Stat(p, i)
  BY <1>1, <1>2, ProceedsStep, ReturnsStep DEF Stat
<1>3. CASE Dial(p, i)
  BY <1>1, <1>3, ProceedsStep, ReturnsStep DEF Dial
<1>4. CASE Unlink(p, i)
  BY <1>1, <1>4, BindingsTyped, ProceedsStep, ReturnsStep DEF Unlink, State
<1>5. CASE Listen(p, i)
  BY <1>1, <1>5, BindingsTyped, ProceedsStep, ReturnsStep DEF Listen, State
<1>6. CASE Chmod(p, i)
  BY <1>1, <1>6, ProceedsStep, ReturnsStep DEF Chmod
<1>7. CASE Accept(p, i)
  BY <1>1, <1>7, ProceedsStep DEF Accept
<1>8. CASE Shutdown(p, i)
  BY <1>1, <1>8, BindingsTyped, ReturnsStep DEF Shutdown, State
<1>9. CASE ServeFails(p, i)
  BY <1>9, BindingsTyped, ReturnsStep DEF ServeFails, State
<1> QED  BY <1>2, <1>3, <1>4, <1>5, <1>6, <1>7, <1>8, <1>9 DEF Serve, claimSocket

\* A step of the process itself while it serves: its results, and what it waits with.
LEMMA MainStep ==
    ASSUME State, NEW p \in Processes, pc[p] \in {"serve", "wait"}, NEW to \in {"serve", "wait"},
           pc' = [pc EXCEPT ![p] = to], DOMAIN stage' = Processes,
           stage'[p] \in [Endpoints(p) -> Stages],
           \A q \in Processes \ {p} : stage'[q] = stage[q], NEW sent \in Seq(Results),
           errc' = [errc EXCEPT ![p] = sent], Len(sent) <= Cardinality(Endpoints(p)),
           ending' \in [Processes -> Results], signalled' \in [Processes -> BOOLEAN],
           UNCHANGED <<job, app, result, exit, archive, bound, starts>>
    PROVE  State'
<1>1. Typed /\ Stands(p) /\ Fits(p)
  BY DEF State
<1>2. Typed'
  BY <1>1 DEF Typed, Running
<1>3. Apart(p) /\ ArchivesStay
  BY <1>1 DEF Apart, ArchivesStay, Typed
<1>4. pc'[p] = to /\ errc'[p] = sent
  BY <1>1 DEF Typed
<1>5. Endpoints(p)' = Endpoints(p) /\ Line(p)' = Line(p) /\ Cfg(p)' = Cfg(p)
  BY DEF Endpoints, Cfg, Line
<1>6. Stands(p)'
  BY <1>1, <1>4, <1>5 DEF Stands
<1>7. Fits(p)'
  BY <1>1, <1>4, <1>5 DEF Fits, Passes, Assembled
<1> QED  BY <1>2, <1>3, <1>6, <1>7, OthersStay

LEMMA ServingFacts ==
    ASSUME State, NEW p \in Processes, stage[p] # << >> \/ pc[p] \in {"serve", "wait"}
    PROVE  /\ pc[p] \in {"serve", "wait"} /\ pc = [pc EXCEPT ![p] = pc[p]]
           /\ stage[p] \in [Endpoints(p) -> Stages] /\ DOMAIN stage = Processes
           /\ result[p] \in [Endpoints(p) -> Results]
           /\ errc[p] \in Seq(Results) /\ errc = [errc EXCEPT ![p] = errc[p]]
           /\ Len(errc[p]) <= Cardinality(Endpoints(p)) /\ Cardinality(Endpoints(p)) \in Nat
           /\ ending \in [Processes -> Results] /\ signalled \in [Processes -> BOOLEAN]
<1>1. Typed /\ Stands(p)
  BY DEF State
<1> QED  BY <1>1, EndpointsFinite DEF Typed, Stands

LEMMA SendStep == ASSUME State, NEW p \in Processes, NEW i \in Endpoints(p), Send(p, i) PROVE State'
<1> DEFINE sent == Append(errc[p], result[p][i])
<1>1. /\ stage[p] # << >> /\ Len(errc[p]) < Cardinality(Endpoints(p))
      /\ errc' = [errc EXCEPT ![p] = sent] /\ stage' = [stage EXCEPT ![p][i] = "done"]
      /\ UNCHANGED <<job, pc, app, result, ending, signalled, exit, archive, bound, starts>>
  BY DEF Send
<1>2. /\ pc[p] \in {"serve", "wait"} /\ pc' = [pc EXCEPT ![p] = pc[p]]
      /\ stage[p] \in [Endpoints(p) -> Stages] /\ DOMAIN stage = Processes
      /\ result[p][i] \in Results /\ errc[p] \in Seq(Results)
      /\ Cardinality(Endpoints(p)) \in Nat
  BY <1>1, ServingFacts
<1>3. sent \in Seq(Results) /\ Len(sent) <= Cardinality(Endpoints(p))
  BY <1>1, <1>2
<1>4. /\ DOMAIN stage' = Processes /\ stage'[p] \in [Endpoints(p) -> Stages]
      /\ \A q \in Processes \ {p} : stage'[q] = stage[q]
  BY <1>1, <1>2 DEF Stages
<1>5. ending' \in [Processes -> Results] /\ signalled' \in [Processes -> BOOLEAN]
  BY <1>1, ServingFacts
<1> HIDE DEF sent
<1> QED  BY <1>1, <1>2, <1>3, <1>4, <1>5, MainStep

LEMMA WaitsStep ==
    ASSUME State, NEW p \in Processes, NEW with \in Results, Waits(p, with),
           errc' = errc \/ (errc[p] # << >> /\ errc' = [errc EXCEPT ![p] = Tail(@)])
    PROVE  State'
<1> DEFINE sent == IF errc' = errc THEN errc[p] ELSE Tail(errc[p])
<1>1. /\ pc[p] = "serve" /\ pc' = [pc EXCEPT ![p] = "wait"]
      /\ ending' = [ending EXCEPT ![p] = with]
      /\ UNCHANGED <<job, app, stage, result, signalled, exit, archive, bound, starts>>
  BY DEF Waits
<1>2. sent \in Seq(Results) /\ Len(sent) <= Cardinality(Endpoints(p))
  BY <1>1, ServingFacts
<1>3. errc' = [errc EXCEPT ![p] = sent]
  BY <1>1, ServingFacts
<1>4. /\ DOMAIN stage' = Processes /\ stage'[p] \in [Endpoints(p) -> Stages]
      /\ \A q \in Processes \ {p} : stage'[q] = stage[q]
  BY <1>1, ServingFacts
<1>5. ending' \in [Processes -> Results] /\ signalled' \in [Processes -> BOOLEAN]
  BY <1>1, ServingFacts
<1> HIDE DEF sent
<1> QED  BY <1>1, <1>2, <1>3, <1>4, <1>5, MainStep

LEMMA SignalStep == ASSUME State, NEW p \in Processes, Signal(p) PROVE State'
<1>1. /\ pc[p] \in {"serve", "wait"} /\ signalled' = [signalled EXCEPT ![p] = TRUE]
      /\ UNCHANGED <<job, pc, app, stage, result, errc, ending, exit, archive, bound, starts>>
  BY DEF Signal
<1>2. /\ pc' = [pc EXCEPT ![p] = pc[p]] /\ errc' = [errc EXCEPT ![p] = errc[p]]
      /\ errc[p] \in Seq(Results) /\ Len(errc[p]) <= Cardinality(Endpoints(p))
      /\ DOMAIN stage' = Processes /\ stage'[p] \in [Endpoints(p) -> Stages]
      /\ \A q \in Processes \ {p} : stage'[q] = stage[q]
      /\ ending' \in [Processes -> Results] /\ signalled' \in [Processes -> BOOLEAN]
  BY <1>1, ServingFacts
<1> QED  BY <1>1, <1>2, MainStep

LEMMA ReceiveStep ==
    ASSUME State, NEW p \in Processes, Receive(p) \/ ShutsDown(p) \/ Finish(p)
    PROVE  State'
<1>1. CASE Receive(p)
  <2>1. errc[p] # << >> /\ Waits(p, Head(errc[p])) /\ errc' = [errc EXCEPT ![p] = Tail(@)]
    BY <1>1 DEF Receive
  <2>2. Head(errc[p]) \in Results
    BY <2>1, ServingFacts DEF Waits
  <2> QED  BY <2>1, <2>2, WaitsStep
<1>2. CASE ShutsDown(p)
  BY <1>2, WaitsStep DEF ShutsDown, Results
<1>3. CASE Finish(p)
  BY <1>3, ExitStep DEF Finish, Exits
<1> QED  BY <1>1, <1>2, <1>3

\* A process that is started has assembled nothing yet.
LEMMA StartStep ==
    ASSUME State, NEW p \in Processes, NEW j \in DOMAIN Jobs, Start(p, j)
    PROVE  State'
<1>1. Typed /\ Stands(p) /\ Fits(p)
  BY DEF State
<1>2. /\ pc[p] = "off" /\ starts < MaxStarts
      /\ job' = [job EXCEPT ![p] = j] /\ pc' = [pc EXCEPT ![p] = "decode"]
      /\ exit' = [exit EXCEPT ![p] = "none"] /\ starts' = starts + 1
      /\ UNCHANGED <<app, stage, result, errc, ending, signalled, archive, bound>>
  BY DEF Start
<1>3. starts' \in 0 .. MaxStarts
  BY <1>1, <1>2, JobsAssumption DEF Typed
<1>4. Typed'
  BY <1>1, <1>2, <1>3 DEF Typed, Running
<1>5. Apart(p) /\ ArchivesStay
  BY <1>1, <1>2 DEF Apart, ArchivesStay, Typed
<1>6. job'[p] = j /\ pc'[p] = "decode" /\ app'[p] = Nothing /\ j # NoJob
  BY <1>1, <1>2, JobsAssumption DEF Typed, Fits, Passes
<1>7. Endpoints(p)' = DOMAIN Jobs[j].cfg.endpoints
  BY <1>6 DEF Endpoints, Cfg, Line
<1>8. Cardinality(Endpoints(p)') \in Nat
  BY <1>7, JobsFinite
<1>9. stage'[p] = << >> /\ result'[p] = << >> /\ errc'[p] = << >> /\ Len(errc'[p]) = 0
  BY <1>1, <1>2 DEF Stands
<1>10. Stands(p)'
  BY <1>6, <1>8, <1>9 DEF Stands
<1>11. Fits(p)'
  BY <1>6 DEF Fits, Passes, Nothing
<1> QED  BY <1>4, <1>5, <1>10, <1>11, OthersStay

-----------------------------------------------------------------------------

LEMMA GoroutinesStep == ASSUME State, NEW p \in Processes, Goroutines(p) PROVE State'
<1>1. CASE Launch(p)
  BY <1>1, DecodeStep, ResolveStep, StorageStep, SignerStep, SequencerStep, DescribeStep,
     EndpointsStep, FoundingStep, FoundStep, ReadsFoundedStep, ServingStep DEF Launch
<1>2. CASE Receive(p) \/ ShutsDown(p) \/ Finish(p)
  BY <1>2, ReceiveStep
<1>3. ASSUME NEW i \in Endpoints(p), Serve(p, i) \/ Send(p, i) PROVE State'
  BY <1>3, ServeStep, SendStep
<1> QED  BY <1>1, <1>2, <1>3 DEF Goroutines, Serving

LEMMA EnvironmentStep == ASSUME State, NEW p \in Processes, Environment(p) PROVE State'
<1>1. CASE \E j \in DOMAIN Jobs : Start(p, j)
  BY <1>1, StartStep
<1>2. CASE BackendFails(p) \/ FoundingFails(p) \/ RefreshPanics(p) \/ Killed(p)
  <2>1. \E how \in Exits : Exit(p, how)
    BY <1>2 DEF BackendFails, FoundingFails, RefreshPanics, Killed, Exits
  <2> QED  BY <2>1, ExitStep
<1>3. CASE Signal(p)
  BY <1>3, SignalStep
<1>4. CASE \E i \in Endpoints(p) : ServeFails(p, i)
  BY <1>4, ServeStep
<1> QED  BY <1>1, <1>2, <1>3, <1>4 DEF Environment

LEMMA StateStep == ASSUME State, [Next]_vars PROVE State'
<1>1. CASE Next
  BY <1>1, GoroutinesStep, EnvironmentStep DEF Next
<1>2. CASE UNCHANGED vars
  BY <1>2 DEF State, Typed, Stands, Fits, Passes, vars, Line, Cfg, Endpoints, Branch
<1> QED  BY <1>1, <1>2

LEMMA InitState == Init => State
<1> SUFFICES ASSUME Init PROVE State
  OBVIOUS
<1>1. << >> \in Seq(Results) /\ Len(<< >>) = 0
  OBVIOUS
<1>2. bound \in Bindings
  <2> DEFINE Binding == [kind : {"absent", "file", "socket"}, by : Processes \union {Nobody}]
  <2>1. Absent \in Binding /\ [kind |-> "file", by |-> Nobody] \in Binding
    BY DEF Absent
  <2> HIDE DEF Binding
  <2>2. bound \in [Paths -> Binding]
    BY <2>1 DEF Init
  <2> QED  BY <2>2 DEF Bindings, Binding
<1>3. Typed
  BY <1>1, <1>2, NothingIsApp, JobsAssumption DEF Init, Typed, Results
<1>4. ASSUME NEW p \in Processes PROVE Stands(p) /\ Fits(p)
  <2>1. /\ pc[p] = "off" /\ job[p] = NoJob /\ app[p] = Nothing /\ stage[p] = << >>
        /\ result[p] = << >> /\ errc[p] = << >> /\ Endpoints(p) = {}
    BY DEF Init, Endpoints
  <2>2. Cardinality(Endpoints(p)) = 0
    BY <2>1, FS_EmptySet
  <2> QED  BY <1>1, <2>1, <2>2 DEF Stands, Fits, Passes, Nothing
<1> QED  BY <1>3, <1>4 DEF State

-----------------------------------------------------------------------------
(* How far a launch is.                                                     *)

LEMMA MainRanks ==
    /\ \A at \in Running : MainRank[at] \in 1 .. 13
    /\ MainRank["decode"] < MainRank["resolve"] /\ MainRank["resolve"] < MainRank["storage"]
    /\ MainRank["decode"] < MainRank["storage"] /\ MainRank["storage"] < MainRank["signer"]
    /\ MainRank["signer"] < MainRank["sequencer"] /\ MainRank["sequencer"] < MainRank["describe"]
    /\ MainRank["describe"] < MainRank["endpoints"] /\ MainRank["endpoints"] < MainRank["founding"]
    /\ MainRank["endpoints"] < MainRank["found"] /\ MainRank["founding"] < MainRank["require"]
    /\ MainRank["founding"] < MainRank["founded"] /\ MainRank["found"] < MainRank["founded"]
    /\ MainRank["founded"] < MainRank["require"] /\ MainRank["require"] < MainRank["serve"]
    /\ MainRank["serve"] < MainRank["wait"]
BY DEF MainRank, Running

LEMMA StageRanks ==
    /\ \A at \in Stages : StageRank[at] \in 1 .. 9
    /\ StageRank["stat"] < StageRank["bind"] /\ StageRank["stat"] < StageRank["dial"]
    /\ StageRank["dial"] < StageRank["remove"] /\ StageRank["remove"] < StageRank["bind"]
    /\ StageRank["bind"] < StageRank["chmod"] /\ StageRank["bind"] < StageRank["listening"]
    /\ StageRank["chmod"] < StageRank["listening"] /\ StageRank["listening"] < StageRank["up"]
    /\ \A at \in Stages \ {"returned", "done"} : StageRank[at] < StageRank["returned"]
    /\ StageRank["returned"] < StageRank["done"]
BY DEF StageRank, Stages

\* What the goroutines of a process do: the process ends, its main goroutine moves on,
\* or one of its endpoints does.
Serves(p) ==
    /\ pc[p] = "require" /\ pc' = [pc EXCEPT ![p] = "serve"]
    /\ stage' = [stage EXCEPT ![p] = [i \in Endpoints(p) |->
          IF Address(p, i).network = "unix" THEN "stat" ELSE "bind"]]
    /\ result' = [result EXCEPT ![p] = [i \in Endpoints(p) |-> "none"]]
    /\ UNCHANGED <<job, app, errc, ending, signalled, exit, archive, bound, starts>>

Onward(p) ==
    \E to \in Underway :
      pc[p] \in Underway /\ MainRank[pc[p]] < MainRank[to] /\ Goes(p, to)

Moves(p, i) ==
    \E here \in Stages, there \in Stages :
      /\ StageRank[here] < StageRank[there] /\ At(p, i, here, there)
      /\ \/ result' = result
         \/ \E what \in Results :
               /\ result' = [result EXCEPT ![p][i] = what]
               /\ what = "nil" => Cancelled(p)

Ends(p) == pc[p] # "off" /\ \E how \in Exits : Gone(p, how)

Forward(p) ==
    \/ Ends(p) \/ Onward(p) \/ Serves(p) \/ Receive(p) \/ ShutsDown(p)
    \/ \E i \in Endpoints(p) : Moves(p, i) \/ Send(p, i)

LEMMA FoundingForwards ==
    ASSUME State, NEW p \in Processes, foundIfConfigured(p) \/ Found(p) \/ ReadsFounded(p)
    PROVE  Ends(p) \/ Onward(p)
<1> USE MainRanks DEF Ends, Onward, Exits, Underway, Running
<1>1. CASE ReadsFounded(p)
  BY <1>1 DEF ReadsFounded, Exit
<1>2. CASE Founds(p) /\ pc[p] \in {"founding", "found"}
  BY <1>2 DEF Founds, Exit
<1>3. CASE ~Founds(p) /\ (foundIfConfigured(p) \/ Found(p))
  BY <1>3 DEF foundIfConfigured, Found, Exit
<1> QED  BY <1>1, <1>2, <1>3 DEF foundIfConfigured, Found

LEMMA LaunchForwards ==
    ASSUME State, NEW p \in Processes, Launch(p) PROVE Ends(p) \/ Onward(p) \/ Serves(p)
<1> USE MainRanks DEF Ends, Onward, Exits, Underway, Running
<1>1. CASE Decode(p)
  BY <1>1 DEF Decode, Either, Exit
<1>2. CASE Resolve(p)
  BY <1>2 DEF Resolve, Either, Exit
<1>3. CASE BuildStorage(p) \/ BuildSigner(p)
  BY <1>3 DEF BuildStorage, BuildSigner, Exit
<1>4. CASE OpenSequencer(p)
  BY <1>4 DEF OpenSequencer, Exit
<1>5. CASE DescribeLayers(p)
  BY <1>5 DEF DescribeLayers, Exit
<1>6. CASE BuildEndpoints(p)
  BY <1>6 DEF BuildEndpoints, Exit
<1>7. CASE foundIfConfigured(p) \/ Found(p) \/ ReadsFounded(p)
  BY <1>7, FoundingForwards
<1>8. CASE requireServing(p)
  BY <1>8 DEF requireServing, Exit, Serves
<1> QED  BY <1>1, <1>2, <1>3, <1>4, <1>5, <1>6, <1>7, <1>8 DEF Launch

LEMMA EndpointForwards ==
    ASSUME NEW p \in Processes, NEW i \in Endpoints(p), Serve(p, i) \/ ServeFails(p, i)
    PROVE  Moves(p, i)
<1>1. ASSUME NEW here \in Stages, NEW there \in Stages, Proceeds(p, i, here, there),
             StageRank[here] < StageRank[there]
      PROVE  Moves(p, i)
  BY <1>1 DEF Proceeds, Moves
<1>2. ASSUME NEW here \in Stages \ {"returned", "done"}, NEW what \in Results,
             Returns(p, i, here, what), what = "nil" => Cancelled(p)
      PROVE  Moves(p, i)
  <2>1. StageRank[here] < StageRank["returned"] /\ "returned" \in Stages
    BY StageRanks DEF Stages
  <2> QED  BY <1>2, <2>1 DEF Returns, Moves
<1> USE DEF Stages, Results
<1>3. CASE Stat(p, i)
  BY <1>1, <1>2, <1>3, StageRanks DEF Stat
<1>4. CASE Dial(p, i)
  BY <1>1, <1>2, <1>4, StageRanks DEF Dial
<1>5. CASE Unlink(p, i)
  BY <1>1, <1>2, <1>5, StageRanks DEF Unlink
<1>6. CASE Listen(p, i)
  BY <1>1, <1>2, <1>6, StageRanks DEF Listen
<1>7. CASE Chmod(p, i)
  BY <1>1, <1>2, <1>7, StageRanks DEF Chmod
<1>8. CASE Accept(p, i)
  BY <1>1, <1>8, StageRanks DEF Accept
<1>9. CASE Shutdown(p, i)
  BY <1>2, <1>9 DEF Shutdown
<1>10. CASE ServeFails(p, i)
  BY <1>2, <1>10 DEF ServeFails
<1> QED  BY <1>3, <1>4, <1>5, <1>6, <1>7, <1>8, <1>9, <1>10 DEF Serve, claimSocket

LEMMA Forwards == ASSUME State, NEW p \in Processes, Goroutines(p) PROVE Forward(p)
<1>1. CASE Launch(p)
  BY <1>1, LaunchForwards DEF Forward
<1>2. CASE Receive(p) \/ ShutsDown(p)
  BY <1>2 DEF Forward
<1>3. CASE Finish(p)
  BY <1>3 DEF Finish, Exit, Exits, Ends, Forward
<1>4. ASSUME NEW i \in Endpoints(p), Serve(p, i) \/ Send(p, i) PROVE Forward(p)
  BY <1>4, EndpointForwards DEF Forward
<1> QED  BY <1>1, <1>2, <1>3, <1>4 DEF Goroutines, Serving

\* What else may happen to a process.
LEMMA Happens ==
    ASSUME State, NEW p \in Processes, Environment(p)
    PROVE  \/ \E j \in DOMAIN Jobs : Start(p, j)
           \/ Ends(p) \/ Signal(p)
           \/ \E i \in Endpoints(p) : Moves(p, i)
<1>1. CASE BackendFails(p) \/ FoundingFails(p) \/ RefreshPanics(p) \/ Killed(p)
  BY <1>1 DEF BackendFails, FoundingFails, RefreshPanics, Killed, Exit, Ends, Exits, Running
<1>2. ASSUME NEW i \in Endpoints(p), ServeFails(p, i) PROVE Moves(p, i)
  BY <1>2, EndpointForwards
<1> QED  BY <1>1, <1>2 DEF Environment

-----------------------------------------------------------------------------
(* What an endpoint's nil result says.                                      *)

Told(p) ==
    pc[p] = "serve" /\ ~signalled[p] =>
      /\ \A i \in Endpoints(p) : result[p][i] # "nil"
      /\ \A k \in DOMAIN errc[p] : errc[p][k] # "nil"

\* A step of one process leaves the main goroutines and endpoints of the others alone.
LEMMA OthersAlone ==
    ASSUME State, NEW p \in Processes, Goroutines(p) \/ Environment(p), NEW q \in Processes \ {p}
    PROVE  /\ job'[q] = job[q] /\ pc'[q] = pc[q] /\ stage'[q] = stage[q]
           /\ result'[q] = result[q] /\ errc'[q] = errc[q] /\ signalled'[q] = signalled[q]
           /\ ending'[q] = ending[q]
<1>1. Typed
  BY DEF State
<1>2. CASE Ends(p)
  BY <1>1, <1>2 DEF Ends, Gone, Typed
<1>3. CASE Onward(p)
  BY <1>1, <1>3 DEF Onward, Goes, Typed
<1>4. CASE Serves(p)
  BY <1>1, <1>4 DEF Serves, Typed
<1>5. CASE Receive(p) \/ ShutsDown(p)
  BY <1>1, <1>5 DEF Receive, ShutsDown, Waits, Typed
<1>6. ASSUME NEW i \in Endpoints(p), Moves(p, i) \/ Send(p, i)
      PROVE  /\ UNCHANGED <<job, pc, signalled, ending>> /\ stage'[q] = stage[q]
             /\ result'[q] = result[q] /\ errc'[q] = errc[q]
  BY <1>1, <1>6 DEF Moves, Send, At, Typed
<1>7. ASSUME NEW j \in DOMAIN Jobs, Start(p, j)
      PROVE  /\ job'[q] = job[q] /\ pc'[q] = pc[q]
             /\ UNCHANGED <<stage, result, errc, signalled, ending>>
  BY <1>1, <1>7 DEF Start, Typed
<1>8. CASE Signal(p)
  BY <1>1, <1>8 DEF Signal, Typed
<1> QED  BY <1>2, <1>3, <1>4, <1>5, <1>6, <1>7, <1>8, Forwards, Happens DEF Forward

LEMMA ToldByEndpoint ==
    ASSUME State, NEW p \in Processes, Told(p), NEW i \in Endpoints(p), Moves(p, i) \/ Send(p, i)
    PROVE  Told(p)'
<1>1. Typed /\ Endpoints(p)' = Endpoints(p) /\ UNCHANGED <<pc, signalled>>
      /\ stage[p] # << >>
  BY DEF State, Moves, Send, At, Endpoints, Cfg, Line
<1>2. SUFFICES ASSUME pc[p] = "serve", ~signalled[p] PROVE Told(p)'
  BY <1>1 DEF Told
<1>3. /\ \A n \in Endpoints(p) : result[p][n] # "nil"
      /\ \A k \in DOMAIN errc[p] : errc[p][k] # "nil"
  BY <1>2 DEF Told
<1>4. result[p] \in [Endpoints(p) -> Results] /\ errc[p] \in Seq(Results)
      /\ DOMAIN result = Processes /\ errc \in [Processes -> Seq(Results)]
  BY <1>1, ServingFacts DEF Typed
<1>5. CASE Moves(p, i)
  <2>1. /\ errc' = errc
        /\ \/ result' = result
           \/ \E what \in Results \ {"nil"} : result' = [result EXCEPT ![p][i] = what]
    BY <1>2, <1>5 DEF Moves, At, Cancelled
  <2> QED  BY <1>1, <1>3, <1>4, <2>1 DEF Told
<1>6. CASE Send(p, i)
  <2>1. result' = result /\ errc'[p] = Append(errc[p], result[p][i])
    BY <1>4, <1>6 DEF Send
  <2>2. \A k \in DOMAIN errc'[p] : errc'[p][k] # "nil"
    <3>1. result[p][i] \in Results /\ result[p][i] # "nil"
      BY <1>3, <1>4
    <3> QED  BY <1>3, <1>4, <2>1, <3>1
  <2> QED  BY <1>1, <1>3, <2>1, <2>2 DEF Told
<1> QED  BY <1>5, <1>6

\* Until serve stops waiting, the endpoints' context is cancelled by a signal alone.
LEMMA NilStep == ASSUME State, NilIsASignal, [Next]_vars PROVE NilIsASignal'
<1> SUFFICES ASSUME NEW q \in Processes PROVE Told(q)'
  BY DEF NilIsASignal, Told
<1>1. Told(q) /\ Typed /\ Stands(q)
  BY DEF NilIsASignal, Told, State
<1>2. CASE UNCHANGED vars
  BY <1>1, <1>2 DEF Told, vars, Endpoints, Cfg, Line
<1>3. ASSUME NEW p \in Processes, p # q, Goroutines(p) \/ Environment(p) PROVE Told(q)'
  BY <1>1, <1>3, OthersAlone DEF Told, Endpoints, Cfg, Line
<1>4. CASE Goroutines(q) \/ Environment(q)
  <2>1. CASE pc'[q] # "serve" \/ signalled'[q]
    BY <2>1 DEF Told
  <2>2. CASE Serves(q)
    <3>1. /\ Endpoints(q)' = Endpoints(q) /\ result'[q] = [i \in Endpoints(q) |-> "none"]
          /\ errc'[q] = << >>
      BY <1>1, <2>2 DEF Serves, Endpoints, Cfg, Line, Typed, Stands
    <3> QED  BY <3>1 DEF Told
  <2>3. ASSUME NEW i \in Endpoints(q), Moves(q, i) \/ Send(q, i) PROVE Told(q)'
    BY <1>1, <2>3, ToldByEndpoint
  <2>4. CASE Ends(q) \/ Onward(q) \/ Receive(q) \/ ShutsDown(q) \/ Signal(q)
             \/ \E j \in DOMAIN Jobs : Start(q, j)
    <3>1. pc'[q] # "serve" \/ signalled'[q]
      BY <1>1, <2>4 DEF Ends, Gone, Onward, Goes, Receive, ShutsDown, Waits, Signal, Start,
                        Typed, Underway
    <3> QED  BY <2>1, <3>1
  <2> QED  BY <1>4, <2>2, <2>3, <2>4, Forwards, Happens DEF Forward
<1> QED  BY <1>2, <1>3, <1>4 DEF Next

LEMMA Inductive == Spec => []IInv
<1>1. Init => IInv
  <2>1. Init => NilIsASignal
    BY DEF Init, NilIsASignal
  <2> QED  BY <2>1, InitState, StateIs
<1>2. IInv /\ [Next]_vars => IInv'
  BY StateStep, NilStep, StateIs, StateIsNext
<1> QED  BY <1>1, <1>2, PTL DEF Spec

-----------------------------------------------------------------------------
(* The theorems.                                                            *)

\* What a launch has assembled, what its endpoints do and what is bound are well typed,
\* for any jobs (cmd/ranke-db/run.go, config/config.go).
THEOREM TypeCorrect == Spec => []TypeOK
<1>1. IInv => TypeOK
  BY DEF IInv
<1> QED  BY Inductive, <1>1, PTL

\* Whatever processes launch beside one another, fail or are killed, what serves is a
\* whole stack over an archive that exists, its own if it founded it
\* (run.go requireServing, found.go foundIfConfigured).
THEOREM WholeServes == Spec => []ServingIsWhole
<1>1. IInv => ServingIsWhole
  BY DEF IInv, TypeOK, AppIsOfJob, ServingIsWhole
<1> QED  BY Inductive, <1>1, PTL

\* A step that changes an archive founds it, for a process that is no check.
LEMMA FoundingOnly ==
    ASSUME State, [Next]_vars, NEW l \in Lists, archive'[l] # archive[l]
    PROVE  /\ archive[l] = "none"
           /\ \E p \in Processes :
                 app[p].sequencer /\ app[p].genesis /\ Line(p).cmd # "verify"
<1>1. PICK p \in Processes : Goroutines(p) \/ Environment(p)
  BY DEF Next, vars
<1>2. archive' # archive
  OBVIOUS
<1>3. foundIfConfigured(p) \/ Found(p)
  <2>1. ~Environment(p)
    BY <1>2 DEF Environment, Start, BackendFails, FoundingFails, RefreshPanics, Signal, Killed,
                Exit, ServeFails, Returns, At
  <2>2. ASSUME NEW i \in Endpoints(p) PROVE ~Serve(p, i) /\ ~Send(p, i)
    BY <1>2 DEF Serve, Send, claimSocket, Stat, Dial, Unlink, Listen, Chmod, Accept, Shutdown,
                Proceeds, Returns, At
  <2>3. ~Receive(p) /\ ~ShutsDown(p) /\ ~Finish(p)
    BY <1>2 DEF Receive, ShutsDown, Finish, Waits, Exit
  <2>4. ~Decode(p) /\ ~Resolve(p) /\ ~BuildStorage(p) /\ ~BuildSigner(p)
    BY <1>2 DEF Decode, Resolve, BuildStorage, BuildSigner, Either, Exit
  <2>5. ~OpenSequencer(p) /\ ~DescribeLayers(p) /\ ~BuildEndpoints(p)
    BY <1>2 DEF OpenSequencer, DescribeLayers, BuildEndpoints, Exit
  <2>6. ~ReadsFounded(p) /\ ~requireServing(p)
    BY <1>2 DEF ReadsFounded, requireServing, Exit
  <2> QED  BY <1>1, <2>1, <2>2, <2>3, <2>4, <2>5, <2>6 DEF Goroutines, Serving, Launch
<1>4. /\ Founds(p) /\ pc[p] \in {"founding", "found"}
      /\ app[p].sequencer /\ app[p].genesis
  BY <1>2, <1>3 DEF foundIfConfigured, Found, Exit
<1>5. /\ archive[ListOf(Cfg(p).sequencer)] = "none"
      /\ l = ListOf(Cfg(p).sequencer)
  BY <1>2, <1>4 DEF Founds, Exit, State, Typed
<1>6. Line(p).cmd # "verify"
  BY <1>4 DEF State, Fits, Passes
<1> QED  BY <1>4, <1>5, <1>6

\* However launches, foundings and checks meet over one store, an archive is founded
\* once, and never by a check (config.go: Founding is Run's, never build's).
THEOREM ChecksNeverFound == Spec => ChecksFoundNothing
<1> DEFINE Founding ==
             \A l \in Lists : archive'[l] # archive[l] =>
               /\ archive[l] = "none"
               /\ \E p \in Processes :
                     app[p].sequencer /\ app[p].genesis /\ Line(p).cmd # "verify"
<1>1. IInv /\ [Next]_vars => [Founding]_vars
  BY FoundingOnly, StateIs
<1> QED  BY <1>1, Inductive, PTL DEF Spec, ChecksFoundNothing
-----------------------------------------------------------------------------
(* A launch goes one way.                                                   *)

\* An endpoint is no 0: what the main goroutine has ahead is told apart from the rest.
LEMMA EndpointsCount ==
    ASSUME State, NEW p \in Processes PROVE 0 \notin Endpoints(p)
<1>1. CASE job[p] = NoJob
  BY <1>1 DEF Endpoints
<1>2. CASE job[p] # NoJob
  <2>1. job[p] \in DOMAIN Jobs
    BY <1>2 DEF State, Typed
  <2> DEFINE E == Jobs[job[p]].cfg.endpoints
  <2>2. E \in Seq({E[i] : i \in DOMAIN E})
    BY <2>1, JobsAssumption
  <2>3. DOMAIN E = 1 .. Len(E)
    BY <2>2
  <2>4. Endpoints(p) = DOMAIN E
    BY <1>2 DEF Endpoints, Cfg, Line
  <2> HIDE DEF E
  <2> QED  BY <2>3, <2>4
<1> QED  BY <1>1, <1>2

Less(p) == Ahead(p)' \subseteq Ahead(p) /\ Ahead(p)' # Ahead(p)

LEMMA EndLess == ASSUME State, NEW p \in Processes, Ends(p) PROVE Less(p)
<1>1. pc[p] \in Running
  BY DEF Ends, State, Typed
<1>2. pc'[p] = "off" /\ job'[p] = NoJob
  BY DEF Ends, Gone, State, Typed
<1>3. Ahead(p)' = {}
  BY <1>2 DEF Ahead, MainAhead, StagesAhead, Endpoints
<1>4. <<0, 13>> \in Ahead(p)
  <2>1. MainRank[pc[p]] \in 1 .. 13 /\ pc[p] # "off"
    BY <1>1, MainRanks DEF Running
  <2>2. 13 \in MainAhead(p)
    BY <2>1 DEF MainAhead
  <2> QED  BY <2>2 DEF Ahead
<1> QED  BY <1>3, <1>4 DEF Less

\* The main goroutine moves on, and each endpoint is where it was or further.
LEMMA MainLess ==
    ASSUME State, NEW p \in Processes, pc[p] # "off", pc'[p] \in Running,
           MainRank[pc[p]] < MainRank[pc'[p]], StagesAhead(p)' \subseteq StagesAhead(p)
    PROVE  Less(p)
<1>1. pc[p] \in Running /\ MainRank[pc[p]] \in 1 .. 13 /\ MainRank[pc'[p]] \in 1 .. 13
  BY MainRanks DEF State, Typed
<1>2. MainAhead(p)' \subseteq MainAhead(p)
  BY <1>1 DEF MainAhead
<1>3. <<0, MainRank[pc[p]]>> \in Ahead(p)
  BY <1>1 DEF Ahead, MainAhead
<1>4. <<0, MainRank[pc[p]]>> \notin Ahead(p)'
  <2>1. 0 \notin Endpoints(p)
    BY EndpointsCount
  <2>2. \A s \in StagesAhead(p) : s[1] # 0
    BY <2>1 DEF StagesAhead
  <2>3. \A n \in MainAhead(p)' : n # MainRank[pc[p]]
    BY <1>1 DEF MainAhead
  <2> QED  BY <2>2, <2>3 DEF Ahead
<1> QED  BY <1>2, <1>3, <1>4 DEF Ahead, Less

LEMMA StageLess ==
    ASSUME State, NEW p \in Processes, NEW i \in Endpoints(p),
           NEW here \in Stages, NEW there \in Stages, StageRank[here] < StageRank[there],
           stage[p] # << >>, stage[p][i] = here, stage' = [stage EXCEPT ![p][i] = there],
           UNCHANGED <<job, pc>>
    PROVE  Less(p)
<1>1. /\ pc[p] \in {"serve", "wait"} /\ stage[p] \in [Endpoints(p) -> Stages]
      /\ DOMAIN stage = Processes
  BY ServingFacts
<1>2. Endpoints(p)' = Endpoints(p) /\ MainAhead(p)' = MainAhead(p)
  BY DEF Endpoints, Cfg, Line, MainAhead
<1>3. stage'[p] = [stage[p] EXCEPT ![i] = there]
  BY <1>1
<1>4. StageRank[here] \in 1 .. 9 /\ StageRank[there] \in 1 .. 9
  BY StageRanks
<1>5. \A n \in Endpoints(p) : StageRank[stage[p][n]] <= StageRank[stage'[p][n]]
  <2> TAKE n \in Endpoints(p)
  <2>1. StageRank[stage[p][n]] \in 1 .. 9
    BY <1>1, StageRanks
  <2> QED  BY <1>1, <1>3, <1>4, <2>1
<1>6. \A n \in Endpoints(p) : stage[p][n] \in Stages /\ stage'[p][n] \in Stages
  BY <1>1, <1>3
<1>7. StagesAhead(p)' \subseteq StagesAhead(p)
  <2>1. \A n \in Endpoints(p), k \in 1 .. 9 :
           StageRank[stage'[p][n]] <= k => StageRank[stage[p][n]] <= k
    BY <1>5, <1>6, StageRanks
  <2> QED  BY <1>1, <1>2, <2>1 DEF StagesAhead
<1>8. <<i, StageRank[here]>> \in StagesAhead(p)
  BY <1>1, <1>4 DEF StagesAhead
<1>9. <<i, StageRank[here]>> \notin Ahead(p)'
  <2>1. <<i, StageRank[here]>> \notin StagesAhead(p)'
    BY <1>1, <1>2, <1>3, <1>4 DEF StagesAhead
  <2>2. i # 0
    BY EndpointsCount
  <2> QED  BY <2>1, <2>2 DEF Ahead
<1> QED  BY <1>2, <1>7, <1>8, <1>9 DEF Ahead, Less

LEMMA ForwardLess == ASSUME State, NEW p \in Processes, Forward(p) PROVE Less(p)
<1>1. Typed
  BY DEF State
<1>2. CASE Ends(p)
  BY <1>2, EndLess
<1>3. CASE Onward(p)
  <2>1. PICK to \in Underway : /\ pc[p] \in Underway /\ MainRank[pc[p]] < MainRank[to]
                               /\ pc' = [pc EXCEPT ![p] = to] /\ UNCHANGED <<job, stage>>
    BY <1>3 DEF Onward, Goes
  <2>2. pc'[p] = to /\ to \in Running /\ pc[p] # "off"
    BY <1>1, <2>1 DEF Typed, Underway, Running
  <2>3. StagesAhead(p)' = StagesAhead(p)
    BY <2>1, <2>2 DEF StagesAhead, Endpoints, Cfg, Line, Underway
  <2> QED  BY <2>1, <2>2, <2>3, MainLess
<1>4. CASE Serves(p)
  <2>1. pc[p] = "require" /\ pc'[p] = "serve" /\ job' = job
    BY <1>1, <1>4 DEF Serves, Typed
  <2>2. StagesAhead(p)' \subseteq StagesAhead(p)
    BY <2>1 DEF StagesAhead, Endpoints, Cfg, Line
  <2> QED  BY <2>1, <2>2, MainRanks, MainLess DEF Running
<1>5. CASE Receive(p) \/ ShutsDown(p)
  <2>1. pc[p] = "serve" /\ pc'[p] = "wait" /\ UNCHANGED <<job, stage>>
    BY <1>1, <1>5 DEF Receive, ShutsDown, Waits, Typed
  <2>2. StagesAhead(p)' = StagesAhead(p)
    BY <2>1 DEF StagesAhead, Endpoints, Cfg, Line
  <2> QED  BY <2>1, <2>2, MainRanks, MainLess DEF Running
<1>6. ASSUME NEW i \in Endpoints(p), Moves(p, i) PROVE Less(p)
  BY <1>6, StageLess DEF Moves, At
<1>7. ASSUME NEW i \in Endpoints(p), Send(p, i) PROVE Less(p)
  BY <1>7, StageLess, StageRanks DEF Send, Stages
<1> QED  BY <1>2, <1>3, <1>4, <1>5, <1>6, <1>7 DEF Forward

\* What is ahead of a process is finite: thirteen places of its main goroutine and nine
\* of each endpoint.
LEMMA AheadIsFinite ==
    ASSUME State, NEW p \in Processes
    PROVE  /\ IsFiniteSet(Ahead(p))
           /\ Cardinality(Ahead(p)) <= 13 + 9 * Cardinality(Endpoints(p))
<1>1. IsFiniteSet(Endpoints(p))
  <2>1. CASE job[p] = NoJob
    BY <2>1, FS_EmptySet DEF Endpoints
  <2>2. CASE job[p] # NoJob
    <3>1. job[p] \in DOMAIN Jobs
      BY <2>2 DEF State, Typed
    <3> DEFINE E == Jobs[job[p]].cfg.endpoints
    <3>2. E \in Seq({E[i] : i \in DOMAIN E})
      BY <3>1, JobsAssumption
    <3>3. Len(E) \in Nat /\ DOMAIN E = 1 .. Len(E)
      BY <3>2
    <3>4. Endpoints(p) = DOMAIN E
      BY <2>2 DEF Endpoints, Cfg, Line
    <3> HIDE DEF E
    <3> QED  BY <3>3, <3>4, FS_Interval
  <2> QED  BY <2>1, <2>2
<1>2. /\ IsFiniteSet(1 .. 13) /\ Cardinality(1 .. 13) = 13
      /\ IsFiniteSet(1 .. 9) /\ Cardinality(1 .. 9) = 9
  <2>1. ASSUME NEW n \in Nat, n > 0 PROVE IsFiniteSet(1 .. n) /\ Cardinality(1 .. n) = n
    <3>1. Cardinality(1 .. n) = IF 1 > n THEN 0 ELSE n - 1 + 1
      BY FS_Interval
    <3>2. IsFiniteSet(1 .. n)
      BY FS_Interval
    <3> QED  BY <3>1, <3>2
  <2>2. 13 \in Nat /\ 13 > 0 /\ 9 \in Nat /\ 9 > 0
    OBVIOUS
  <2> QED  BY <2>1, <2>2, Zenon
<1>3. IsFiniteSet({0}) /\ Cardinality({0}) = 1
  BY FS_Singleton
<1> DEFINE main == {0} \X (1 .. 13)
           ends == Endpoints(p) \X (1 .. 9)
           e == Cardinality(Endpoints(p))
<1>4. IsFiniteSet(main) /\ Cardinality(main) = 13
  BY <1>2, <1>3, FS_Product
<1>5. IsFiniteSet(ends) /\ Cardinality(ends) = e * 9
  BY <1>1, <1>2, FS_Product
<1>6. e \in Nat
  BY <1>1, FS_CardinalityType
<1>7. Ahead(p) \subseteq main \union ends
  BY DEF Ahead, MainAhead, StagesAhead
<1> HIDE DEF main, ends, e
<1>8. /\ IsFiniteSet(main \union ends)
      /\ Cardinality(main \union ends) <= 13 + 9 * e
  <2>1. /\ IsFiniteSet(main \union ends)
        /\ Cardinality(main \union ends)
             = Cardinality(main) + Cardinality(ends) - Cardinality(main \cap ends)
    BY <1>4, <1>5, FS_Union
  <2>2. Cardinality(main \cap ends) \in Nat
    BY <1>4, FS_Intersection, FS_CardinalityType
  <2> QED  BY <1>4, <1>5, <1>6, <2>1, <2>2
<1>9. /\ IsFiniteSet(Ahead(p)) /\ Cardinality(Ahead(p)) <= Cardinality(main \union ends)
  BY <1>7, <1>8, FS_Subset
<1>10. Cardinality(Ahead(p)) \in Nat /\ Cardinality(main \union ends) \in Nat
  BY <1>8, <1>9, FS_CardinalityType
<1> QED  BY <1>6, <1>8, <1>9, <1>10 DEF e

\* What the goroutines of a launch do uses up part of what was ahead, and what other
\* processes and the host do puts none of it back: no schedule of endpoints, failures
\* and signals keeps a launch going round (config.go Run, run.go serve, rest_http.go
\* Serve).
THEOREM LaunchesGoOneWay == Spec => NeverTurnsBack
<1> DEFINE Step == \A p \in Processes :
             /\ Goroutines(p) => Ahead(p)' \subseteq Ahead(p) /\ Ahead(p)' # Ahead(p)
             /\ pc[p] # "off" => Ahead(p)' \subseteq Ahead(p)
<1>1. ASSUME State, Next PROVE Step
  <2> SUFFICES ASSUME NEW q \in Processes
               PROVE  /\ Goroutines(q) => Less(q)
                      /\ pc[q] # "off" => Ahead(q)' \subseteq Ahead(q)
    BY DEF Less
  <2>1. Goroutines(q) => Less(q)
    BY <1>1, Forwards, ForwardLess
  <2>2. PICK p \in Processes : Goroutines(p) \/ Environment(p)
    BY <1>1 DEF Next
  <2>3. CASE p # q
    <3>1. /\ job'[q] = job[q] /\ pc'[q] = pc[q] /\ stage'[q] = stage[q]
      BY <1>1, <2>2, <2>3, OthersAlone
    <3>2. Ahead(q)' = Ahead(q)
      BY <3>1 DEF Ahead, MainAhead, StagesAhead, Endpoints, Cfg, Line
    <3> QED  BY <2>1, <3>2
  <2>4. CASE Environment(q)
    <3>1. CASE Ends(q)
      BY <1>1, <3>1, EndLess DEF Less
    <3>2. ASSUME Signal(q) PROVE Ahead(q)' = Ahead(q)
      <4>1. UNCHANGED <<job, pc, stage>>
        BY <3>2 DEF Signal
      <4> QED  BY <4>1 DEF Ahead, MainAhead, StagesAhead, Endpoints, Cfg, Line
    <3>3. ASSUME NEW i \in Endpoints(q), Moves(q, i) PROVE Less(q)
      BY <1>1, <3>3, ForwardLess DEF Forward
    <3>4. ASSUME NEW j \in DOMAIN Jobs, Start(q, j) PROVE pc[q] = "off"
      BY <3>4 DEF Start
    <3> QED  BY <1>1, <2>1, <2>4, <3>1, <3>2, <3>3, <3>4, Happens DEF Less
  <2> QED  BY <2>1, <2>2, <2>3, <2>4 DEF Less
<1>2. IInv /\ [Next]_vars => [Step]_vars
  BY <1>1, StateIs
<1> QED  BY <1>2, Inductive, PTL DEF Spec, NeverTurnsBack

\* There is an end to it: what a launch has ahead is never more than thirteen steps of its
\* main goroutine and nine of each endpoint it mounts (run.go serve).
THEOREM LaunchesAreBounded ==
    Spec => [](\A p \in Processes :
                  /\ IsFiniteSet(Ahead(p))
                  /\ Cardinality(Ahead(p)) <= 13 + 9 * Cardinality(Endpoints(p)))
<1>1. IInv => \A p \in Processes :
                  /\ IsFiniteSet(Ahead(p))
                  /\ Cardinality(Ahead(p)) <= 13 + 9 * Cardinality(Endpoints(p))
  BY AheadIsFinite, StateIs
<1> QED  BY <1>1, Inductive, PTL

-----------------------------------------------------------------------------
(* The launch implements what its commands promise.                         *)

Shown == [p \in Processes |-> Phase(p)]

LEMMA AsksAre ==
    ASSUME State, NEW p \in Processes, pc[p] # "off"
    PROVE  /\ Promised!Ask(p) = Asked(Line(p)) /\ Promised!Ask(p).cmd = Line(p).cmd
           /\ bookmarkList(Cfg(p).sequencer) =>
                 /\ Promised!Ask(p).list = ListOf(Cfg(p).sequencer)
                 /\ Promised!Ask(p).list \in Lists
           /\ foundingBranch(Cfg(p).sequencer) =>
                 Promised!Ask(p).branch = Branch(p)
<1>1. job[p] \in DOMAIN Jobs
  BY DEF State, Typed, Stands
<1>2. Promised!Ask(p) = Asked(Line(p))
  BY <1>1 DEF Promised!Ask, Line
<1>3. bookmarkList(Cfg(p).sequencer) => ListOf(Cfg(p).sequencer) \in Lists
  BY <1>1, ListIsThere DEF State, Typed, Stands
<1> QED  BY <1>2, <1>3 DEF Asked, Cfg, Branch

\* One process is elsewhere in the eyes of whoever launched it, and no other.
LEMMA ShownStep ==
    ASSUME State, NEW p \in Processes, Goroutines(p) \/ Environment(p)
    PROVE  Shown' = [Shown EXCEPT ![p] = Phase(p)']
<1>1. ASSUME NEW q \in Processes \ {p} PROVE Phase(q)' = Phase(q)
  BY OthersAlone DEF Phase
<1> QED  BY <1>1 DEF Shown

LEMMA EndsShown ==
    ASSUME State, NEW p \in Processes, Goroutines(p) \/ Environment(p), NEW how \in Exits,
           Gone(p, how)
    PROVE  Promised!Ends(p, how)
<1>1. Phase(p)' = "off"
  BY DEF Gone, Phase, State, Typed
<1> QED  BY <1>1, ShownStep DEF Promised!Ends, Gone, Shown

\* A launch that ends with an error, or because nobody asked for it.
LEMMA AbortShown ==
    ASSUME State, NEW p \in Processes, Goroutines(p) \/ Environment(p), NEW how \in Exits,
           Exit(p, how), pc[p] # "off", how \in {"panic", "killed"} \/ (pc[p] \in Underway /\ how = "one")
    PROVE  Promised!Abort(p)
<1>1. Promised!Ends(p, how) /\ archive' = archive
  BY EndsShown DEF Exit
<1>2. Shown[p] # "off" /\ (pc[p] \in Underway => Shown[p] = "launching")
  BY DEF Shown, Phase, Underway, Running
<1> QED  BY <1>1, <1>2 DEF Promised!Abort, Shown

Still == UNCHANGED <<job, Shown, signalled, exit, archive>>

LEMMA OnwardShown ==
    ASSUME State, NEW p \in Processes, Goroutines(p) \/ Environment(p), pc[p] \in Underway,
           NEW to \in Underway, Goes(p, to)
    PROVE  UNCHANGED <<job, Shown, signalled, exit>>
<1>1. pc'[p] = to
  BY DEF Goes, State, Typed
<1>2. Phase(p) = "launching" /\ Phase(p)' = "launching"
  BY <1>1 DEF Phase, Underway, Running
<1>3. Shown' = [Shown EXCEPT ![p] = Shown[p]]
  BY <1>2, ShownStep DEF Shown
<1> QED  BY <1>3 DEF Goes, Shown

LEMMA CheckShown ==
    ASSUME State, NEW p \in Processes, Goroutines(p), pc[p] \in Underway,
           Line(p).cmd = "verify", Exit(p, "zero")
    PROVE  Promised!Succeed(p)
<1>1. Promised!Ends(p, "zero") /\ archive' = archive
  BY EndsShown DEF Exit, Exits
<1>2. Shown[p] = "launching" /\ Promised!Ask(p).cmd = "verify"
  BY AsksAre DEF Shown, Phase, Underway, Running
<1> QED  BY <1>1, <1>2 DEF Promised!Succeed, Shown

LEMMA FoundsShown ==
    ASSUME State, NEW p \in Processes, Goroutines(p), pc[p] \in {"founding", "found"},
           Founds(p), app[p].sequencer, foundingBranch(Cfg(p).sequencer)
    PROVE  Promised!Found(p) \/ Promised!Abort(p)
<1> DEFINE list == ListOf(Cfg(p).sequencer)
<1>1. /\ bookmarkList(Cfg(p).sequencer) /\ pc[p] \in Underway /\ pc[p] # "off"
      /\ Line(p).cmd \in {"run", "found"}
  BY DEF State, Fits, Passes, Underway, Running
<1>2. /\ Promised!Ask(p).list = list /\ list \in Lists /\ Promised!Ask(p).branch = Branch(p)
      /\ Promised!Ask(p).cmd = Line(p).cmd
  BY <1>1, AsksAre
<1>3. CASE archive[list] # "none"
  BY <1>1, <1>3, AbortShown DEF Founds, Exits
<1>4. CASE archive[list] = "none"
  <2>1. archive' = [archive EXCEPT ![list] = Branch(p)] /\ Goes(p, "founded")
    BY <1>4 DEF Founds
  <2>2. Shown[p] = "launching"
    BY <1>1 DEF Shown, Phase, Underway, Running
  <2>3. Promised!Founds(p)
    <3> HIDE DEF list
    <3> QED  BY <1>2, <1>4, <2>1, <2>2 DEF Promised!Founds, Shown
  <2>4. UNCHANGED <<job, Shown, signalled, exit>>
    BY <1>1, <2>1, OnwardShown DEF Underway, Running
  <2> QED  BY <1>1, <1>2, <2>3, <2>4 DEF Promised!Found, Shown
<1> QED  BY <1>3, <1>4

\* A founding reports success once the archive it founded is there, and not before.
LEMMA ReadsFoundedShown ==
    ASSUME State, NEW p \in Processes, ReadsFounded(p)
    PROVE  Promised!Succeed(p) \/ UNCHANGED <<job, Shown, signalled, exit, archive>>
<1>1. Goroutines(p) /\ pc[p] = "founded" /\ pc[p] \in Underway /\ pc[p] # "off"
  BY DEF Goroutines, Launch, ReadsFounded, Underway, Running
<1>2. CASE Line(p).cmd = "found"
  <2>1. Exit(p, "zero")
    BY <1>2 DEF ReadsFounded
  <2>2. /\ bookmarkList(Cfg(p).sequencer)
        /\ archive[ListOf(Cfg(p).sequencer)] # "none"
    BY <1>1 DEF State, Fits
  <2>3. Promised!Ask(p).cmd = "found" /\ Promised!Founded(p)
    BY <1>1, <1>2, <2>2, AsksAre DEF Promised!Founded
  <2>4. Promised!Ends(p, "zero") /\ archive' = archive /\ Shown[p] = "launching"
    BY <1>1, <2>1, EndsShown DEF Exit, Exits, Shown, Phase
  <2> QED  BY <2>3, <2>4 DEF Promised!Succeed, Shown
<1>3. CASE Line(p).cmd # "found"
  <2>1. Goes(p, "require") /\ archive' = archive
    BY <1>3 DEF ReadsFounded
  <2> QED  BY <1>1, <2>1, OnwardShown DEF Underway, Running
<1> QED  BY <1>2, <1>3

Kept(p) == Promised!Step(p) \/ Still

LEMMA LaunchShown == ASSUME State, NEW p \in Processes, Launch(p) PROVE Kept(p)
<1>1. Goroutines(p) /\ pc[p] \in Underway /\ pc[p] # "off"
  BY DEF Goroutines, Launch, Decode, Resolve, BuildStorage, BuildSigner, OpenSequencer,
         DescribeLayers, BuildEndpoints, foundIfConfigured, Found, ReadsFounded, requireServing,
         Underway, Running
<1>2. ASSUME NEW how \in {"one", "panic"}, Exit(p, how) PROVE Kept(p)
  BY <1>1, <1>2, AbortShown DEF Exits, Kept, Promised!Step
<1>3. ASSUME NEW to \in Underway, Goes(p, to), UNCHANGED archive PROVE Kept(p)
  BY <1>1, <1>3, OnwardShown DEF Kept, Still
<1>4. ASSUME Line(p).cmd = "verify", Exit(p, "zero") PROVE Kept(p)
  BY <1>1, <1>4, CheckShown DEF Kept, Promised!Step
<1> USE DEF Underway, Running
<1>5. CASE Decode(p)
  BY <1>2, <1>3, <1>4, <1>5 DEF Decode, Either
<1>6. CASE Resolve(p)
  <2>1. Line(p).cmd = "verify"
    BY <1>6 DEF Resolve, State, Fits, Passes
  <2> QED  BY <1>2, <1>3, <1>4, <1>6, <2>1 DEF Resolve, Either
<1>7. CASE BuildStorage(p) \/ BuildSigner(p)
  BY <1>2, <1>3, <1>7 DEF BuildStorage, BuildSigner
<1>8. CASE OpenSequencer(p)
  BY <1>2, <1>3, <1>8 DEF OpenSequencer
<1>9. CASE DescribeLayers(p)
  BY <1>2, <1>3, <1>9 DEF DescribeLayers
<1>10. CASE BuildEndpoints(p)
  BY <1>2, <1>3, <1>4, <1>10 DEF BuildEndpoints
<1>11. CASE foundIfConfigured(p)
  <2>1. CASE ~app[p].sequencer \/ ~app[p].genesis
    BY <1>3, <1>11, <2>1 DEF foundIfConfigured
  <2>2. CASE app[p].sequencer /\ app[p].genesis
    <3>1. Exit(p, "one") \/ (Founds(p) /\ foundingBranch(Cfg(p).sequencer))
      BY <1>11, <2>2 DEF foundIfConfigured
    <3>2. pc[p] = "founding"
      BY <1>11 DEF foundIfConfigured
    <3> QED  BY <1>1, <1>2, <2>2, <3>1, <3>2, FoundsShown DEF Kept, Promised!Step
  <2> QED  BY <2>1, <2>2
<1>12. CASE Found(p)
  <2>1. pc[p] = "found" /\ Line(p).cmd = "found"
    BY <1>12 DEF Found, State, Fits, Passes
  <2>2. CASE app[p].sequencer /\ ~app[p].genesis
    <3>1. Exit(p, "zero")
      BY <1>12, <2>2 DEF Found
    <3>2. /\ bookmarkList(Cfg(p).sequencer)
          /\ archive[ListOf(Cfg(p).sequencer)] # "none"
      BY <2>2 DEF State, Fits
    <3>3. Promised!Ask(p).cmd = "found" /\ Promised!Founded(p)
      BY <1>1, <2>1, <3>2, AsksAre DEF Promised!Founded
    <3>4. Promised!Ends(p, "zero") /\ archive' = archive /\ Shown[p] = "launching"
      BY <1>1, <3>1, EndsShown DEF Exit, Exits, Shown, Phase
    <3> QED  BY <3>3, <3>4 DEF Promised!Succeed, Promised!Step, Kept, Shown
  <2>3. CASE ~(app[p].sequencer /\ ~app[p].genesis)
    <3>1. Exit(p, "one") \/ (app[p].sequencer /\ Founds(p) /\ foundingBranch(Cfg(p).sequencer))
      BY <1>12, <2>3 DEF Found
    <3> QED  BY <1>1, <1>2, <2>1, <3>1, FoundsShown DEF Kept, Promised!Step
  <2> QED  BY <2>2, <2>3
<1>13. CASE requireServing(p)
  <2>1. CASE Exit(p, "one")
    BY <1>2, <2>1
  <2>2. CASE ~Exit(p, "one")
    <3>1. /\ pc[p] = "require" /\ app[p].sequencer /\ pc' = [pc EXCEPT ![p] = "serve"]
          /\ UNCHANGED <<job, signalled, exit, archive>>
      BY <1>13, <2>2 DEF requireServing
    <3>2. /\ bookmarkList(Cfg(p).sequencer) /\ Line(p).cmd = "run"
          /\ archive[ListOf(Cfg(p).sequencer)] # "none"
      BY <3>1 DEF State, Fits, Passes
    <3>3. Promised!Ask(p).cmd = "run" /\ Promised!Founded(p)
      BY <1>1, <3>2, AsksAre DEF Promised!Founded
    <3>4. Shown[p] = "launching" /\ Phase(p)' = "serving"
      BY <3>1 DEF Shown, Phase, State, Typed
    <3>5. Shown' = [Shown EXCEPT ![p] = "serving"]
      BY <1>1, <3>4, ShownStep
    <3> QED  BY <3>1, <3>3, <3>4, <3>5 DEF Promised!Open, Promised!Moves, Promised!Step, Kept, Shown
  <2> QED  BY <2>1, <2>2
<1>14. CASE ReadsFounded(p)
  BY <1>14, ReadsFoundedShown DEF Kept, Still, Promised!Step
<1> QED  BY <1>5, <1>6, <1>7, <1>8, <1>9, <1>10, <1>11, <1>12, <1>13, <1>14 DEF Launch

LEMMA WaitShown ==
    ASSUME State, NilIsASignal, NEW p \in Processes, Receive(p) \/ ShutsDown(p) PROVE Kept(p)
<1>1. Goroutines(p)
  BY DEF Goroutines, Serving
<1>2. PICK with \in Results :
        /\ pc[p] = "serve" /\ pc' = [pc EXCEPT ![p] = "wait"] /\ ending' = [ending EXCEPT ![p] = with]
        /\ with = "nil" => signalled[p]
        /\ UNCHANGED <<job, signalled, exit, archive>>
  <2>1. CASE Receive(p)
    <3>1. Waits(p, Head(errc[p])) /\ errc[p] # << >>
      BY <2>1 DEF Receive
    <3>2. errc[p] \in Seq(Results)
      BY DEF State, Typed
    <3>3. Head(errc[p]) \in Results /\ Head(errc[p]) = errc[p][1] /\ 1 \in DOMAIN errc[p]
      BY <3>1, <3>2
    <3>4. Head(errc[p]) = "nil" => signalled[p]
      BY <3>1, <3>3 DEF Waits, NilIsASignal
    <3> QED  BY <3>1, <3>3, <3>4 DEF Waits
  <2>2. CASE ShutsDown(p)
    BY <2>2 DEF ShutsDown, Waits, Results
  <2> QED  BY <2>1, <2>2
<1>3. Shown[p] = "serving" /\ Phase(p)' = IF with = "nil" THEN "stopping" ELSE "failing"
  BY <1>2 DEF Shown, Phase, State, Typed
<1>4. Shown' = [Shown EXCEPT ![p] = IF with = "nil" THEN "stopping" ELSE "failing"]
  BY <1>1, <1>3, ShownStep
<1>5. CASE with = "nil"
  BY <1>2, <1>3, <1>4, <1>5 DEF Promised!Stop, Promised!Moves, Promised!Step, Kept, Shown
<1>6. CASE with # "nil"
  BY <1>2, <1>3, <1>4, <1>6 DEF Promised!Fail, Promised!Moves, Promised!Step, Kept, Shown
<1> QED  BY <1>5, <1>6

LEMMA FinishShown == ASSUME State, NEW p \in Processes, Finish(p) PROVE Kept(p)
<1>1. Goroutines(p) /\ pc[p] = "wait"
  BY DEF Goroutines, Serving, Finish
<1> DEFINE how == IF ending[p] = "nil" THEN "zero" ELSE "one"
<1>2. Promised!Ends(p, how) /\ archive' = archive
  BY <1>1, EndsShown DEF Finish, Exit, Exits
<1>3. Shown[p] = IF ending[p] = "nil" THEN "stopping" ELSE "failing"
  BY <1>1 DEF Shown, Phase
<1> QED  BY <1>2, <1>3 DEF Promised!Close, Promised!Step, Kept, Shown

\* What the endpoints do, nobody outside is told of.
LEMMA EndpointShown ==
    ASSUME State, NEW p \in Processes, NEW i \in Endpoints(p), Moves(p, i) \/ Send(p, i)
    PROVE  Still
BY DEF Moves, Send, At, Still, Shown, Phase

LEMMA EnvironmentShown == ASSUME State, NEW p \in Processes, Environment(p) PROVE Kept(p)
<1>1. ASSUME NEW j \in DOMAIN Jobs, Start(p, j) PROVE Kept(p)
  <2>1. /\ pc[p] = "off" /\ pc'[p] = "decode" /\ job' = [job EXCEPT ![p] = j]
        /\ exit' = [exit EXCEPT ![p] = "none"] /\ UNCHANGED <<signalled, archive>>
    BY <1>1 DEF Start, State, Typed
  <2>2. Shown[p] = "off" /\ Phase(p)' = "launching"
    BY <2>1 DEF Shown, Phase
  <2>3. Shown' = [Shown EXCEPT ![p] = "launching"]
    BY <2>2, ShownStep
  <2>4. j \in DOMAIN [k \in DOMAIN Jobs |-> Asked(Jobs[k])]
    OBVIOUS
  <2>5. Promised!Begin(p, j)
    BY <2>1, <2>2, <2>3 DEF Promised!Begin, Shown
  <2> QED  BY <2>4, <2>5 DEF Promised!Step, Kept
<1>2. CASE BackendFails(p) \/ FoundingFails(p) \/ RefreshPanics(p) \/ Killed(p)
  <2>1. PICK how \in Exits :
           /\ Exit(p, how) /\ pc[p] # "off"
           /\ how \in {"panic", "killed"} \/ (pc[p] \in Underway /\ how = "one")
    BY <1>2 DEF BackendFails, FoundingFails, RefreshPanics, Killed, Exits, Underway, Running
  <2> QED  BY <2>1, AbortShown DEF Promised!Step, Kept
<1>3. CASE Signal(p)
  <2>1. /\ pc[p] \in {"serve", "wait"} /\ signalled' = [signalled EXCEPT ![p] = TRUE]
        /\ UNCHANGED <<job, pc, ending, exit, archive>>
    BY <1>3 DEF Signal
  <2>2. Shown[p] \in {"serving", "stopping", "failing"} /\ Shown' = Shown
    BY <2>1 DEF Shown, Phase
  <2> QED  BY <2>1, <2>2 DEF Promised!Signal, Promised!Step, Kept, Shown
<1>4. ASSUME NEW i \in Endpoints(p), ServeFails(p, i) PROVE Kept(p)
  BY <1>4, EndpointForwards, EndpointShown DEF Kept
<1> QED  BY <1>1, <1>2, <1>3, <1>4 DEF Environment

LEMMA StepShown == ASSUME State, NilIsASignal, NEW p \in Processes, Goroutines(p) PROVE Kept(p)
<1>1. ASSUME NEW i \in Endpoints(p), Serve(p, i) \/ Send(p, i) PROVE Kept(p)
  BY <1>1, EndpointForwards, EndpointShown DEF Kept
<1> QED  BY <1>1, LaunchShown, WaitShown, FinishShown DEF Goroutines, Serving

\* However many processes check, found and serve over one store, fail and are killed,
\* each is to the operator what its command promises: founding where nothing was
\* founded, serving an archive that is there, and success reported for nothing less
\* (run.go, found.go, verify.go).
THEOREM LaunchImplementsService == Spec => ImplementsService
<1>1. Init => Promised!Init
  BY DEF Init, Promised!Init, Phase
<1>2. IInv /\ [Next]_vars => [Promised!Next]_(Promised!svars)
  <2> SUFFICES ASSUME IInv, [Next]_vars
               PROVE  Promised!Next \/ UNCHANGED Promised!svars
    OBVIOUS
  <2>1. State /\ NilIsASignal
    BY StateIs
  <2>2. Still => UNCHANGED Promised!svars
    BY DEF Still, Shown, Promised!svars
  <2>3. CASE UNCHANGED vars
    BY <2>3 DEF vars, Promised!svars, Phase
  <2>4. ASSUME NEW p \in Processes, Goroutines(p) \/ Environment(p) PROVE Kept(p)
    BY <2>1, <2>4, StepShown, EnvironmentShown
  <2> QED  BY <2>2, <2>3, <2>4 DEF Next, Kept, Promised!Next
<1> QED  BY <1>1, <1>2, Inductive, PTL DEF Spec, ImplementsService, Promised!Spec
=============================================================================
