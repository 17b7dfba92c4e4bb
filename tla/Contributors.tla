----------------------------- MODULE Contributors -----------------------------
(***************************************************************************)
(* The keys a branch admits, as its writers manage them from the command   *)
(* line and the client library: `branch create`, `contributor add`,        *)
(* `contributor list`, and an application that asks ContributorFor which   *)
(* registration to sign a write under.  Each reads the branch in one or    *)
(* two requests and may then send one claim; whatever others contribute    *)
(* lands between those steps.                                              *)
(*                                                                         *)
(* One branch: a branch holds its own registrations and references nothing *)
(* outside itself.  The server is what its answers are: it lists claims    *)
(* oldest first and accepts a claim dated inside the window of the         *)
(* registration it is signed under (R-C4KEY).                              *)
(***************************************************************************)
EXTENDS ContributorWindow, FiniteSets

CONSTANTS
    Keys,       \* the signing keys
    Commands,   \* the runs of a command line or of an application's call
    Spans, Expirations, \* [from, until] and dates other applications state
    NoKey, NoClaim,
    MaxClaims,  \* bound: others contribute nothing to a branch this large
    MaxTime     \* bound: instants

ASSUME SpansAssumption ==
    /\ Spans \subseteq [from : Bounds, until : Bounds]
    /\ Expirations \subseteq Bounds
    /\ MaxTime \in Nat

VARIABLES
    now,        \* the instant
    claims,     \* the contributor and expiry claims of the branch
    pc,         \* command -> where it is
    job,        \* command -> [verb, key, admits]: what it was started for
    at,         \* command -> the instant it asks about
    began,      \* command -> the branch when it first read it
    held,       \* command -> the registrations it read
    chosen,     \* command -> the claim it sends or the registration it was given
    shown,      \* command -> the registrations it listed as valid
    report      \* command -> what it told its caller

vars == <<now, claims, pc, job, at, began, held, chosen, shown, report>>
working == <<pc, job, at, began, held, chosen, shown, report>>

Contributor == {c \in claims : c.type = "contributor"}
Expiries == {c \in claims : c.type = "expiry"}
ContributorsFor(key) == {c \in Contributor : c.key = key}

Older(c, d) == c.at < d.at \/ (c.at = d.at /\ c.id <= d.id)
Oldest(S) == CHOOSE c \in S : \A d \in S : Older(c, d)

ClaimOf(type, key, by) ==
    [id |-> Cardinality(claims) + 1, type |-> type, key |-> key, at |-> now, by |-> by,
     from |-> NoBound, until |-> NoBound, expiries |-> {}]

\* Signed under itself: a founding contributor's claim states no bounds.
NewContributor(key) == ClaimOf("contributor", key, Cardinality(claims) + 1)

\* The server's verdict on a claim that is sent.
Accepted(c) ==
    \/ c.type = "contributor" /\ c.by = c.id
    \/ \E r \in Contributor : r.id = c.by /\ Admits(WindowOf(r, claims), c.at)

\* A claim takes the next place among those that have landed.
Landed(c) == LET id == Cardinality(claims) + 1
             IN [c EXCEPT !.id = id, !.by = IF c.by = c.id THEN id ELSE c.by]

Told(c, what) == pc' = [pc EXCEPT ![c] = "done"] /\ report' = [report EXCEPT ![c] = what]
Goes(c, where) == pc' = [pc EXCEPT ![c] = where] /\ UNCHANGED report

-----------------------------------------------------------------------------

Init ==
    /\ now = 1 /\ claims = {}
    /\ pc = [c \in Commands |-> "idle"]
    /\ job = [c \in Commands |-> [verb |-> "none", key |-> NoKey, admits |-> NoKey]]
    /\ at = [c \in Commands |-> 0]
    /\ began = [c \in Commands |-> {}]
    /\ held = [c \in Commands |-> {}]
    /\ chosen = [c \in Commands |-> NoClaim]
    /\ shown = [c \in Commands |-> {}]
    /\ report = [c \in Commands |-> "nothing"]

Start(c) ==
    /\ pc[c] = "idle"
    /\ \E verb \in {"create", "add", "list", "for"}, key \in Keys, admits \in Keys :
         /\ verb # "add" => admits = key
         /\ job' = [job EXCEPT ![c] = [verb |-> verb, key |-> key, admits |-> admits]]
    /\ pc' = [pc EXCEPT ![c] = "started"]
    /\ at' = [at EXCEPT ![c] = now]
    /\ UNCHANGED <<now, claims, began, held, chosen, shown, report>>

Reads(c, verb) ==
    /\ pc[c] = "started" /\ job[c].verb = verb
    /\ began' = [began EXCEPT ![c] = claims]
    /\ UNCHANGED <<now, claims, job, at, shown>>

\* A branch exists once a claim points at it.
CreateReads(c) ==
    /\ Reads(c, "create")
    /\ UNCHANGED held
    /\ \/ claims # {} /\ Told(c, "exists") /\ UNCHANGED chosen
       \/ /\ claims = {}
          /\ chosen' = [chosen EXCEPT ![c] = NewContributor(job[c].key)]
          /\ Goes(c, "sending")

\* Mutant: the key that signs is looked up in place of the key to admit.
AddLooksForItself(c) ==
    /\ Reads(c, "add")
    /\ UNCHANGED <<held, chosen>>
    /\ IF ContributorsFor(job[c].key) # {} THEN Told(c, "admitted already")
       ELSE Goes(c, "attributing")

AddReads(c) ==
    /\ Reads(c, "add")
    /\ UNCHANGED <<held, chosen>>
    /\ IF ContributorsFor(job[c].admits) # {} THEN Told(c, "admitted already")
       ELSE Goes(c, "attributing")

\* The claim is attributed to the oldest registration of the signing key.
AddAttributes(c) ==
    LET mine == ContributorsFor(job[c].key)
    IN /\ pc[c] = "attributing"
       /\ held' = [held EXCEPT ![c] = mine]
       /\ \/ mine = {} /\ Told(c, "no registration") /\ UNCHANGED chosen
          \/ /\ mine # {}
             /\ chosen' = [chosen EXCEPT ![c] = ClaimOf("contributor", job[c].admits, Oldest(mine).id)]
             /\ Goes(c, "sending")
       /\ UNCHANGED <<now, claims, job, at, began, shown>>

ListReads(c) ==
    /\ Reads(c, "list")
    /\ held' = [held EXCEPT ![c] = Contributor]
    /\ Goes(c, "expiries")
    /\ UNCHANGED chosen

\* ContributorFor, its first read: the registrations that carry the key.
ForReads(c) ==
    /\ Reads(c, "for")
    /\ held' = [held EXCEPT ![c] = ContributorsFor(job[c].key)]
    /\ IF ContributorsFor(job[c].key) = {} THEN Told(c, "no live contributor")
       ELSE Goes(c, "expiries")
    /\ UNCHANGED chosen

\* A listing shows each registration it read with the window it has worked out.
ListReports(c) ==
    LET windows == WindowsOf(held[c], Expiries)
    IN /\ pc[c] = "expiries" /\ job[c].verb = "list"
       /\ shown' = [shown EXCEPT ![c] = {r \in held[c] : Admits(windows[r], at[c])}]
       /\ Told(c, "listed")
       /\ UNCHANGED <<now, claims, job, at, began, held, chosen>>

\* Mutant: the oldest registration or none.
ForChoosesOldest(c) ==
    /\ pc[c] = "expiries" /\ job[c].verb = "for"
    /\ IF Admits(WindowsOf(held[c], Expiries)[Oldest(held[c])], at[c])
       THEN chosen' = [chosen EXCEPT ![c] = Oldest(held[c])] /\ Goes(c, "given")
       ELSE Told(c, "no live contributor") /\ UNCHANGED chosen
    /\ UNCHANGED <<now, claims, job, at, began, held, shown>>

\* The first registration whose window admits the instant asked about.
ForChooses(c) ==
    LET windows == WindowsOf(held[c], Expiries)
        live == {r \in held[c] : Admits(windows[r], at[c])}
    IN /\ pc[c] = "expiries" /\ job[c].verb = "for"
       /\ \/ live = {} /\ Told(c, "no live contributor") /\ UNCHANGED chosen
          \/ /\ live # {}
             /\ chosen' = [chosen EXCEPT ![c] = Oldest(live)]
             /\ Goes(c, "given")
       /\ UNCHANGED <<now, claims, job, at, began, held, shown>>

\* The caller signs a claim under the registration it was given.
Writes(c) ==
    /\ pc[c] = "given"
    /\ chosen' = [chosen EXCEPT ![c] = ClaimOf("write", job[c].key, chosen[c].id)]
    /\ Goes(c, "sending")
    /\ UNCHANGED <<now, claims, job, at, began, held, shown>>

\* Contribute: the claim lands or is refused, and the answer may be lost on its way.
\* A write is data of the branch: it registers nothing.
Send(c) ==
    /\ pc[c] = "sending"
    /\ LET lands == Accepted(chosen[c])
       IN /\ claims' = IF lands /\ chosen[c].type # "write" THEN claims \cup {Landed(chosen[c])}
                        ELSE claims
          /\ Told(c, IF lands THEN "landed" ELSE "refused") \/ Told(c, "failed")
    /\ UNCHANGED <<now, job, at, began, held, chosen, shown>>

\* The connection fails before the server has the claim.
Unsent(c) ==
    /\ pc[c] \in {"started", "attributing", "expiries", "sending"}
    /\ Told(c, "failed")
    /\ UNCHANGED <<now, claims, job, at, began, held, chosen, shown>>

-----------------------------------------------------------------------------
(* What others contribute, by ranke-go: a branch founded, a registration    *)
(* with bounds of its own, which may retire an earlier one, and an expiry.  *)

Contributed(claim) ==
    /\ Cardinality(claims) < MaxClaims
    /\ Accepted(claim)
    /\ claims' = claims \cup {claim}
    /\ UNCHANGED <<now, working>>

\* A `branch create` that read the table while it lacked the branch may land at any time.
Found == \E key \in Keys : Contributed(NewContributor(key))

\* Which of the registrations that may sign does is immaterial: the oldest.
Signer == Oldest({r \in Contributor : Admits(WindowOf(r, claims), now)}).id

\* What a registration says of those before it.
Retirements ==
    {{}} \cup {{e} : e \in [of : {r.id : r \in Contributor}, end : Expirations]}

Register ==
    /\ \E r \in Contributor : Admits(WindowOf(r, claims), now)
    /\ \E key \in Keys, span \in Spans, expiries \in Retirements :
         Contributed([ClaimOf("contributor", key, Signer)
                        EXCEPT !.from = span.from, !.until = span.until, !.expiries = expiries])

Expire ==
    /\ \E r \in Contributor : Admits(WindowOf(r, claims), now)
    /\ \E r \in Contributor, end \in Expirations :
         Contributed([ClaimOf("expiry", NoKey, Signer) EXCEPT !.expiries = {[of |-> r.id, end |-> end]}])

Tick == now < MaxTime /\ now' = now + 1 /\ UNCHANGED <<claims, working>>

Command(c) ==
    \/ CreateReads(c) \/ AddReads(c) \/ AddAttributes(c) \/ ListReads(c) \/ ForReads(c)
    \/ ListReports(c) \/ ForChooses(c) \/ Writes(c) \/ Send(c) \/ Unsent(c)

Next == (\E c \in Commands : Start(c) \/ Command(c)) \/ Found \/ Register \/ Expire \/ Tick

Spec == Init /\ [][Next]_vars

-----------------------------------------------------------------------------
(* Properties.                                                             *)

\* Types; ids are the places the claims landed in, so no two claims share one.
TypeOK ==
    /\ now \in Nat /\ claims \subseteq Claim(Keys \cup {NoKey})
    /\ {c.id : c \in claims} = 1..Cardinality(claims)
    /\ pc \in [Commands -> {"idle", "started", "attributing", "expiries", "given", "sending", "done"}]
    /\ job \in [Commands -> [verb : {"none", "create", "add", "list", "for"},
                             key : Keys \cup {NoKey}, admits : Keys \cup {NoKey}]]
    /\ at \in [Commands -> Nat]
    /\ began \in [Commands -> SUBSET claims] /\ held \in [Commands -> SUBSET claims]
    /\ chosen \in [Commands -> Claim(Keys) \cup {NoClaim}]
    /\ shown \in [Commands -> SUBSET claims]
    /\ report \in [Commands -> {"nothing", "exists", "admitted already", "no registration", "listed",
                                "no live contributor", "landed", "refused", "failed"}]

\* A window only shrinks: whatever lands and in whatever order, an instant that a
\* registration's window excluded stays excluded, so a revocation cannot extend a key
\* someone already retired (ContributorWindowOf).
WindowsOnlyShrink ==
    [][\A r \in claims, t \in 1..MaxTime :
          Admits(WindowOf(r, claims'), t) => Admits(WindowOf(r, claims), t)]_vars

\* A listing takes two reads, so it is of no single state of the branch; it still errs
\* on neither side: what it shows as valid was valid when it first read the branch, and
\* what it shows as invalid is so when it reports (list, ContributorWindows).
ListingIsBetween ==
    \A c \in Commands : report[c] = "listed" =>
      \A r \in held[c] :
        /\ r \in shown[c] => LiveAt(r, began[c], at[c])
        /\ LiveAt(r, claims, at[c]) => r \in shown[c]

\* ContributorFor reports that no registration is live only where none of those the
\* branch held when it was first read is.
RefusalIsTrue ==
    \A c \in Commands : report[c] = "no live contributor" =>
      \A r \in began[c] :
        r.type = "contributor" /\ r.key = job[c].key => ~LiveAt(r, claims, at[c])

\* A registration of its signing key that a command read and attributes its claim to.
Signs(c, r) ==
    r \in held[c] /\ r.type = "contributor" /\ r.id = chosen[c].by /\ r.key = job[c].key

\* What a command tells its caller is so of the branch as it stands from then on, and not
\* only of the branch it read: a key reported admitted is registered, by this run or by
\* another's; `add` finds no registration to sign under only where its key had none from
\* the start; and a claim is refused for one cause, that the registration it was
\* attributed to is no longer live at the claim's date.
ReportsAreTrue ==
    \A c \in Commands :
      /\ \/ report[c] = "admitted already"
         \/ report[c] = "landed" /\ job[c].verb \in {"create", "add"}
         => ContributorsFor(job[c].admits) # {}
      /\ report[c] = "no registration" =>
           \A r \in began[c] : r.type = "contributor" => r.key # job[c].key
      /\ report[c] = "refused" =>
           \E r \in held[c] : Signs(c, r) /\ ~LiveAt(r, claims, chosen[c].at)

\* What Expiries says of a window: that it reads the expiry claims and the contributor
\* claims that carry such an edge.  So the registration ContributorFor gives is live by
\* all the branch held when it was first read.
ChosenIsLive ==
    \A c \in Commands : pc[c] = "given" => LiveAt(chosen[c], began[c], at[c])

-----------------------------------------------------------------------------
(* The inductive invariant.                                                 *)

\* The registrations a list or an ask is of, by what it first read.
Asked(c) == {r \in began[c] : /\ r.type = "contributor"
                              /\ job[c].verb = "for" => r.key = job[c].key}

\* Where a command is tells what it was started for, what it has read and what it sends.
CommandsCarry ==
    \A c \in Commands :
      /\ pc[c] # "idle" => /\ job[c].key \in Keys /\ job[c].admits \in Keys
                           /\ job[c].verb # "add" => job[c].admits = job[c].key
      /\ pc[c] # "done" => report[c] = "nothing"
      /\ pc[c] = "expiries" => job[c].verb \in {"list", "for"} /\ held[c] = Asked(c)
      /\ pc[c] = "attributing" => job[c].verb = "add"
      /\ pc[c] \in {"given", "sending"} => chosen[c] \in Claim(Keys)
      /\ pc[c] = "given" => job[c].verb = "for" /\ chosen[c] \in held[c] /\ held[c] = Asked(c)
      /\ pc[c] = "sending" =>
           /\ job[c].verb \in {"create", "add"} =>
                chosen[c].type = "contributor" /\ chosen[c].key = job[c].admits
           /\ IF job[c].verb = "create" THEN chosen[c].by = chosen[c].id
              ELSE \E r \in held[c] : Signs(c, r)

\* What a branch keeps of its own registers or expires a key.
Registers == IsFiniteSet(claims) /\ \A r \in claims : r.type # "write"

IInv == /\ TypeOK /\ CommandsCarry /\ Registers
        /\ ListingIsBetween /\ RefusalIsTrue /\ ReportsAreTrue
=============================================================================
