-------------------------- MODULE Contributors_proofs --------------------------
(***************************************************************************)
(* Theorems about Contributors for any keys, commands, spans and dates.    *)
(***************************************************************************)
EXTENDS Contributors, TLAPS, WellFoundedInduction, FiniteSetTheorems

-----------------------------------------------------------------------------
(* Windows.                                                                *)

\* Instants are well ordered.
LEMMA LeastNatural ==
    ASSUME NEW S \in SUBSET Nat, S # {}
    PROVE  \E m \in S : \A n \in S : m <= n
<1>1. PICK m \in S : \A n \in S : <<n, m>> \notin OpToRel(<, Nat)
  BY WFMin, NatLessThanWellFounded
<1>2. \A n \in S : n < m => <<n, m>> \in OpToRel(<, Nat)
  BY DEF OpToRel
<1>3. \A n \in S : ~(n < m)
  BY <1>1, <1>2, Zenon
<1> QED
  BY <1>3

\* The dates that count are those of the edges that name the claim and have one.
LEMMA EndsAreInstants ==
    ASSUME NEW K, NEW carriers \in SUBSET Claim(K), NEW id
    PROVE  /\ Ends(id, carriers) \in SUBSET Nat
           /\ \A n : n \in Ends(id, carriers) <=>
                 n # NoBound /\ \E c \in carriers : \E e \in c.expiries : e.of = id /\ e.end = n
<1>1. \A c \in carriers : c.expiries \subseteq [of : Nat, end : Bounds]
  BY DEF Claim
<1> QED
  BY <1>1 DEF Ends, Bounds

\* revocation: the earliest of the dates, where there is one.
LEMMA RevocationIsLeast ==
    ASSUME NEW K, NEW carriers \in SUBSET Claim(K), NEW id
    PROVE  /\ Ends(id, carriers) = {} => Revocation(id, carriers) = NoBound
           /\ Ends(id, carriers) # {} =>
                /\ Revocation(id, carriers) \in Ends(id, carriers)
                /\ \A n \in Ends(id, carriers) : Revocation(id, carriers) <= n
<1>1. Ends(id, carriers) \in SUBSET Nat
  BY EndsAreInstants
<1> QED
  BY <1>1, LeastNatural DEF Revocation

\* A window computed by folding the expiry edges (client/contributor_window.go) admits
\* the instants that nothing the claim states and no edge excludes, and no other.
THEOREM WindowMeansLive ==
    ASSUME NEW K, NEW self \in Claim(K), NEW carriers \in SUBSET Claim(K), NEW t \in Nat
    PROVE  Admits(WindowOf(self, carriers), t) <=> LiveAt(self, carriers, t)
<1> DEFINE end == Revocation(self.id, carriers)
           ends == Ends(self.id, carriers)
<1>1. self.from \in Bounds /\ self.until \in Bounds
  BY DEF Claim
<1>2. ends \in SUBSET Nat
  BY EndsAreInstants
<1>3. /\ ends = {} => end = NoBound
      /\ ends # {} => end \in ends /\ \A n \in ends : end <= n
  BY RevocationIsLeast
<1>4. (\A c \in carriers : \A e \in c.expiries :
         e.of = self.id /\ e.end # NoBound => t <= e.end)
      <=> \A n \in ends : t <= n
  BY EndsAreInstants
<1>5. LiveAt(self, carriers, t) <=>
        /\ self.from # NoBound => self.from <= t
        /\ self.until # NoBound => t <= self.until
        /\ \A n \in ends : t <= n
  BY <1>4 DEF LiveAt
<1> HIDE DEF ends, end
<1>6. Admits(WindowOf(self, carriers), t) <=>
        /\ self.from # NoBound => self.from <= t
        /\ LET u == IF end # NoBound /\ (self.until # NoBound => end < self.until)
                    THEN end ELSE self.until
           IN u # NoBound => t <= u
  BY <1>1 DEF Admits, WindowOf, end
<1>7. (\A n \in ends : t <= n) <=> (end # NoBound => t <= end)
  <2>1. CASE ends = {}
    BY <1>3, <2>1
  <2>2. CASE ends # {}
    <3>1. end \in Nat /\ end # NoBound
      BY <1>2, <1>3, <2>2, BoundAssumption
    <3>2. \A n \in ends : n \in Nat /\ end <= n
      BY <1>2, <1>3, <2>2
    <3> QED
      BY <1>3, <2>2, <3>1, <3>2
  <2> QED
    BY <2>1, <2>2
<1>8. end \in Bounds
  BY <1>2, <1>3 DEF Bounds
<1> QED
  BY <1>1, <1>5, <1>6, <1>7, <1>8, BoundAssumption DEF Bounds

\* What more claims leave live, fewer do.
LEMMA MoreCarriers ==
    ASSUME NEW self, NEW fewer, NEW more, fewer \subseteq more, NEW t, LiveAt(self, more, t)
    PROVE  LiveAt(self, fewer, t)
  BY DEF LiveAt

-----------------------------------------------------------------------------
(* Claims.                                                                 *)

\* Among some claims there is an oldest one, and Oldest is one.
LEMMA OldestFacts ==
    ASSUME NEW K, NEW S \in SUBSET Claim(K), S # {}
    PROVE  Oldest(S) \in S /\ \A d \in S : Older(Oldest(S), d)
<1>0. \A c \in S : c.at \in Nat /\ c.id \in Nat
  BY DEF Claim
<1> DEFINE ats == {c.at : c \in S}
<1>1. PICK m \in ats : \A n \in ats : m <= n
  <2>1. ats \in SUBSET Nat /\ ats # {}
    BY <1>0
  <2> HIDE DEF ats
  <2> QED
    BY <2>1, LeastNatural
<1> DEFINE ids == {c.id : c \in {d \in S : d.at = m}}
<1>2. PICK i \in ids : \A n \in ids : i <= n
  <2>1. ids \in SUBSET Nat /\ ids # {}
    BY <1>0
  <2> HIDE DEF ids
  <2> QED
    BY <2>1, LeastNatural
<1>3. PICK c \in S : c.at = m /\ c.id = i
  OBVIOUS
<1>4. ASSUME NEW d \in S PROVE Older(c, d)
  <2>1. m <= d.at /\ m \in Nat /\ d.at \in Nat
    BY <1>0, <1>1
  <2>2. d.at = m => i <= d.id
    BY <1>2
  <2> QED
    BY <1>3, <2>1, <2>2 DEF Older
<1> QED
  BY <1>4 DEF Oldest

\* The parts of the type invariant, by what an action leaves alone together.
BranchTyped == /\ now \in Nat /\ claims \in SUBSET Claim(Keys \cup {NoKey})
               /\ {c.id : c \in claims} = 1..Cardinality(claims)
               /\ IsFiniteSet(claims) /\ \A r \in claims : r.type # "write"

\* A claim the program or an application makes now.
LEMMA ClaimOfTyped ==
    ASSUME BranchTyped, NEW K, NEW key \in K, NEW type \in {"contributor", "expiry", "write"},
           NEW by \in Nat
    PROVE  /\ ClaimOf(type, key, by) \in Claim(K)
           /\ ClaimOf(type, key, by).id = Cardinality(claims) + 1
           /\ ClaimOf(type, key, by).by = by /\ ClaimOf(type, key, by).type = type
<1>1. Cardinality(claims) \in Nat /\ now \in Nat
  BY FS_CardinalityType DEF BranchTyped
<1>2. NoBound \in Bounds
  BY DEF Bounds
<1> QED
  BY <1>1, <1>2 DEF ClaimOf, Claim

\* A claim that lands takes the next place.
LEMMA BranchGrows ==
    ASSUME BranchTyped, NEW x \in Claim(Keys \cup {NoKey}), x.id = Cardinality(claims) + 1,
           x.type # "write", claims' = claims \cup {x}, now' = now
    PROVE  BranchTyped'
<1>1. Cardinality(claims) \in Nat
  BY FS_CardinalityType DEF BranchTyped
<1>2. x \notin claims
  <2>1. \A c \in claims : c.id \in 1..Cardinality(claims)
    BY DEF BranchTyped
  <2> QED
    BY <1>1, <2>1
<1>3. IsFiniteSet(claims') /\ Cardinality(claims') = Cardinality(claims) + 1
  BY <1>1, <1>2, FS_AddElement DEF BranchTyped
<1>4. {c.id : c \in claims'} = {c.id : c \in claims} \cup {x.id}
  OBVIOUS
<1>5. {c.id : c \in claims'} = 1..Cardinality(claims')
  BY <1>1, <1>3, <1>4 DEF BranchTyped
<1> QED
  BY <1>3, <1>5 DEF BranchTyped

-----------------------------------------------------------------------------
(* Commands.                                                               *)

CommandsTyped ==
    /\ pc \in [Commands -> {"idle", "started", "attributing", "expiries", "given", "sending", "done"}]
    /\ job \in [Commands -> [verb : {"none", "create", "add", "list", "for"},
                             key : Keys \cup {NoKey}, admits : Keys \cup {NoKey}]]
    /\ at \in [Commands -> Nat]
    /\ began \in [Commands -> SUBSET claims] /\ held \in [Commands -> SUBSET claims]
    /\ chosen \in [Commands -> Claim(Keys) \cup {NoClaim}]
    /\ shown \in [Commands -> SUBSET claims]
    /\ report \in [Commands -> {"nothing", "exists", "admitted already", "no registration", "listed",
                                "no live contributor", "landed", "refused", "failed"}]

\* What CommandsCarry says of one command.
Carries(c) ==
    /\ pc[c] # "idle" => /\ job[c].key \in Keys /\ job[c].admits \in Keys
                         /\ job[c].verb # "add" => job[c].admits = job[c].key
    /\ pc[c] # "done" => report[c] = "nothing"
    /\ pc[c] = "expiries" => job[c].verb \in {"list", "for"} /\ held[c] = Asked(c)
    /\ pc[c] = "attributing" => job[c].verb = "add"
    /\ pc[c] \in {"given", "sending"} => chosen[c] \in Claim(Keys)
    /\ pc[c] = "given" => job[c].verb = "for" /\ chosen[c] \in held[c] /\ held[c] = Asked(c)
    /\ pc[c] = "sending" =>
         /\ job[c].verb \in {"create", "add"} =>
              chosen[c].type = "contributor" /\ chosen[c].key = job[c].admits
         /\ IF job[c].verb = "create" THEN chosen[c].by = chosen[c].id
            ELSE \E r \in held[c] : Signs(c, r)

\* What the properties say of one command.
Between(c) ==
    report[c] = "listed" =>
      \A r \in held[c] : /\ r \in shown[c] => LiveAt(r, began[c], at[c])
                         /\ LiveAt(r, claims, at[c]) => r \in shown[c]
Refuses(c) ==
    report[c] = "no live contributor" =>
      \A r \in began[c] :
        r.type = "contributor" /\ r.key = job[c].key => ~LiveAt(r, claims, at[c])
Reports(c) ==
    /\ \/ report[c] = "admitted already"
       \/ report[c] = "landed" /\ job[c].verb \in {"create", "add"}
       => ContributorsFor(job[c].admits) # {}
    /\ report[c] = "no registration" =>
         \A r \in began[c] : r.type = "contributor" => r.key # job[c].key
    /\ report[c] = "refused" =>
         \E r \in held[c] : Signs(c, r) /\ ~LiveAt(r, claims, chosen[c].at)

Good(c) == Carries(c) /\ Between(c) /\ Refuses(c) /\ Reports(c)
State == BranchTyped /\ CommandsTyped /\ \A c \in Commands : Good(c)

LEMMA StateIs == State <=> IInv
  BY DEF State, IInv, TypeOK, BranchTyped, Registers, CommandsTyped, CommandsCarry, Good, Carries,
         Between, Refuses, Reports, ListingIsBetween, RefusalIsTrue, ReportsAreTrue

LEMMA StateIsNext == State' <=> IInv'
  BY DEF State, IInv, TypeOK, BranchTyped, Registers, CommandsTyped, CommandsCarry, Good, Carries,
         Between, Refuses, Reports, ListingIsBetween, RefusalIsTrue, ReportsAreTrue

\* What lands on the branch takes nothing from what a command has seen or told.
LEMMA OthersStay ==
    ASSUME NEW d \in Commands, Good(d), claims \subseteq claims',
           pc'[d] = pc[d], job'[d] = job[d], at'[d] = at[d], began'[d] = began[d],
           held'[d] = held[d], chosen'[d] = chosen[d], shown'[d] = shown[d], report'[d] = report[d]
    PROVE  Good(d)'
<1>1. Carries(d)'
  BY DEF Good, Carries, Asked, Signs
<1>2. \A r, t : LiveAt(r, claims', t) => LiveAt(r, claims, t)
  BY MoreCarriers
<1>3. Between(d)' /\ Refuses(d)'
  BY <1>2 DEF Good, Between, Refuses
<1>4. Reports(d)'
  BY <1>2 DEF Good, Reports, Signs, ContributorsFor, Contributor
<1> QED
  BY <1>1, <1>3, <1>4 DEF Good

\* What a command has, another's step leaves alone.
Same(d) == /\ pc'[d] = pc[d] /\ job'[d] = job[d] /\ at'[d] = at[d] /\ began'[d] = began[d]
           /\ held'[d] = held[d] /\ chosen'[d] = chosen[d] /\ shown'[d] = shown[d]
           /\ report'[d] = report[d]

LEMMA OthersSame ==
    ASSUME CommandsTyped, NEW c \in Commands, Start(c) \/ Command(c), NEW d \in Commands, d # c
    PROVE  Same(d)
<1>1. Start(c) => Same(d)
  BY DEF CommandsTyped, Start, Same
<1>t. ASSUME NEW what, Told(c, what) \/ Goes(c, what)
      PROVE  pc'[d] = pc[d] /\ report'[d] = report[d]
  BY <1>t DEF CommandsTyped, Told, Goes
<1>r. ASSUME NEW verb, Reads(c, verb)
      PROVE  /\ job'[d] = job[d] /\ at'[d] = at[d] /\ began'[d] = began[d]
             /\ shown'[d] = shown[d]
  BY <1>r DEF CommandsTyped, Reads
<1>2. CreateReads(c) => Same(d)
  BY <1>t, <1>r DEF CommandsTyped, CreateReads, Same
<1>3. AddReads(c) => Same(d)
  BY <1>t, <1>r DEF AddReads, Same
<1>4. ListReads(c) \/ ForReads(c) => Same(d)
  BY <1>t, <1>r DEF CommandsTyped, ListReads, ForReads, Same
<1>5. AddAttributes(c) => Same(d)
  BY DEF CommandsTyped, AddAttributes, Told, Goes, Same
<1>6. ListReports(c) \/ ForChooses(c) => Same(d)
  BY DEF CommandsTyped, ListReports, ForChooses, Told, Goes, Same
<1>7. Writes(c) \/ Send(c) \/ Unsent(c) => Same(d)
  BY DEF CommandsTyped, Writes, Send, Unsent, Told, Goes, Same
<1> QED
  BY <1>1, <1>2, <1>3, <1>4, <1>5, <1>6, <1>7 DEF Command

\* A step of one command.
LEMMA OneCommand ==
    ASSUME State, NEW c \in Commands, Start(c) \/ Command(c),
           BranchTyped', CommandsTyped', claims \subseteq claims', Good(c)'
    PROVE  State'
<1>1. ASSUME NEW d \in Commands, d # c PROVE Good(d)'
  <2>1. Same(d)
    BY <1>1, OthersSame DEF State
  <2> QED
    BY <2>1, OthersStay DEF State, Same
<1> QED
  BY <1>1 DEF State

\* The claims the branch and the commands hold are typed.
LEMMA HeldTyped ==
    ASSUME State, NEW c \in Commands
    PROVE  /\ began[c] \in SUBSET Claim(Keys \cup {NoKey})
           /\ held[c] \in SUBSET Claim(Keys \cup {NoKey})
  BY DEF State, BranchTyped, CommandsTyped

LEMMA StartStep ==
    ASSUME State, NEW c \in Commands, Start(c)
    PROVE  State'
<1>1. PICK verb \in {"create", "add", "list", "for"}, key \in Keys, admits \in Keys :
        /\ verb # "add" => admits = key
        /\ job' = [job EXCEPT ![c] = [verb |-> verb, key |-> key, admits |-> admits]]
  BY DEF Start
<1>2. CommandsTyped'
  BY <1>1 DEF State, BranchTyped, CommandsTyped, Start
<1>3. /\ job'[c].key \in Keys /\ job'[c].admits \in Keys /\ pc'[c] = "started"
      /\ job'[c].verb # "add" => job'[c].admits = job'[c].key
      /\ report'[c] = "nothing"
  BY <1>1 DEF State, CommandsTyped, Start, Good, Carries
<1>4. Good(c)'
  BY <1>3 DEF Good, Carries, Between, Refuses, Reports
<1>5. BranchTyped' /\ claims \subseteq claims'
  BY DEF State, BranchTyped, Start
<1> QED
  BY <1>2, <1>4, <1>5, OneCommand

\* The steps of a command that only read, by what they make of it.
LEMMA ReadingSteps ==
    ASSUME State, NEW c \in Commands,
           CreateReads(c) \/ AddReads(c) \/ AddAttributes(c) \/ ListReads(c) \/ ForReads(c)
    PROVE  State'
<1>0. BranchTyped' /\ claims' = claims /\ CommandsTyped /\ Good(c) /\ BranchTyped
  BY DEF State, BranchTyped, CreateReads, AddReads, AddAttributes, ListReads, ForReads, Reads
<1>1. /\ job[c].key \in Keys /\ job[c].admits \in Keys /\ report[c] = "nothing"
      /\ job[c].verb # "add" => job[c].admits = job[c].key
  BY <1>0
  DEF Good, Carries, CreateReads, AddReads, AddAttributes, ListReads, ForReads, Reads
<1>2. CASE CreateReads(c)
  <2>1. NewContributor(job[c].key) \in Claim(Keys)
    <3>1. Cardinality(claims) + 1 \in Nat
      BY <1>0, FS_CardinalityType DEF BranchTyped
    <3> QED
      BY <1>0, <1>1, <3>1, ClaimOfTyped DEF NewContributor
  <2> DEFINE sent == NewContributor(job[c].key)
  <2>a. /\ Reads(c, "create") /\ held' = held
        /\ \/ Told(c, "exists") /\ UNCHANGED chosen
           \/ chosen' = [chosen EXCEPT ![c] = sent] /\ Goes(c, "sending")
    BY <1>2 DEF CreateReads
  <2>b. /\ sent \in Claim(Keys) /\ sent.type = "contributor" /\ sent.key = job[c].key
        /\ sent.by = sent.id
    BY <2>1 DEF NewContributor, ClaimOf
  <2> HIDE DEF sent
  <2>2. CommandsTyped'
    <3>1. CASE Told(c, "exists") /\ UNCHANGED chosen
      BY <1>0, <2>a, <3>1 DEF CommandsTyped, Reads, Told
    <3>2. CASE chosen' = [chosen EXCEPT ![c] = sent] /\ Goes(c, "sending")
      BY <1>0, <2>a, <2>b, <3>2 DEF CommandsTyped, Reads, Goes
    <3> QED
      BY <2>a, <3>1, <3>2
  <2>3. job'[c] = job[c] /\ job[c].verb = "create"
    BY <1>2 DEF CreateReads, Reads
  <2>4. \/ pc'[c] = "done" /\ report'[c] = "exists"
        \/ /\ pc'[c] = "sending" /\ report'[c] = report[c]
           /\ chosen'[c] = sent
    BY <1>0, <2>a DEF CommandsTyped, Told, Goes
  <2>5. Good(c)'
    BY <1>0, <1>1, <2>b, <2>3, <2>4 DEF Good, Carries, Between, Refuses, Reports
  <2> QED
    BY <1>0, <1>2, <2>2, <2>5, OneCommand DEF Command
<1>3. CASE AddReads(c)
  <2>1. CommandsTyped'
    BY <1>0, <1>3 DEF CommandsTyped, AddReads, Reads, Told, Goes
  <2>2. job'[c] = job[c] /\ job[c].verb = "add" /\ began'[c] = claims
    BY <1>0, <1>3 DEF CommandsTyped, AddReads, Reads
  <2>3. \/ /\ pc'[c] = "done" /\ report'[c] = "admitted already"
           /\ ContributorsFor(job[c].admits) # {}
        \/ pc'[c] = "attributing" /\ report'[c] = report[c]
    BY <1>0, <1>3 DEF CommandsTyped, AddReads, Told, Goes
  <2>4. (ContributorsFor(job[c].admits))' = ContributorsFor(job[c].admits)
    BY <1>0, <2>2 DEF ContributorsFor, Contributor
  <2>5. Good(c)'
    BY <1>1, <2>2, <2>3, <2>4 DEF Good, Carries, Between, Refuses, Reports
  <2> QED
    BY <1>0, <1>3, <2>1, <2>5, OneCommand DEF Command
<1>4. CASE AddAttributes(c)
  <2> DEFINE mine == ContributorsFor(job[c].key)
  <2>1. mine \in SUBSET claims /\ mine \in SUBSET Claim(Keys \cup {NoKey})
        /\ \A r \in mine : r.key = job[c].key
    BY <1>0 DEF ContributorsFor, Contributor, BranchTyped
  <2>2. /\ job'[c] = job[c] /\ job[c].verb = "add" /\ held'[c] = mine /\ began'[c] = began[c]
        /\ \A r \in began[c] : r.type = "contributor" /\ r.key = job[c].key => r \in mine
        /\ \A r \in mine : r.type = "contributor" /\ r.key = job[c].key
    BY <1>0, <1>4
    DEF CommandsTyped, AddAttributes, Good, Carries, ContributorsFor, Contributor
  <2> HIDE DEF mine
  <2>3. CASE mine = {} /\ Told(c, "no registration") /\ UNCHANGED chosen
    <3>1. CommandsTyped'
      BY <1>0, <1>4, <2>1, <2>3 DEF CommandsTyped, AddAttributes, Told, mine
    <3>2. Good(c)'
      BY <1>0, <1>1, <2>2, <2>3 DEF CommandsTyped, Told, Good, Carries, Between, Refuses, Reports
    <3> QED
      BY <1>0, <1>4, <3>1, <3>2, OneCommand DEF Command
  <2>4. CASE /\ mine # {} /\ Goes(c, "sending")
             /\ chosen' = [chosen EXCEPT ![c] = ClaimOf("contributor", job[c].admits, Oldest(mine).id)]
    <3>0. Oldest(mine) \in mine /\ \A d \in mine : Older(Oldest(mine), d)
      BY <2>1, <2>4, OldestFacts
    <3>1. Oldest(mine) \in mine /\ (\A d \in mine : Older(Oldest(mine), d)) /\ Oldest(mine).id \in Nat
      BY <2>1, <3>0 DEF Claim
    <3> DEFINE sent == ClaimOf("contributor", job[c].admits, Oldest(mine).id)
    <3>2. /\ sent \in Claim(Keys) /\ sent.by = Oldest(mine).id
          /\ sent.type = "contributor" /\ sent.key = job[c].admits
      <4>1. ASSUME NEW key \in Keys, NEW by \in Nat
            PROVE  /\ ClaimOf("contributor", key, by) \in Claim(Keys)
                   /\ ClaimOf("contributor", key, by).by = by
                   /\ ClaimOf("contributor", key, by).type = "contributor"
                   /\ ClaimOf("contributor", key, by).key = key
        BY <1>0, ClaimOfTyped DEF ClaimOf
      <4> QED
        BY <1>1, <3>1, <4>1
    <3> HIDE DEF sent
    <3>3. CommandsTyped' /\ chosen'[c] = sent /\ pc'[c] = "sending" /\ report'[c] = report[c]
      <4>1. chosen' = [chosen EXCEPT ![c] = sent]
        BY <2>4 DEF sent
      <4>2. /\ held' = [held EXCEPT ![c] = mine] /\ pc' = [pc EXCEPT ![c] = "sending"]
            /\ UNCHANGED <<claims, job, at, began, shown, report>>
        BY <1>4, <2>4 DEF AddAttributes, Goes, mine
      <4> QED
        BY <1>0, <2>1, <3>2, <4>1, <4>2 DEF CommandsTyped
    <3>4. \E r \in held'[c] : Signs(c, r)'
      BY <2>2, <3>1, <3>2, <3>3 DEF Signs
    <3>5. Good(c)'
      BY <1>1, <2>2, <3>2, <3>3, <3>4 DEF Good, Carries, Between, Refuses, Reports
    <3> QED
      BY <1>0, <1>4, <3>3, <3>5, OneCommand DEF Command
  <2> QED
    BY <1>4, <2>3, <2>4 DEF AddAttributes, mine
<1>5. CASE ListReads(c)
  <2>1. CommandsTyped'
    BY <1>0, <1>5 DEF CommandsTyped, ListReads, Reads, Told, Goes, Contributor
  <2>2. /\ job'[c] = job[c] /\ job[c].verb = "list" /\ began'[c] = claims /\ held'[c] = Contributor
        /\ pc'[c] = "expiries" /\ report'[c] = report[c]
    BY <1>0, <1>5 DEF CommandsTyped, ListReads, Reads, Goes
  <2>3. Good(c)'
    BY <1>1, <2>2 DEF Good, Carries, Between, Refuses, Reports, Asked, Contributor
  <2> QED
    BY <1>0, <1>5, <2>1, <2>3, OneCommand DEF Command
<1>6. CASE ForReads(c)
  <2>1. CommandsTyped'
    BY <1>0, <1>6 DEF CommandsTyped, ForReads, Reads, Told, Goes, ContributorsFor, Contributor
  <2>2. /\ job'[c] = job[c] /\ job[c].verb = "for" /\ began'[c] = claims
        /\ held'[c] = ContributorsFor(job[c].key)
    BY <1>0, <1>6 DEF CommandsTyped, ForReads, Reads
  <2>3. \/ /\ pc'[c] = "done" /\ report'[c] = "no live contributor"
           /\ ContributorsFor(job[c].key) = {}
        \/ pc'[c] = "expiries" /\ report'[c] = report[c]
    BY <1>0, <1>6 DEF CommandsTyped, ForReads, Told, Goes
  <2>4. Good(c)'
    BY <1>1, <2>2, <2>3
    DEF Good, Carries, Between, Refuses, Reports, Asked, ContributorsFor, Contributor
  <2> QED
    BY <1>0, <1>6, <2>1, <2>4, OneCommand DEF Command
<1> QED
  BY <1>2, <1>3, <1>4, <1>5, <1>6

\* The windows a command works out are those of the branch it has read.
LEMMA WorkedOut ==
    ASSUME State, NEW c \in Commands, pc[c] = "expiries", NEW r \in held[c]
    PROVE  /\ Admits(WindowsOf(held[c], Expiries)[r], at[c]) => LiveAt(r, Expiries \cup held[c], at[c])
           /\ LiveAt(r, claims, at[c]) => Admits(WindowsOf(held[c], Expiries)[r], at[c])
<1> DEFINE carriers == Expiries \cup held[c]
<1>1. /\ carriers \in SUBSET Claim(Keys \cup {NoKey}) /\ carriers \subseteq claims
      /\ r \in Claim(Keys \cup {NoKey}) /\ at[c] \in Nat
  BY DEF State, BranchTyped, CommandsTyped, Expiries
<1>2. WindowsOf(held[c], Expiries)[r] = WindowOf(r, carriers)
  BY DEF WindowsOf
<1> HIDE DEF carriers
<1>3. Admits(WindowOf(r, carriers), at[c]) <=> LiveAt(r, carriers, at[c])
  BY <1>1, WindowMeansLive
<1>4. LiveAt(r, claims, at[c]) => LiveAt(r, carriers, at[c])
  BY <1>1, MoreCarriers
<1> QED
  BY <1>2, <1>3, <1>4 DEF carriers

LEMMA ListReportsStep ==
    ASSUME State, NEW c \in Commands, ListReports(c)
    PROVE  State'
<1> DEFINE windows == WindowsOf(held[c], Expiries)
           valid == {r \in held[c] : Admits(windows[r], at[c])}
<1>0. /\ BranchTyped' /\ claims' = claims /\ CommandsTyped /\ Carries(c) /\ BranchTyped
      /\ pc[c] = "expiries" /\ job[c].verb = "list" /\ held[c] = Asked(c)
  BY DEF State, BranchTyped, Good, Carries, ListReports
<1>1. /\ shown' = [shown EXCEPT ![c] = valid] /\ Told(c, "listed")
      /\ UNCHANGED <<claims, job, at, began, held, chosen>>
  BY DEF ListReports
<1>2. valid \in SUBSET claims
  BY <1>0 DEF CommandsTyped
<1>3. \A r \in held[c] : LiveAt(r, claims, at[c]) => r \in valid
  BY <1>0, WorkedOut
<1>4. \A r \in valid : LiveAt(r, began[c], at[c])
  <2>1. began[c] \subseteq Expiries \cup held[c]
    <3>1. \A r \in began[c] : r \in claims /\ r.type \in {"contributor", "expiry", "write"}
      <4>1. \A r \in claims : r.type \in {"contributor", "expiry", "write"}
        BY <1>0 DEF BranchTyped, Claim
      <4> QED
        BY <1>0, <4>1 DEF CommandsTyped
    <3> QED
      BY <1>0, <3>1 DEF BranchTyped, Expiries, Asked
  <2>2. \A r \in valid : LiveAt(r, Expiries \cup held[c], at[c])
    BY <1>0, WorkedOut
  <2> QED
    BY <2>1, <2>2, MoreCarriers
<1> HIDE DEF valid
<1>5. CommandsTyped'
  BY <1>0, <1>1, <1>2 DEF CommandsTyped, Told
<1>6. /\ pc'[c] = "done" /\ report'[c] = "listed" /\ shown'[c] = valid
      /\ UNCHANGED <<claims, job, at, began, held, chosen>>
  BY <1>0, <1>1 DEF CommandsTyped, Told
<1>7. Good(c)'
  BY <1>0, <1>3, <1>4, <1>6 DEF Good, Carries, Between, Refuses, Reports
<1> QED
  BY <1>0, <1>5, <1>7, OneCommand DEF Command

LEMMA ForChoosesStep ==
    ASSUME State, NEW c \in Commands, ForChooses(c)
    PROVE  State'
<1> DEFINE windows == WindowsOf(held[c], Expiries)
           live == {r \in held[c] : Admits(windows[r], at[c])}
<1>0. /\ BranchTyped' /\ claims' = claims /\ CommandsTyped /\ Carries(c) /\ BranchTyped
      /\ pc[c] = "expiries" /\ job[c].verb = "for" /\ held[c] = Asked(c)
      /\ job[c].key \in Keys /\ job[c].admits \in Keys /\ report[c] = "nothing"
  BY DEF State, BranchTyped, Good, Carries, ForChooses
<1>1. /\ UNCHANGED <<claims, job, at, began, held, shown>>
      /\ \/ live = {} /\ Told(c, "no live contributor") /\ UNCHANGED chosen
         \/ live # {} /\ chosen' = [chosen EXCEPT ![c] = Oldest(live)] /\ Goes(c, "given")
  BY DEF ForChooses
<1>2. \A r \in held[c] : LiveAt(r, claims, at[c]) => r \in live
  BY <1>0, WorkedOut
<1>3. live \in SUBSET held[c] /\ held[c] \in SUBSET Claim(Keys \cup {NoKey})
  BY HeldTyped
<1> HIDE DEF live
<1>4. CASE live = {} /\ Told(c, "no live contributor") /\ UNCHANGED chosen
  <2>1. CommandsTyped'
    BY <1>0, <1>1, <1>4 DEF CommandsTyped, Told
  <2>2. pc'[c] = "done" /\ report'[c] = "no live contributor"
    BY <1>0, <1>4 DEF CommandsTyped, Told
  <2>3. Refuses(c)'
    <3>1. \A r \in began[c] : r.type = "contributor" /\ r.key = job[c].key => r \in held[c]
      BY <1>0 DEF Asked
    <3>2. \A r \in began[c] :
            r.type = "contributor" /\ r.key = job[c].key => ~LiveAt(r, claims, at[c])
      BY <1>2, <1>4, <3>1
    <3> QED
      BY <1>1, <3>2 DEF Refuses
  <2>4. Good(c)'
    BY <1>0, <1>1, <2>2, <2>3 DEF Good, Carries, Between, Reports
  <2> QED
    BY <1>0, <2>1, <2>4, OneCommand DEF Command
<1>5. CASE live # {} /\ chosen' = [chosen EXCEPT ![c] = Oldest(live)] /\ Goes(c, "given")
  <2>1. Oldest(live) \in live
    BY <1>3, <1>5, OldestFacts
  <2>2. Oldest(live) \in Claim(Keys)
    <3>1. Oldest(live) \in Claim(Keys \cup {NoKey}) /\ Oldest(live).key \in Keys
      BY <1>0, <1>3, <2>1 DEF Asked
    <3> QED
      BY <3>1 DEF Claim
  <2> DEFINE given == Oldest(live)
  <2>3. given \in Claim(Keys) /\ chosen' = [chosen EXCEPT ![c] = given]
    BY <1>5, <2>2
  <2> HIDE DEF given
  <2>4. CommandsTyped'
    <3>1. /\ UNCHANGED <<claims, job, at, began, held, shown, report>>
          /\ pc' = [pc EXCEPT ![c] = "given"]
      BY <1>1, <1>5 DEF Goes
    <3> QED
      BY <1>0, <2>3, <3>1 DEF CommandsTyped
  <2>5. pc'[c] = "given" /\ report'[c] = "nothing" /\ chosen'[c] = given
    BY <1>0, <1>5, <2>3 DEF CommandsTyped, Goes
  <2>6. given \in held[c] /\ Asked(c)' = Asked(c)
    BY <1>1, <1>3, <2>1 DEF given, Asked
  <2>7. Good(c)'
    BY <1>0, <1>1, <2>3, <2>5, <2>6 DEF Good, Carries, Between, Refuses, Reports
  <2> QED
    BY <1>0, <2>4, <2>7, OneCommand DEF Command
<1> QED
  BY <1>1, <1>4, <1>5

LEMMA WritesStep ==
    ASSUME State, NEW c \in Commands, Writes(c)
    PROVE  State'
<1> DEFINE write == ClaimOf("write", job[c].key, chosen[c].id)
<1>0. /\ BranchTyped' /\ claims' = claims /\ CommandsTyped /\ Carries(c) /\ BranchTyped
      /\ job[c].verb = "for" /\ job[c].key \in Keys /\ job[c].admits = job[c].key
      /\ report[c] = "nothing" /\ chosen[c] \in Claim(Keys)
  BY DEF State, BranchTyped, Good, Carries, Writes
<1>g. chosen[c] \in held[c] /\ held[c] = Asked(c) /\ job[c].verb = "for"
  BY DEF State, Good, Carries, Writes
<1>1. write \in Claim(Keys)
  <2>1. ASSUME NEW key \in Keys, NEW by \in Nat PROVE ClaimOf("write", key, by) \in Claim(Keys)
    BY <1>0, ClaimOfTyped
  <2>2. chosen[c].id \in Nat
    BY <1>0 DEF Claim
  <2> QED
    BY <1>0, <2>1, <2>2
<1>2. chosen' = [chosen EXCEPT ![c] = write] /\ Goes(c, "sending")
      /\ UNCHANGED <<claims, job, at, began, held, shown>>
  BY DEF Writes
<1> HIDE DEF write
<1>3. CommandsTyped'
  BY <1>0, <1>1, <1>2 DEF CommandsTyped, Goes
<1>4. pc'[c] = "sending" /\ report'[c] = "nothing" /\ chosen'[c] = write
  BY <1>0, <1>2 DEF CommandsTyped, Goes
<1>s. \E r \in held'[c] : Signs(c, r)'
  <2>1. PICK r \in held[c] : r = chosen[c]
    BY <1>g
  <2>2. r.type = "contributor" /\ r.key = job[c].key /\ write.by = r.id
    BY <1>g, <2>1 DEF Asked, ClaimOf, write
  <2> QED
    BY <1>2, <1>4, <2>1, <2>2 DEF Signs
<1>5. Good(c)'
  BY <1>0, <1>1, <1>2, <1>4, <1>g, <1>s DEF Good, Carries, Between, Refuses, Reports
<1> QED
  BY <1>0, <1>3, <1>5, OneCommand DEF Command

\* What every step does to the branch: nothing, or one claim lands.
Grows(x) ==
    /\ x \in Claim(Keys \cup {NoKey}) /\ x.id = Cardinality(claims) + 1 /\ x.type # "write"
    /\ claims' = claims \cup {x}

LEMMA SendStep ==
    ASSUME State, NEW c \in Commands, Send(c)
    PROVE  State'
<1>0. /\ CommandsTyped /\ Carries(c) /\ BranchTyped /\ now' = now
      /\ job[c].verb # "add" => job[c].admits = job[c].key
      /\ job[c].key \in Keys /\ job[c].admits \in Keys /\ chosen[c] \in Claim(Keys)
      /\ job[c].verb \in {"create", "add"} =>
           chosen[c].type = "contributor" /\ chosen[c].key = job[c].admits
      /\ IF job[c].verb = "create" THEN chosen[c].by = chosen[c].id
         ELSE \E r \in held[c] : Signs(c, r)
  BY DEF State, Good, Carries, Send
<1>1. claims' = claims \/ Grows(Landed(chosen[c]))
  <2>1. Landed(chosen[c]) \in Claim(Keys \cup {NoKey})
        /\ Landed(chosen[c]).id = Cardinality(claims) + 1
        /\ Landed(chosen[c]).type = chosen[c].type
    <3>1. Cardinality(claims) + 1 \in Nat
      BY <1>0, FS_CardinalityType DEF BranchTyped
    <3> QED
      BY <1>0, <3>1 DEF Landed, Claim
  <2> QED
    BY <2>1 DEF Send, Grows
<1>2. BranchTyped' /\ claims \subseteq claims'
  <2>1. CASE claims' = claims
    BY <1>0, <2>1 DEF BranchTyped
  <2>2. CASE Grows(Landed(chosen[c]))
    BY <1>0, <2>2, BranchGrows DEF Grows
  <2> QED
    BY <1>1, <2>1, <2>2
<1>3. PICK what \in {"landed", "refused", "failed"} :
        /\ Told(c, what)
        /\ what = "landed" => Accepted(chosen[c])
        /\ what = "refused" => ~Accepted(chosen[c])
  BY DEF Send
<1>4. UNCHANGED <<job, at, began, held, chosen, shown>>
  BY DEF Send
<1>5. CommandsTyped'
  BY <1>0, <1>2, <1>3, <1>4 DEF CommandsTyped, Told
<1>6. pc'[c] = "done" /\ report'[c] = what
  BY <1>0, <1>3 DEF CommandsTyped, Told
<1>7. ASSUME what = "landed", job[c].verb \in {"create", "add"}
      PROVE  (ContributorsFor(job[c].admits) # {})'
  <2>1. claims' = claims \cup {Landed(chosen[c])}
    BY <1>0, <1>3, <1>7 DEF Send
  <2>2. Landed(chosen[c]).type = "contributor" /\ Landed(chosen[c]).key = job[c].admits
    BY <1>0, <1>7 DEF Landed, Claim
  <2>3. Landed(chosen[c]) \in (ContributorsFor(job[c].admits))'
    BY <1>4, <2>1, <2>2 DEF ContributorsFor, Contributor
  <2> QED
    BY <2>3
<1>8. ASSUME what = "refused"
      PROVE  \E r \in held'[c] : Signs(c, r)' /\ ~LiveAt(r, claims', chosen'[c].at)
  <2>1. ~Accepted(chosen[c]) /\ claims' = claims
    <3>1. ~Accepted(chosen[c])
      BY <1>3, <1>8
    <3> QED
      BY <3>1 DEF Send
  <2>2. job[c].verb # "create"
    BY <1>0, <2>1 DEF Accepted
  <2>3. PICK r \in held[c] : Signs(c, r)
    BY <1>0, <2>2
  <2>4. r \in Contributor
    BY <1>0, <2>3 DEF Signs, CommandsTyped, Contributor
  <2>5. ~Admits(WindowOf(r, claims), chosen[c].at)
    BY <2>1, <2>3, <2>4 DEF Accepted, Signs
  <2>6. /\ claims \in SUBSET Claim(Keys \cup {NoKey}) /\ r \in Claim(Keys \cup {NoKey})
        /\ chosen[c].at \in Nat
    <3>1. chosen[c].at \in Nat
      BY <1>0 DEF Claim
    <3> QED
      BY <1>0, <2>4, <3>1 DEF BranchTyped, Contributor
  <2>7. ~LiveAt(r, claims, chosen[c].at)
    BY <2>5, <2>6, WindowMeansLive
  <2> QED
    BY <1>4, <2>1, <2>3, <2>7 DEF Signs
<1>9. Reports(c)'
  BY <1>4, <1>6, <1>7, <1>8 DEF Reports
<1>10. Good(c)'
  BY <1>0, <1>4, <1>6, <1>9 DEF Good, Carries, Between, Refuses
<1> QED
  BY <1>2, <1>5, <1>10, OneCommand DEF Command

LEMMA UnsentStep ==
    ASSUME State, NEW c \in Commands, Unsent(c)
    PROVE  State'
<1>0. /\ CommandsTyped /\ Carries(c) /\ BranchTyped' /\ claims' = claims
      /\ job[c].verb # "add" => job[c].admits = job[c].key
      /\ job[c].key \in Keys /\ job[c].admits \in Keys
  BY DEF State, BranchTyped, Good, Carries, Unsent
<1>1. Told(c, "failed") /\ UNCHANGED <<job, at, began, held, chosen, shown>>
  BY DEF Unsent
<1>2. CommandsTyped'
  BY <1>0, <1>1 DEF CommandsTyped, Told
<1>3. pc'[c] = "done" /\ report'[c] = "failed"
  BY <1>0, <1>1 DEF CommandsTyped, Told
<1>4. Good(c)'
  BY <1>0, <1>1, <1>3 DEF Good, Carries, Between, Refuses, Reports
<1> QED
  BY <1>0, <1>2, <1>4, OneCommand DEF Command

-----------------------------------------------------------------------------
(* What others contribute, and time.                                       *)

\* A claim that may sign one is among those the branch has.
LEMMA SignerTyped ==
    ASSUME BranchTyped, \E r \in Contributor : Admits(WindowOf(r, claims), now)
    PROVE  Signer \in Nat
<1> DEFINE able == {r \in Contributor : Admits(WindowOf(r, claims), now)}
<1>1. able \in SUBSET Claim(Keys \cup {NoKey}) /\ able # {}
  BY DEF BranchTyped, Contributor
<1> HIDE DEF able
<1>2. Oldest(able) \in Claim(Keys \cup {NoKey})
  BY <1>1, OldestFacts
<1> QED
  BY <1>2 DEF Signer, able, Claim

LEMMA EnvironmentGrows ==
    ASSUME BranchTyped, Found \/ Register \/ Expire
    PROVE  \E x : Grows(x)
<1>k. ASSUME NEW key \in Keys \cup {NoKey}, NEW by \in Nat,
             NEW type \in {"contributor", "expiry", "write"}
      PROVE  /\ ClaimOf(type, key, by) \in Claim(Keys \cup {NoKey})
             /\ ClaimOf(type, key, by).id = Cardinality(claims) + 1
             /\ ClaimOf(type, key, by).type = type
  <2> DEFINE all == Keys \cup {NoKey}
  <2>1. key \in all
    OBVIOUS
  <2> HIDE DEF all
  <2>2. ClaimOf(type, key, by) \in Claim(all)
    BY <2>1, ClaimOfTyped
  <2>3. ClaimOf(type, key, by).id = Cardinality(claims) + 1 /\ ClaimOf(type, key, by).type = type
    BY DEF ClaimOf
  <2> QED
    BY <2>2, <2>3 DEF all
<1>i. \A r \in claims : r.id \in Nat
  BY DEF BranchTyped, Claim
<1>1. CASE Found
  <2>1. PICK key \in Keys : claims' = claims \cup {NewContributor(key)}
    BY <1>1 DEF Found, Contributed
  <2>2. Cardinality(claims) + 1 \in Nat
    BY FS_CardinalityType DEF BranchTyped
  <2> QED
    BY <1>k, <2>1, <2>2 DEF NewContributor, Grows
<1>2. CASE Register
  <2>1. PICK key \in Keys, span \in Spans, expiries \in Retirements :
          Contributed([ClaimOf("contributor", key, Signer)
                         EXCEPT !.from = span.from, !.until = span.until, !.expiries = expiries])
    BY <1>2 DEF Register
  <2> DEFINE c == ClaimOf("contributor", key, Signer)
             x == [c EXCEPT !.from = span.from, !.until = span.until, !.expiries = expiries]
  <2>2. Signer \in Nat
    BY <1>2, SignerTyped DEF Register
  <2>3. c \in Claim(Keys \cup {NoKey}) /\ c.id = Cardinality(claims) + 1 /\ c.type = "contributor"
    BY <1>k, <2>2
  <2>4. span.from \in Bounds /\ span.until \in Bounds
    BY SpansAssumption
  <2>5. expiries \in SUBSET [of : Nat, end : Bounds]
    BY <1>i, SpansAssumption DEF Contributor, Retirements
  <2>6. claims' = claims \cup {x}
    BY <2>1 DEF Contributed
  <2> HIDE DEF c
  <2>7. x \in Claim(Keys \cup {NoKey})
    BY <2>3, <2>4, <2>5 DEF Claim
  <2>8. x.id = c.id /\ x.type = c.type
    BY <2>3 DEF Claim
  <2> QED
    BY <2>3, <2>6, <2>7, <2>8 DEF Grows
<1>3. CASE Expire
  <2>1. PICK r \in Contributor, end \in Expirations :
          claims' = claims \cup {[ClaimOf("expiry", NoKey, Signer)
                                    EXCEPT !.expiries = {[of |-> r.id, end |-> end]}]}
    BY <1>3 DEF Expire, Contributed
  <2> DEFINE c == ClaimOf("expiry", NoKey, Signer)
             x == [c EXCEPT !.expiries = {[of |-> r.id, end |-> end]}]
  <2>2. Signer \in Nat
    BY <1>3, SignerTyped DEF Expire
  <2>3. c \in Claim(Keys \cup {NoKey}) /\ c.id = Cardinality(claims) + 1 /\ c.type = "expiry"
    BY <1>k, <2>2
  <2>4. {[of |-> r.id, end |-> end]} \in SUBSET [of : Nat, end : Bounds]
    BY <1>i, SpansAssumption DEF Contributor
  <2>5. claims' = claims \cup {x}
    BY <2>1
  <2> HIDE DEF c
  <2>6. x \in Claim(Keys \cup {NoKey}) /\ x.id = c.id /\ x.type = c.type
    BY <2>3, <2>4 DEF Claim
  <2> QED
    BY <2>3, <2>5, <2>6 DEF Grows
<1> QED
  BY <1>1, <1>2, <1>3

\* No command takes part.
LEMMA ElsewhereStep ==
    ASSUME State, BranchTyped', claims \subseteq claims', UNCHANGED working
    PROVE  State'
<1>1. UNCHANGED <<pc, job, at, began, held, chosen, shown, report>>
  BY DEF working
<1>2. CommandsTyped'
  BY <1>1 DEF State, CommandsTyped
<1>3. \A d \in Commands : Good(d)'
  BY <1>1, OthersStay DEF State
<1> QED
  BY <1>2, <1>3 DEF State

LEMMA EnvironmentStep ==
    ASSUME State, Found \/ Register \/ Expire \/ Tick \/ UNCHANGED vars
    PROVE  State' /\ claims \subseteq claims'
<1>1. UNCHANGED working
  BY DEF Found, Register, Expire, Contributed, Tick, vars, working
<1>2. BranchTyped' /\ claims \subseteq claims'
  <2>1. CASE Found \/ Register \/ Expire
    <3>1. now' = now
      BY <2>1 DEF Found, Register, Expire, Contributed
    <3>2. PICK x : Grows(x)
      BY <2>1, EnvironmentGrows DEF State
    <3> QED
      BY <3>1, <3>2, BranchGrows DEF State, Grows
  <2>2. CASE Tick \/ UNCHANGED vars
    <3>1. claims' = claims /\ now' \in Nat
      BY <2>2 DEF State, BranchTyped, Tick, vars
    <3> QED
      BY <3>1 DEF State, BranchTyped
  <2> QED
    BY <2>1, <2>2
<1> QED
  BY <1>1, <1>2, ElsewhereStep

-----------------------------------------------------------------------------
(* The theorems.                                                           *)

\* A branch loses nothing, and the state keeps its invariant.
LEMMA StateStep ==
    ASSUME State, [Next]_vars
    PROVE  State'
<1>1. ASSUME NEW c \in Commands, Command(c) PROVE State'
  BY <1>1, ReadingSteps, ListReportsStep, ForChoosesStep, WritesStep, SendStep, UnsentStep
  DEF Command
<1>2. ASSUME NEW c \in Commands, Start(c) PROVE State'
  BY <1>2, StartStep
<1> QED
  BY <1>1, <1>2, EnvironmentStep DEF Next

LEMMA ClaimsGrow ==
    ASSUME State, [Next]_vars
    PROVE  claims \subseteq claims'
<1>1. ASSUME NEW c \in Commands, Command(c) PROVE claims \subseteq claims'
  BY <1>1
  DEF Command, CreateReads, AddReads, AddAttributes, ListReads, ForReads, ListReports, ForChooses,
      Writes, Send, Unsent, Reads
<1>2. ASSUME NEW c \in Commands, Start(c) PROVE claims \subseteq claims'
  BY <1>2 DEF Start
<1> QED
  BY <1>1, <1>2, EnvironmentStep DEF Next

LEMMA InitState == Init => State
<1> SUFFICES ASSUME Init PROVE State
  OBVIOUS
<1>1. BranchTyped
  <2>1. IsFiniteSet({}) /\ Cardinality({}) = 0
    BY FS_EmptySet
  <2> QED
    BY <2>1 DEF Init, BranchTyped
<1>2. CommandsTyped
  BY DEF Init, CommandsTyped
<1>3. \A c \in Commands : Good(c)
  BY DEF Init, Good, Carries, Between, Refuses, Reports
<1> QED
  BY <1>1, <1>2, <1>3 DEF State

LEMMA Inductive == Spec => []IInv
<1>1. Init => IInv
  BY InitState, StateIs
<1>2. IInv /\ [Next]_vars => IInv'
  BY StateStep, StateIs, StateIsNext
<1> QED
  BY <1>1, <1>2, PTL DEF Spec

\* The claims of a branch and what each command holds of them are well typed, and no two
\* claims take one place (client/ and cmd/ranke-client/ over what the server lists).
THEOREM TypeCorrect == Spec => []TypeOK
<1>1. IInv => TypeOK
  BY DEF IInv
<1> QED
  BY Inductive, <1>1, PTL

\* A listing made of two reads errs on neither side, whatever lands between and after
\* them: `contributor list` shows no registration as valid that was not when it first
\* read, and none as invalid that still is when it reports.
THEOREM ListingsHold == Spec => []ListingIsBetween
<1>1. IInv => ListingIsBetween
  BY DEF IInv
<1> QED
  BY Inductive, <1>1, PTL

\* ContributorFor says no registration of a key is live only where none is
\* (client/contributor_window.go).
THEOREM RefusalsHold == Spec => []RefusalIsTrue
<1>1. IInv => RefusalIsTrue
  BY DEF IInv
<1> QED
  BY Inductive, <1>1, PTL

\* What `branch create`, `contributor add` and a signed write report is so, and stays so
\* whatever others contribute: a key reported admitted is registered, and a claim is
\* refused only because the registration it was signed under is no longer live at its date.
THEOREM ReportsHold == Spec => []ReportsAreTrue
<1>1. IInv => ReportsAreTrue
  BY DEF IInv
<1> QED
  BY Inductive, <1>1, PTL

\* However claims land and expire one another, no window of a key grows again
\* (ContributorWindowOf).
THEOREM WindowsShrink == Spec => WindowsOnlyShrink
<1> DEFINE Shrinks == \A r \in claims, t \in 1..MaxTime :
                         Admits(WindowOf(r, claims'), t) => Admits(WindowOf(r, claims), t)
<1>1. ASSUME IInv, [Next]_vars PROVE Shrinks
  <2>1. /\ claims \subseteq claims' /\ claims \in SUBSET Claim(Keys \cup {NoKey})
        /\ claims' \in SUBSET Claim(Keys \cup {NoKey})
    BY <1>1, StateIs, StateStep, ClaimsGrow DEF State, BranchTyped
  <2>2. ASSUME NEW r \in claims, NEW t \in 1..MaxTime, Admits(WindowOf(r, claims'), t)
        PROVE  Admits(WindowOf(r, claims), t)
    <3>1. t \in Nat /\ r \in Claim(Keys \cup {NoKey})
      BY <2>1, SpansAssumption
    <3>2. LiveAt(r, claims', t)
      BY <2>1, <2>2, <3>1, WindowMeansLive
    <3>3. LiveAt(r, claims, t)
      BY <2>1, <3>2, MoreCarriers
    <3> QED
      BY <2>1, <3>1, <3>3, WindowMeansLive
  <2> QED
    BY <2>2
<1> HIDE DEF Shrinks
<1> QED
  BY <1>1, Inductive, PTL DEF Spec, WindowsOnlyShrink, Shrinks

-----------------------------------------------------------------------------
(* The commands run down.                                                  *)

\* How far along a command is; a command that has told its caller is at its end.
Place == [idle |-> 0, started |-> 1, attributing |-> 2, expiries |-> 2, given |-> 3,
          sending |-> 4, done |-> 5]

\* No command goes back or sends again: a step that touches one puts it further along,
\* so one that has told its caller is not touched; what a command lands it lands in its
\* last step, one claim at most; and where no command is touched the branch or the clock
\* is (cmd/ranke-client, client/contributor.go).
CommandsRunDown ==
    [][/\ \A c \in Commands :
             \/ UNCHANGED <<pc[c], job[c], at[c], began[c], held[c], chosen[c], shown[c], report[c]>>
             \/ Place[pc[c]] < Place[pc'[c]]
       /\ claims \subseteq claims'
       /\ claims' # claims /\ pc' # pc =>
             /\ \E c \in Commands : pc[c] = "sending" /\ pc' = [pc EXCEPT ![c] = "done"]
             /\ \E x : claims' = claims \cup {x}
       /\ pc' = pc => now < now' \/ claims # claims']_vars

LEMMA CommandSteps ==
    ASSUME CommandsTyped, NEW c \in Commands, Start(c) \/ Command(c)
    PROVE  /\ Place[pc[c]] < Place[pc'[c]]
           /\ claims' # claims => /\ pc[c] = "sending" /\ pc' = [pc EXCEPT ![c] = "done"]
                                 /\ \E x : claims' = claims \cup {x}
<1>p. pc \in [Commands -> {"idle", "started", "attributing", "expiries", "given", "sending", "done"}]
  BY DEF CommandsTyped
<1>1. CASE Start(c)
  <2>1. pc[c] = "idle" /\ pc'[c] = "started" /\ claims' = claims
    BY <1>p, <1>1 DEF Start
  <2> QED
    BY <2>1 DEF Place
<1>2. CASE CreateReads(c) \/ AddReads(c) \/ ListReads(c) \/ ForReads(c)
  <2>1. pc[c] = "started" /\ claims' = claims
    BY <1>2 DEF CreateReads, AddReads, ListReads, ForReads, Reads
  <2>2. pc'[c] \in {"attributing", "expiries", "sending", "done"}
    BY <1>p, <1>2 DEF CreateReads, AddReads, ListReads, ForReads, Told, Goes
  <2> QED
    BY <2>1, <2>2 DEF Place
<1>3. CASE AddAttributes(c)
  <2>1. pc[c] = "attributing" /\ pc'[c] \in {"sending", "done"} /\ claims' = claims
    BY <1>p, <1>3 DEF AddAttributes, Told, Goes
  <2> QED
    BY <2>1 DEF Place
<1>4. CASE ListReports(c) \/ ForChooses(c)
  <2>1. pc[c] = "expiries" /\ pc'[c] \in {"given", "done"} /\ claims' = claims
    BY <1>p, <1>4 DEF ListReports, ForChooses, Told, Goes
  <2> QED
    BY <2>1 DEF Place
<1>5. CASE Writes(c)
  <2>1. pc[c] = "given" /\ pc'[c] = "sending" /\ claims' = claims
    BY <1>p, <1>5 DEF Writes, Goes
  <2> QED
    BY <2>1 DEF Place
<1>6. CASE Send(c)
  <2>1. pc[c] = "sending" /\ pc' = [pc EXCEPT ![c] = "done"]
    BY <1>6 DEF Send, Told
  <2>2. pc'[c] = "done"
    BY <1>p, <2>1
  <2>3. claims' # claims => \E x : claims' = claims \cup {x}
    BY <1>6 DEF Send
  <2>4. Place["sending"] < Place["done"]
    BY DEF Place
  <2> QED
    BY <2>1, <2>2, <2>3, <2>4, Zenon
<1>7. CASE Unsent(c)
  <2>1. /\ pc[c] \in {"started", "attributing", "expiries", "sending"}
        /\ pc'[c] = "done" /\ claims' = claims
    BY <1>p, <1>7 DEF Unsent, Told
  <2> QED
    BY <2>1 DEF Place
<1> QED
  BY <1>1, <1>2, <1>3, <1>4, <1>5, <1>6, <1>7 DEF Command

\* However many commands run at once and whatever others contribute, a command comes to
\* its end, and it has sent the branch one claim at most (cmd/ranke-client).
THEOREM CommandsEnd == Spec => CommandsRunDown
<1> DEFINE Touched(c) ==
             \/ UNCHANGED <<pc[c], job[c], at[c], began[c], held[c], chosen[c], shown[c], report[c]>>
             \/ Place[pc[c]] < Place[pc'[c]]
           Moves ==
             /\ \A c \in Commands : Touched(c)
             /\ claims \subseteq claims'
             /\ claims' # claims /\ pc' # pc =>
                   /\ \E c \in Commands : pc[c] = "sending" /\ pc' = [pc EXCEPT ![c] = "done"]
                   /\ \E x : claims' = claims \cup {x}
             /\ pc' = pc => now < now' \/ claims # claims'
<1>1. ASSUME IInv, NEW c \in Commands, Start(c) \/ Command(c), claims \subseteq claims'
      PROVE  Moves
  <2>1. CommandsTyped
    BY <1>1, StateIs DEF State
  <2>2. \A d \in Commands : Touched(d)
    BY <1>1, <2>1, OthersSame, CommandSteps DEF Same
  <2>3. pc' # pc
    <3>0. pc[c] \in {"idle", "started", "attributing", "expiries", "given", "sending", "done"}
      BY <2>1 DEF CommandsTyped
    <3>1. Place[pc[c]] \in 0 .. 5
      BY <3>0 DEF Place
    <3>2. Place[pc[c]] < Place[pc'[c]]
      BY <1>1, <2>1, CommandSteps
    <3> QED
      BY <3>1, <3>2
  <2>4. claims' # claims =>
          /\ \E d \in Commands : pc[d] = "sending" /\ pc' = [pc EXCEPT ![d] = "done"]
          /\ \E x : claims' = claims \cup {x}
    BY <1>1, <2>1, CommandSteps
  <2> HIDE DEF Touched
  <2> QED
    BY <1>1, <2>2, <2>3, <2>4
<1>2. ASSUME IInv, Found \/ Register \/ Expire \/ Tick, ~ UNCHANGED vars, claims \subseteq claims'
      PROVE  Moves
  <2>1. UNCHANGED <<pc, job, at, began, held, chosen, shown, report>>
    BY <1>2 DEF Found, Register, Expire, Contributed, Tick, working
  <2>2. now < now' \/ claims # claims'
    <3>1. CASE Tick
      <4>1. now \in Nat
        BY <1>2, Zenon DEF IInv, TypeOK
      <4> QED
        BY <3>1, <4>1 DEF Tick
    <3>2. CASE Found \/ Register \/ Expire
      <4>1. now' = now
        BY <3>2 DEF Found, Register, Expire, Contributed
      <4> QED
        BY <1>2, <2>1, <4>1 DEF vars
    <3> QED
      BY <1>2, <3>1, <3>2
  <2> QED
    BY <1>2, <2>1, <2>2
<1>3. IInv /\ [Next]_vars => [Moves]_vars
  <2> SUFFICES ASSUME IInv, Next, ~ UNCHANGED vars PROVE Moves
    OBVIOUS
  <2>1. claims \subseteq claims'
    BY StateIs, ClaimsGrow
  <2> HIDE DEF Moves
  <2> QED
    BY <1>1, <1>2, <2>1 DEF Next
<1> QED
  BY <1>3, Inductive, PTL DEF Spec, CommandsRunDown
=============================================================================
