----------------------------- MODULE RemoteCall -----------------------------
(***************************************************************************)
(* What the Go client promises whoever calls it, whichever routes,         *)
(* handlers, proxies and lost answers lie between: a call is run at most   *)
(* once, as what its function means, and its caller hears what came of     *)
(* that run and of no other, or nothing of the server at all: then the run *)
(* may still come.                                                         *)
(* Only WaitReady asks again, and what it asks changes nothing.            *)
(***************************************************************************)
EXTENDS Naturals

CONSTANTS
  Clients,
  NoRequest,  \* what nobody asks
  Meanings,   \* what a call may mean: [what, patient, streamed]
  Endings,    \* "done", and the categories core refuses with
  Sentinels   \* the categories a client can match an error against

VARIABLES
  asked,      \* client -> the request its call means, or NoCall
  ran,        \* client -> what was run for it, how it ended and what it yielded
  heard       \* client -> what its call returned

cvars == <<asked, ran, heard>>

NoCall == [what |-> NoRequest, patient |-> FALSE, streamed |-> FALSE]
NotRun == [what |-> NoRequest, ending |-> "none", yield |-> 0]
Unheard == [as |-> "nothing", got |-> 0]
Elsewhere == [as |-> "elsewhere", got |-> 0]

Init ==
  /\ asked = [c \in Clients |-> NoCall]
  /\ ran = [c \in Clients |-> NotRun]
  /\ heard = [c \in Clients |-> Unheard]

Pending(c) == asked[c] # NoCall /\ heard[c] = Unheard

Ask(c) ==
  /\ asked[c] = NoCall
  /\ \E m \in Meanings : asked' = [asked EXCEPT ![c] = m]
  /\ UNCHANGED <<ran, heard>>

\* Once, and as nothing but what was asked; perhaps when its caller no longer waits,
\* having heard nothing of the server.
Run(c) ==
  /\ asked[c] # NoCall /\ ran[c] = NotRun /\ heard[c] \in {Unheard, Elsewhere}
  /\ ran'[c].yield \in Nat
  /\ \E ending \in Endings :
        ran' = [ran EXCEPT ![c] =
                  [what |-> asked[c].what, ending |-> ending, yield |-> ran'[c].yield]]
  /\ UNCHANGED <<asked, heard>>

Returns(c, as, got) ==
  /\ heard' = [heard EXCEPT ![c] = [as |-> as, got |-> got]]
  /\ UNCHANGED <<asked, ran>>

\* The value the run yielded, or as much of it as a stream carried; or the sentinel of
\* the category the run ended with, if it has one.
Hear(c) ==
  /\ Pending(c) /\ ran[c] # NotRun
  /\ IF ran[c].ending = "done"
     THEN \E got \in 0 .. ran[c].yield :
            /\ asked[c].streamed \/ got = ran[c].yield
            /\ Returns(c, "value", got)
     ELSE Returns(c, IF ran[c].ending \in Sentinels THEN ran[c].ending ELSE "none", 0)

\* The answer, or the request, was lost on the way, or somebody else answered.
Miss(c) ==
  /\ Pending(c)
  /\ Returns(c, "elsewhere", 0)

Again(c) ==
  /\ Pending(c) /\ asked[c].patient
  /\ ran' = [ran EXCEPT ![c] = NotRun]
  /\ UNCHANGED <<asked, heard>>

Forget(c) ==
  /\ heard[c] # Unheard
  /\ asked' = [asked EXCEPT ![c] = NoCall]
  /\ ran' = [ran EXCEPT ![c] = NotRun]
  /\ heard' = [heard EXCEPT ![c] = Unheard]

Next == \E c \in Clients : Ask(c) \/ Run(c) \/ Hear(c) \/ Miss(c) \/ Again(c) \/ Forget(c)

Spec == Init /\ [][Next]_cvars

=============================================================================
