------------------------------ MODULE Sections ------------------------------
(***************************************************************************)
(* A section of the launch artifact, as an adapter is handed one           *)
(* (config/section.go, config/scope): the leaves it has and the sections   *)
(* nested in it, an object's or an array's.  A leaf stands for what        *)
(* resolving it gives: its literal, the value env() or vault() expands to, *)
(* or "unresolved" where the variable is unset or the vault cannot answer. *)
(***************************************************************************)
EXTENDS Naturals, Sequences, FiniteSets

CONSTANT Tree       \* the sections a launch can meet, closed under parts

\* Sections are finite trees: what is nested in one is one.
ASSUME SectionAssumption ==
    \A d \in Tree : \A i \in DOMAIN d.parts : d.parts[i] \in Tree

Empty == [keys |-> << >>, parts |-> << >>]

HasValue(d, key) == key \in DOMAIN d.keys

\* Get succeeds: the key is there and resolves.
Get(d, key) == HasValue(d, key) /\ d.keys[key] # "unresolved"

\* An optional key, judged only where it is there.
GetIfThere(d, key) == HasValue(d, key) => Get(d, key)

\* A leaf that is absent takes a default.
Value(d, key, default) == IF HasValue(d, key) THEN d.keys[key] ELSE default

\* The one object nested in a section, empty where there is none.
GetSection(d) == IF d.parts = << >> THEN Empty ELSE Head(d.parts)

\* Every leaf under a section resolves.
resolveSection[d \in Tree] ==
    /\ \A key \in DOMAIN d.keys : Get(d, key)
    /\ \A i \in DOMAIN d.parts : resolveSection[d.parts[i]]
=============================================================================
