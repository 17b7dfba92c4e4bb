---------------------------- MODULE AccessPolicy ----------------------------
(***************************************************************************)
(* The policy at work: accounts parsed from the configuration when the     *)
(* server starts (access.New), tokens that their holders attenuate offline *)
(* by adding caveats, and the macaroon backend that turns each caveat into *)
(* a grant every request must satisfy.                                     *)
(***************************************************************************)
EXTENDS Access, Naturals

(* A written spec: how many fields it has and, when they are two, its      *)
(* letters as Unicode code points, and its glob.                           *)
WrittenSpec == [fields : Nat, letters : (SUBSET Nat) \ {{}}, glob : Globs \cup Malformed]

Letters == [C |-> 67, R |-> 82, U |-> 85, D |-> 68]
CRUD == {Letters[right] : right \in Rights}

(* bit(Right(ch)): a Right is one byte, so the conversion keeps the low    *)
(* eight bits of the code point.                                           *)
RightsOf(spec) ==
    {right \in Rights : \E ch \in spec.letters : ch % 256 = Letters[right]}

Parsed(spec) == [rights |-> RightsOf(spec), glob |-> spec.glob]

(* ParseGrant: two fields, every letter has a bit, and the glob is one and *)
(* takes the rights.                                                       *)
ParseGrant(spec) ==
    /\ spec.fields = 2
    /\ \A ch \in spec.letters : ch % 256 \in CRUD
    /\ ParseGrantAccepts(Parsed(spec))

(* access.New fails on the first malformed grant, and the launch with it.  *)
New(written) == \A spec \in written : ParseGrant(spec)

(* Auth.Authenticate: one condition that does not parse refuses the token. *)
Authenticates(caveats) == \A spec \in caveats : ParseGrant(spec)

TokenPrincipal(written, caveats) ==
    [grants |-> {Parsed(spec) : spec \in written},
     caveats |-> {Parsed(spec) : spec \in caveats}]

(* What a request bearing the token may do under the account.              *)
Honoured(written, caveats) ==
    IF New(written) /\ Authenticates(caveats)
    THEN {p \in Rights \X Scopes : Allow(TokenPrincipal(written, caveats), p[1], p[2])}
    ELSE {}

=============================================================================
