-------------------------- MODULE ContributorWindow --------------------------
(***************************************************************************)
(* The validity of a contributor's key (client/contributor_window.go): the *)
(* closed span between the bounds its claim states, the end shortened by   *)
(* any expiry edge that names the claim.                                   *)
(*                                                                         *)
(* A claim is its id, its type, the key it carries, the instant it is      *)
(* dated at, the claim it is signed under, its two bounds and its expiry   *)
(* edges, [of, end] each.  A bound is an instant or NoBound.               *)
(***************************************************************************)
EXTENDS Naturals

CONSTANT NoBound

ASSUME BoundAssumption == NoBound \notin Nat

Bounds == Nat \cup {NoBound}
Window == [from : Bounds, until : Bounds, revoked : BOOLEAN]

Claim(Keys) == [id : Nat, type : {"contributor", "expiry", "write"}, key : Keys, at : Nat,
                by : Nat, from : Bounds, until : Bounds, expiries : SUBSET [of : Nat, end : Bounds]]

Admits(w, at) ==
    /\ w.from # NoBound => at >= w.from
    /\ w.until # NoBound => at <= w.until

\* The dates the carriers' expiry edges put on the claim at id; an undated edge puts none.
Ends(id, carriers) ==
    {e.end : e \in {x \in UNION {c.expiries : c \in carriers} : x.of = id}} \ {NoBound}

Revocation(id, carriers) ==
    IF Ends(id, carriers) = {} THEN NoBound
    ELSE CHOOSE end \in Ends(id, carriers) : \A other \in Ends(id, carriers) : end <= other

\* Mutant: an expiry replaces the claim's own end.
ExpiryReplaces(self, carriers) ==
    LET end == Revocation(self.id, carriers)
    IN [from |-> self.from, until |-> IF end = NoBound THEN self.until ELSE end,
        revoked |-> end # NoBound]

\* An expiry that is not sooner than the claim's own end changes nothing.
WindowOf(self, carriers) ==
    LET end == Revocation(self.id, carriers)
        shortens == end # NoBound /\ (self.until # NoBound => end < self.until)
    IN [from |-> self.from, until |-> IF shortens THEN end ELSE self.until, revoked |-> shortens]

\* Mutant: a contributor claim is not searched for expiry edges.
ExpiryClaimsCarry(held, expiries) == [c \in held |-> WindowOf(c, expiries)]

\* The carriers are the expiry claims and the contributor claims given: WindowsOf is the
\* window of each claim of held.
WindowsOf(held, expiries) == [c \in held |-> WindowOf(c, expiries \cup held)]

-----------------------------------------------------------------------------
\* What a window means, without computing one (R-DEXPIRY): nothing the claim
\* states and nothing the carriers say of it excludes the instant.
LiveAt(self, carriers, at) ==
    /\ self.from # NoBound => self.from <= at
    /\ self.until # NoBound => at <= self.until
    /\ \A c \in carriers : \A e \in c.expiries :
         e.of = self.id /\ e.end # NoBound => at <= e.end
=============================================================================
