------------------------ MODULE AccessPolicy_proofs ------------------------
(***************************************************************************)
(* The policy for any set of branch names and any specs: what a reserved   *)
(* name confers, and that a token only ever narrows.                       *)
(***************************************************************************)
EXTENDS AccessPolicy, TLAPS

LEMMA ParsedIsGrant ==
    ASSUME NEW spec \in WrittenSpec, ParseGrant(spec)
    PROVE  Parsed(spec) \in Grant
<1>1. RightsOf(spec) # {}
  <2>1. PICK ch \in spec.letters : TRUE
    BY DEF WrittenSpec
  <2>2. ch % 256 \in CRUD
    BY <2>1 DEF ParseGrant
  <2> QED  BY <2>1, <2>2 DEF CRUD, RightsOf
<1>2. Parsed(spec) \in GrantSpec
  BY <1>1 DEF Parsed, GrantSpec, RightsOf, WrittenSpec
<1> QED  BY <1>2 DEF Grant, ParseGrant

(* The principal of a token is one core may be asked about: what access.New *)
(* and the macaroon backend parsed are grants ParseGrant accepts.           *)
THEOREM PrincipalsAreTyped ==
    ASSUME NEW written \in SUBSET WrittenSpec, NEW caveats \in SUBSET WrittenSpec,
           New(written), Authenticates(caveats)
    PROVE  TokenPrincipal(written, caveats) \in Principal
<1>1. \A spec \in written \cup caveats : Parsed(spec) \in Grant
  BY ParsedIsGrant DEF New, Authenticates
<1> QED  BY <1>1 DEF TokenPrincipal, Principal

(* A grant reaches a reserved scope by naming it, and $universe only with R. *)
LEMMA ReservedByName ==
    ASSUME NEW g \in Grant, NEW right \in Rights, NEW scope \in Reserved,
           Allows(g, right, scope)
    PROVE  g.glob.text = scope /\ (scope = Universe => right = Read)
<1>1. g.glob.text = scope
  BY DEF Allows, MatchBranch
<1>2. scope = Universe => g.rights = {Read}
  BY <1>1 DEF Grant, ParseGrantAccepts, Dollar
<1> QED  BY <1>1, <1>2 DEF Allows

(* What a reserved scope confers is conferred by its name alone, written with *)
(* that right in one of the account's specs and in every caveat, and on       *)
(* $universe only R is (access.go:96, :130).                                  *)
Writes(spec, right, scope) == spec.glob.text = scope /\ right \in RightsOf(spec)

THEOREM SpecsByName ==
    ASSUME NEW written \in SUBSET WrittenSpec, NEW caveats \in SUBSET WrittenSpec,
           NEW right \in Rights, NEW scope \in Reserved,
           <<right, scope>> \in Honoured(written, caveats)
    PROVE  /\ \E spec \in written : Writes(spec, right, scope)
           /\ \A spec \in caveats : Writes(spec, right, scope)
           /\ scope = Universe => right = Read
<1>1. /\ New(written) /\ Authenticates(caveats)
      /\ Allow(TokenPrincipal(written, caveats), right, scope)
  BY DEF Honoured
<1>2. \A spec \in written \cup caveats : Parsed(spec) \in Grant
  BY <1>1, ParsedIsGrant DEF New, Authenticates
<1>3. \A spec \in written \cup caveats :
        Allows(Parsed(spec), right, scope) =>
          Writes(spec, right, scope) /\ (scope = Universe => right = Read)
  BY <1>2, ReservedByName DEF Writes, Parsed, Allows
<1>4. PICK spec \in written : Allows(Parsed(spec), right, scope)
  BY <1>1 DEF Allow, AnyAllows, TokenPrincipal
<1>5. \A caveat \in caveats : Allows(Parsed(caveat), right, scope)
  BY <1>1 DEF Allow, AllAllows, TokenPrincipal
<1> QED  BY <1>3, <1>4, <1>5

-----------------------------------------------------------------------------
LEMMA MoreCaveats ==
    ASSUME NEW gs, NEW few, NEW many, few \subseteq many, NEW right, NEW scope,
           Allow([grants |-> gs, caveats |-> many], right, scope)
    PROVE  Allow([grants |-> gs, caveats |-> few], right, scope)
BY DEF Allow, AllAllows

(* Whatever caveats are added to a token and in whatever order, it never    *)
(* comes to allow what it did not.                                          *)
THEOREM SpecsNarrow ==
    ASSUME NEW written, NEW few, NEW many, few \subseteq many, NEW p \in Honoured(written, many)
    PROVE  p \in Honoured(written, few)
<1>1. /\ New(written) /\ Authenticates(many) /\ p \in Rights \X Scopes
      /\ Allow(TokenPrincipal(written, many), p[1], p[2])
  BY DEF Honoured
<1>2. Authenticates(few)
  BY <1>1 DEF Authenticates
<1>3. {Parsed(spec) : spec \in few} \subseteq {Parsed(spec) : spec \in many}
  OBVIOUS
<1>4. Allow(TokenPrincipal(written, few), p[1], p[2])
  BY <1>1, <1>3, MoreCaveats DEF TokenPrincipal
<1> QED  BY <1>1, <1>2, <1>4 DEF Honoured
=============================================================================
