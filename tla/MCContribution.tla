--------------------------- MODULE MCContribution ---------------------------
EXTENDS Contribution, AccessPolicy

CONSTANTS main, notes, self, letter, summary, roster, r1, r2

MCBranchNames == {main, notes}
MCClaims == {self, letter, summary, roster}

(* Every claim is signed under self; the summary cites the letter. *)
MCClosure == [c \in MCClaims |->
    CASE c = self -> {} [] c = summary -> {self, letter} [] OTHER -> {self}]

Adding(b, cs) == [n \in MCBranchNames |-> IF n = b THEN cs ELSE {}]

Sends(b, cs) ==
    [branches |-> {b}, creatable |-> MCBranchNames,
     referencable |-> MCBranchNames \cup {Universe},
     adds |-> Adding(b, cs), decodes |-> TRUE, sound |-> TRUE]

MCBodies ==
    { Sends(notes, {self, letter}),                     \* begins a branch
      Sends(main, {summary}),                           \* cites across branches
      Sends(main, {letter, roster}),                     \* carries a branch table
      [Sends(main, {letter}) EXCEPT !.sound = FALSE],
      [Sends(main, {letter}) EXCEPT !.adds = Adding(notes, {letter})],
      [Sends(main, {}) EXCEPT !.branches = MCBranchNames,
                              !.adds = [b \in MCBranchNames |-> {self, letter}]],
      [Sends(notes, {letter}) EXCEPT !.creatable = {}, !.referencable = {main}],
      [Sends(main, {letter}) EXCEPT !.branches = {}],
      [Sends(main, {}) EXCEPT !.decodes = FALSE] }

Literal(s) == [text |-> s, matches |-> {s}]
Pattern(ss) == [text |-> Wildcard, matches |-> ss]
Star == Pattern(Scopes)
Writes(letters, glob) == [fields |-> 2, letters |-> letters, glob |-> glob]

CR == {67, 82}
C == {67}
R == {82}

Owner == {Writes(CR, Star), Writes(C, Literal(Branches))}

(* Accounts and the caveats of their tokens: who may do all; who reads all   *)
(* and enters no branch; and one of the first kind's, attenuated to what two *)
(* caveats both name. The others a launch or a request would be refused for: *)
(* a letter that is none, one whose low byte is that of "C" on $universe, a  *)
(* reserved name that is none, a malformed glob, three fields.               *)
MCTokens ==
    { <<Owner, {}>>,
      <<{Writes({323}, Star), Writes(R, Literal(Universe))}, {}>>,
      <<Owner, {Writes(CR, Pattern({main, notes})), Writes(CR, Literal(main))}>>,
      <<{Writes({65}, Literal(main))}, {}>>,
      <<{Writes({323}, Literal(Universe))}, {}>>,
      <<Owner, {Writes(R, [text |-> UnknownReserved, matches |-> {}])}>>,
      <<Owner, {Writes(R, [text |-> "_private", matches |-> {main}])}>>,
      <<Owner, {[Writes(R, Star) EXCEPT !.fields = 3]}>> }

MCPrincipals ==
    {TokenPrincipal(t[1], t[2]) : t \in {u \in MCTokens : New(u[1]) /\ Authenticates(u[2])}}
=============================================================================
