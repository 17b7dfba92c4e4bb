---------------------------- MODULE Exchange_proofs ----------------------------
(***************************************************************************)
(* What is asked is what is run, and what is told is what was decided: the *)
(* safety of Exchange, for any callers, branches, claims and grants.       *)
(***************************************************************************)
EXTENDS Exchange, TLAPS

-----------------------------------------------------------------------------
(* Routing.  The operations by the length of their paths: two routes of    *)
(* one length differ in their method or in a segment both spell out.       *)

OneLong == {"Health", "Query", "Contribute", "ListBranches"}
TwoLong == {"GetArchiveInfo", "AdvanceDevClock", "Whoami", "ListStorageLayers",
    "ListVerifications", "StartVerification"}
ThreeLong == {"GetBranchHead", "GetBranchInfo", "GetArchiveClaim", "GetClaim",
    "DeleteVerification", "GetVerification"}
FourLong == {"GetBranchClaim", "GetArchiveClaimContent", "GetClaimContent",
    "CancelVerification"}
FiveLong == {"GetBranchClaimContent"}

LEMMA OperationsAre ==
    Operations = OneLong \cup TwoLong \cup ThreeLong \cup FourLong \cup FiveLong
  BY DEF Operations, Routes, OneLong, TwoLong, ThreeLong, FourLong, FiveLong

LEMMA OneLongRoutes ==
    /\ Routes["Health"] = Get(<<"health">>)
    /\ Routes["Query"] = Post(<<"query">>)
    /\ Routes["Contribute"] = Post(<<"contribute">>)
    /\ Routes["ListBranches"] = Get(<<"branches">>)
  BY DEF Routes

LEMMA OneLongRequests ==
  ASSUME NEW s, NEW i
  PROVE  /\ Requests(s, i)["Health"] = Get(<<"health">>)
         /\ Requests(s, i)["Query"] = Post(<<"query">>)
         /\ Requests(s, i)["Contribute"] = Post(<<"contribute">>)
         /\ Requests(s, i)["ListBranches"] = Get(<<"branches">>)
  BY DEF Requests, ++, ArchiveRequests, BranchRequests, BodyRequests, SystemRequests,
         RunRequests, UniverseRequests

LEMMA OneLongRouted ==
  ASSUME NEW s, NEW i, NEW sent \in OneLong
  PROVE  /\ Len(Requests(s, i)[sent].path) = 1
         /\ \A op \in OneLong : /\ Len(Routes[op].path) = 1
                                /\ Matches(Routes[op], Requests(s, i)[sent]) <=> op = sent
<1>1. \A op \in OneLong : Len(Routes[op].path) = 1
  BY OneLongRoutes DEF OneLong, Get, Post, Delete
<1>2. CASE sent = "Health"
  <2> DEFINE r == Get(<<"health">>)
  <2>1. \A op \in OneLong : Matches(Routes[op], r) <=> op = "Health"
    BY OneLongRoutes DEF Matches, Wildcards, OneLong, Get, Post, Delete
  <2>2. Len(r.path) = 1
    BY DEF Get, Post, Delete
  <2>3. Requests(s, i)[sent] = r
    BY <1>2, OneLongRequests
  <2> HIDE DEF r
  <2> QED  BY <1>1, <1>2, <2>1, <2>2, <2>3
<1>3. CASE sent = "Query"
  <2> DEFINE r == Post(<<"query">>)
  <2>1. \A op \in OneLong : Matches(Routes[op], r) <=> op = "Query"
    BY OneLongRoutes DEF Matches, Wildcards, OneLong, Get, Post, Delete
  <2>2. Len(r.path) = 1
    BY DEF Get, Post, Delete
  <2>3. Requests(s, i)[sent] = r
    BY <1>3, OneLongRequests
  <2> HIDE DEF r
  <2> QED  BY <1>1, <1>3, <2>1, <2>2, <2>3
<1>4. CASE sent = "Contribute"
  <2> DEFINE r == Post(<<"contribute">>)
  <2>1. \A op \in OneLong : Matches(Routes[op], r) <=> op = "Contribute"
    BY OneLongRoutes DEF Matches, Wildcards, OneLong, Get, Post, Delete
  <2>2. Len(r.path) = 1
    BY DEF Get, Post, Delete
  <2>3. Requests(s, i)[sent] = r
    BY <1>4, OneLongRequests
  <2> HIDE DEF r
  <2> QED  BY <1>1, <1>4, <2>1, <2>2, <2>3
<1>5. CASE sent = "ListBranches"
  <2> DEFINE r == Get(<<"branches">>)
  <2>1. \A op \in OneLong : Matches(Routes[op], r) <=> op = "ListBranches"
    BY OneLongRoutes DEF Matches, Wildcards, OneLong, Get, Post, Delete
  <2>2. Len(r.path) = 1
    BY DEF Get, Post, Delete
  <2>3. Requests(s, i)[sent] = r
    BY <1>5, OneLongRequests
  <2> HIDE DEF r
  <2> QED  BY <1>1, <1>5, <2>1, <2>2, <2>3
<1> QED  BY <1>2, <1>3, <1>4, <1>5 DEF OneLong

LEMMA TwoLongRoutes ==
    /\ Routes["GetArchiveInfo"] = Get(<<"archive", "info">>)
    /\ Routes["AdvanceDevClock"] = Post(<<"dev", "clock">>)
    /\ Routes["Whoami"] = Get(<<"system", "whoami">>)
    /\ Routes["ListStorageLayers"] = Get(<<"system", "layers">>)
    /\ Routes["ListVerifications"] = Get(<<"system", "verifications">>)
    /\ Routes["StartVerification"] = Post(<<"system", "verifications">>)
  BY DEF Routes

LEMMA TwoLongRequests ==
  ASSUME NEW s, NEW i
  PROVE  /\ Requests(s, i)["GetArchiveInfo"] = Get(<<"archive", "info">>)
         /\ Requests(s, i)["AdvanceDevClock"] = Post(<<"dev", "clock">>)
         /\ Requests(s, i)["Whoami"] = Get(<<"system", "whoami">>)
         /\ Requests(s, i)["ListStorageLayers"] = Get(<<"system", "layers">>)
         /\ Requests(s, i)["ListVerifications"] = Get(<<"system", "verifications">>)
         /\ Requests(s, i)["StartVerification"] = Post(<<"system", "verifications">>)
  BY DEF Requests, ++, ArchiveRequests, BranchRequests, BodyRequests, SystemRequests,
         RunRequests, UniverseRequests

LEMMA TwoLongRouted ==
  ASSUME NEW s, NEW i, NEW sent \in TwoLong
  PROVE  /\ Len(Requests(s, i)[sent].path) = 2
         /\ \A op \in TwoLong : /\ Len(Routes[op].path) = 2
                                /\ Matches(Routes[op], Requests(s, i)[sent]) <=> op = sent
<1>1. \A op \in TwoLong : Len(Routes[op].path) = 2
  BY TwoLongRoutes DEF TwoLong, Get, Post, Delete
<1>2. CASE sent = "GetArchiveInfo"
  <2> DEFINE r == Get(<<"archive", "info">>)
  <2>1. \A op \in TwoLong : Matches(Routes[op], r) <=> op = "GetArchiveInfo"
    BY TwoLongRoutes DEF Matches, Wildcards, TwoLong, Get, Post, Delete
  <2>2. Len(r.path) = 2
    BY DEF Get, Post, Delete
  <2>3. Requests(s, i)[sent] = r
    BY <1>2, TwoLongRequests
  <2> HIDE DEF r
  <2> QED  BY <1>1, <1>2, <2>1, <2>2, <2>3
<1>3. CASE sent = "AdvanceDevClock"
  <2> DEFINE r == Post(<<"dev", "clock">>)
  <2>1. \A op \in TwoLong : Matches(Routes[op], r) <=> op = "AdvanceDevClock"
    BY TwoLongRoutes DEF Matches, Wildcards, TwoLong, Get, Post, Delete
  <2>2. Len(r.path) = 2
    BY DEF Get, Post, Delete
  <2>3. Requests(s, i)[sent] = r
    BY <1>3, TwoLongRequests
  <2> HIDE DEF r
  <2> QED  BY <1>1, <1>3, <2>1, <2>2, <2>3
<1>4. CASE sent = "Whoami"
  <2> DEFINE r == Get(<<"system", "whoami">>)
  <2>1. \A op \in TwoLong : Matches(Routes[op], r) <=> op = "Whoami"
    BY TwoLongRoutes DEF Matches, Wildcards, TwoLong, Get, Post, Delete
  <2>2. Len(r.path) = 2
    BY DEF Get, Post, Delete
  <2>3. Requests(s, i)[sent] = r
    BY <1>4, TwoLongRequests
  <2> HIDE DEF r
  <2> QED  BY <1>1, <1>4, <2>1, <2>2, <2>3
<1>5. CASE sent = "ListStorageLayers"
  <2> DEFINE r == Get(<<"system", "layers">>)
  <2>1. \A op \in TwoLong : Matches(Routes[op], r) <=> op = "ListStorageLayers"
    BY TwoLongRoutes DEF Matches, Wildcards, TwoLong, Get, Post, Delete
  <2>2. Len(r.path) = 2
    BY DEF Get, Post, Delete
  <2>3. Requests(s, i)[sent] = r
    BY <1>5, TwoLongRequests
  <2> HIDE DEF r
  <2> QED  BY <1>1, <1>5, <2>1, <2>2, <2>3
<1>6. CASE sent = "ListVerifications"
  <2> DEFINE r == Get(<<"system", "verifications">>)
  <2>1. \A op \in TwoLong : Matches(Routes[op], r) <=> op = "ListVerifications"
    BY TwoLongRoutes DEF Matches, Wildcards, TwoLong, Get, Post, Delete
  <2>2. Len(r.path) = 2
    BY DEF Get, Post, Delete
  <2>3. Requests(s, i)[sent] = r
    BY <1>6, TwoLongRequests
  <2> HIDE DEF r
  <2> QED  BY <1>1, <1>6, <2>1, <2>2, <2>3
<1>7. CASE sent = "StartVerification"
  <2> DEFINE r == Post(<<"system", "verifications">>)
  <2>1. \A op \in TwoLong : Matches(Routes[op], r) <=> op = "StartVerification"
    BY TwoLongRoutes DEF Matches, Wildcards, TwoLong, Get, Post, Delete
  <2>2. Len(r.path) = 2
    BY DEF Get, Post, Delete
  <2>3. Requests(s, i)[sent] = r
    BY <1>7, TwoLongRequests
  <2> HIDE DEF r
  <2> QED  BY <1>1, <1>7, <2>1, <2>2, <2>3
<1> QED  BY <1>2, <1>3, <1>4, <1>5, <1>6, <1>7 DEF TwoLong

LEMMA ThreeLongRoutes ==
    /\ Routes["GetBranchHead"] = Get(<<"branches", "<branch>", "head">>)
    /\ Routes["GetBranchInfo"] = Get(<<"branches", "<branch>", "info">>)
    /\ Routes["GetArchiveClaim"] = Get(<<"archive", "claims", "<id>">>)
    /\ Routes["GetClaim"] = Get(<<"universe", "claims", "<id>">>)
    /\ Routes["DeleteVerification"] = Delete(<<"system", "verifications", "<reportId>">>)
    /\ Routes["GetVerification"] = Get(<<"system", "verifications", "<reportId>">>)
  BY DEF Routes

LEMMA ThreeLongRequests ==
  ASSUME NEW s, NEW i
  PROVE  /\ Requests(s, i)["GetBranchHead"] = Get(<<"branches", s, "head">>)
         /\ Requests(s, i)["GetBranchInfo"] = Get(<<"branches", s, "info">>)
         /\ Requests(s, i)["GetArchiveClaim"] = Get(<<"archive", "claims", i>>)
         /\ Requests(s, i)["GetClaim"] = Get(<<"universe", "claims", i>>)
         /\ Requests(s, i)["DeleteVerification"] = Delete(<<"system", "verifications", i>>)
         /\ Requests(s, i)["GetVerification"] = Get(<<"system", "verifications", i>>)
  BY DEF Requests, ++, ArchiveRequests, BranchRequests, BodyRequests, SystemRequests,
         RunRequests, UniverseRequests

LEMMA ThreeLongRouted ==
  ASSUME NEW s, NEW i, NEW sent \in ThreeLong
  PROVE  /\ Len(Requests(s, i)[sent].path) = 3
         /\ \A op \in ThreeLong : /\ Len(Routes[op].path) = 3
                                /\ Matches(Routes[op], Requests(s, i)[sent]) <=> op = sent
<1>1. \A op \in ThreeLong : Len(Routes[op].path) = 3
  BY ThreeLongRoutes DEF ThreeLong, Get, Post, Delete
<1>2. CASE sent = "GetBranchHead"
  <2> DEFINE r == Get(<<"branches", s, "head">>)
  <2>1. \A op \in ThreeLong : Matches(Routes[op], r) <=> op = "GetBranchHead"
    BY ThreeLongRoutes DEF Matches, Wildcards, ThreeLong, Get, Post, Delete
  <2>2. Len(r.path) = 3
    BY DEF Get, Post, Delete
  <2>3. Requests(s, i)[sent] = r
    BY <1>2, ThreeLongRequests
  <2> HIDE DEF r
  <2> QED  BY <1>1, <1>2, <2>1, <2>2, <2>3
<1>3. CASE sent = "GetBranchInfo"
  <2> DEFINE r == Get(<<"branches", s, "info">>)
  <2>1. \A op \in ThreeLong : Matches(Routes[op], r) <=> op = "GetBranchInfo"
    BY ThreeLongRoutes DEF Matches, Wildcards, ThreeLong, Get, Post, Delete
  <2>2. Len(r.path) = 3
    BY DEF Get, Post, Delete
  <2>3. Requests(s, i)[sent] = r
    BY <1>3, ThreeLongRequests
  <2> HIDE DEF r
  <2> QED  BY <1>1, <1>3, <2>1, <2>2, <2>3
<1>4. CASE sent = "GetArchiveClaim"
  <2> DEFINE r == Get(<<"archive", "claims", i>>)
  <2>1. \A op \in ThreeLong : Matches(Routes[op], r) <=> op = "GetArchiveClaim"
    BY ThreeLongRoutes DEF Matches, Wildcards, ThreeLong, Get, Post, Delete
  <2>2. Len(r.path) = 3
    BY DEF Get, Post, Delete
  <2>3. Requests(s, i)[sent] = r
    BY <1>4, ThreeLongRequests
  <2> HIDE DEF r
  <2> QED  BY <1>1, <1>4, <2>1, <2>2, <2>3
<1>5. CASE sent = "GetClaim"
  <2> DEFINE r == Get(<<"universe", "claims", i>>)
  <2>1. \A op \in ThreeLong : Matches(Routes[op], r) <=> op = "GetClaim"
    BY ThreeLongRoutes DEF Matches, Wildcards, ThreeLong, Get, Post, Delete
  <2>2. Len(r.path) = 3
    BY DEF Get, Post, Delete
  <2>3. Requests(s, i)[sent] = r
    BY <1>5, ThreeLongRequests
  <2> HIDE DEF r
  <2> QED  BY <1>1, <1>5, <2>1, <2>2, <2>3
<1>6. CASE sent = "DeleteVerification"
  <2> DEFINE r == Delete(<<"system", "verifications", i>>)
  <2>1. \A op \in ThreeLong : Matches(Routes[op], r) <=> op = "DeleteVerification"
    BY ThreeLongRoutes DEF Matches, Wildcards, ThreeLong, Get, Post, Delete
  <2>2. Len(r.path) = 3
    BY DEF Get, Post, Delete
  <2>3. Requests(s, i)[sent] = r
    BY <1>6, ThreeLongRequests
  <2> HIDE DEF r
  <2> QED  BY <1>1, <1>6, <2>1, <2>2, <2>3
<1>7. CASE sent = "GetVerification"
  <2> DEFINE r == Get(<<"system", "verifications", i>>)
  <2>1. \A op \in ThreeLong : Matches(Routes[op], r) <=> op = "GetVerification"
    BY ThreeLongRoutes DEF Matches, Wildcards, ThreeLong, Get, Post, Delete
  <2>2. Len(r.path) = 3
    BY DEF Get, Post, Delete
  <2>3. Requests(s, i)[sent] = r
    BY <1>7, ThreeLongRequests
  <2> HIDE DEF r
  <2> QED  BY <1>1, <1>7, <2>1, <2>2, <2>3
<1> QED  BY <1>2, <1>3, <1>4, <1>5, <1>6, <1>7 DEF ThreeLong

LEMMA FourLongRoutes ==
    /\ Routes["GetBranchClaim"] = Get(<<"branches", "<branch>", "claims", "<id>">>)
    /\ Routes["GetArchiveClaimContent"] = Get(<<"archive", "claims", "<id>", "content">>)
    /\ Routes["GetClaimContent"] = Get(<<"universe", "claims", "<id>", "content">>)
    /\ Routes["CancelVerification"] = Post(<<"system", "verifications", "<reportId>", "cancel">>)
  BY DEF Routes

LEMMA FourLongRequests ==
  ASSUME NEW s, NEW i
  PROVE  /\ Requests(s, i)["GetBranchClaim"] = Get(<<"branches", s, "claims", i>>)
         /\ Requests(s, i)["GetArchiveClaimContent"] = Get(<<"archive", "claims", i, "content">>)
         /\ Requests(s, i)["GetClaimContent"] = Get(<<"universe", "claims", i, "content">>)
         /\ Requests(s, i)["CancelVerification"] = Post(<<"system", "verifications", i, "cancel">>)
  BY DEF Requests, ++, ArchiveRequests, BranchRequests, BodyRequests, SystemRequests,
         RunRequests, UniverseRequests

LEMMA FourLongRouted ==
  ASSUME NEW s, NEW i, NEW sent \in FourLong
  PROVE  /\ Len(Requests(s, i)[sent].path) = 4
         /\ \A op \in FourLong : /\ Len(Routes[op].path) = 4
                                /\ Matches(Routes[op], Requests(s, i)[sent]) <=> op = sent
<1>1. \A op \in FourLong : Len(Routes[op].path) = 4
  BY FourLongRoutes DEF FourLong, Get, Post, Delete
<1>2. CASE sent = "GetBranchClaim"
  <2> DEFINE r == Get(<<"branches", s, "claims", i>>)
  <2>1. \A op \in FourLong : Matches(Routes[op], r) <=> op = "GetBranchClaim"
    BY FourLongRoutes DEF Matches, Wildcards, FourLong, Get, Post, Delete
  <2>2. Len(r.path) = 4
    BY DEF Get, Post, Delete
  <2>3. Requests(s, i)[sent] = r
    BY <1>2, FourLongRequests
  <2> HIDE DEF r
  <2> QED  BY <1>1, <1>2, <2>1, <2>2, <2>3
<1>3. CASE sent = "GetArchiveClaimContent"
  <2> DEFINE r == Get(<<"archive", "claims", i, "content">>)
  <2>1. \A op \in FourLong : Matches(Routes[op], r) <=> op = "GetArchiveClaimContent"
    BY FourLongRoutes DEF Matches, Wildcards, FourLong, Get, Post, Delete
  <2>2. Len(r.path) = 4
    BY DEF Get, Post, Delete
  <2>3. Requests(s, i)[sent] = r
    BY <1>3, FourLongRequests
  <2> HIDE DEF r
  <2> QED  BY <1>1, <1>3, <2>1, <2>2, <2>3
<1>4. CASE sent = "GetClaimContent"
  <2> DEFINE r == Get(<<"universe", "claims", i, "content">>)
  <2>1. \A op \in FourLong : Matches(Routes[op], r) <=> op = "GetClaimContent"
    BY FourLongRoutes DEF Matches, Wildcards, FourLong, Get, Post, Delete
  <2>2. Len(r.path) = 4
    BY DEF Get, Post, Delete
  <2>3. Requests(s, i)[sent] = r
    BY <1>4, FourLongRequests
  <2> HIDE DEF r
  <2> QED  BY <1>1, <1>4, <2>1, <2>2, <2>3
<1>5. CASE sent = "CancelVerification"
  <2> DEFINE r == Post(<<"system", "verifications", i, "cancel">>)
  <2>1. \A op \in FourLong : Matches(Routes[op], r) <=> op = "CancelVerification"
    BY FourLongRoutes DEF Matches, Wildcards, FourLong, Get, Post, Delete
  <2>2. Len(r.path) = 4
    BY DEF Get, Post, Delete
  <2>3. Requests(s, i)[sent] = r
    BY <1>5, FourLongRequests
  <2> HIDE DEF r
  <2> QED  BY <1>1, <1>5, <2>1, <2>2, <2>3
<1> QED  BY <1>2, <1>3, <1>4, <1>5 DEF FourLong

LEMMA FiveLongRoutes ==
    /\ Routes["GetBranchClaimContent"] = Get(<<"branches", "<branch>", "claims", "<id>", "content">>)
  BY DEF Routes

LEMMA FiveLongRequests ==
  ASSUME NEW s, NEW i
  PROVE  /\ Requests(s, i)["GetBranchClaimContent"] = Get(<<"branches", s, "claims", i, "content">>)
  BY DEF Requests, ++, ArchiveRequests, BranchRequests, BodyRequests, SystemRequests,
         RunRequests, UniverseRequests

LEMMA FiveLongRouted ==
  ASSUME NEW s, NEW i, NEW sent \in FiveLong
  PROVE  /\ Len(Requests(s, i)[sent].path) = 5
         /\ \A op \in FiveLong : /\ Len(Routes[op].path) = 5
                                /\ Matches(Routes[op], Requests(s, i)[sent]) <=> op = sent
<1>1. \A op \in FiveLong : Len(Routes[op].path) = 5
  BY FiveLongRoutes DEF FiveLong, Get, Post, Delete
<1>2. CASE sent = "GetBranchClaimContent"
  <2> DEFINE r == Get(<<"branches", s, "claims", i, "content">>)
  <2>1. \A op \in FiveLong : Matches(Routes[op], r) <=> op = "GetBranchClaimContent"
    BY FiveLongRoutes DEF Matches, Wildcards, FiveLong, Get, Post, Delete
  <2>2. Len(r.path) = 5
    BY DEF Get, Post, Delete
  <2>3. Requests(s, i)[sent] = r
    BY <1>2, FiveLongRequests
  <2> HIDE DEF r
  <2> QED  BY <1>1, <1>2, <2>1, <2>2, <2>3
<1> QED  BY <1>2 DEF FiveLong

\* Whatever a branch or a claim is called, the request of an operation matches the
\* route of that operation alone (openapi/client, openapi.gen.go).
THEOREM Routed ==
  ASSUME NEW s, NEW i, NEW sent \in Operations
  PROVE  RoutesOf(Requests(s, i)[sent]) = {sent}
<1> DEFINE r == Requests(s, i)[sent]
<1>1. \A op : Matches(op, r) => Len(op.path) = Len(r.path)
  BY DEF Matches
<1>2. \A op \in OneLong : Len(Routes[op].path) = 1
  BY OneLongRouted
<1>3. \A op \in TwoLong : Len(Routes[op].path) = 2
  BY TwoLongRouted
<1>4. \A op \in ThreeLong : Len(Routes[op].path) = 3
  BY ThreeLongRouted
<1>5. \A op \in FourLong : Len(Routes[op].path) = 4
  BY FourLongRouted
<1>6. \A op \in FiveLong : Len(Routes[op].path) = 5
  BY FiveLongRouted
<1> HIDE DEF r
<1>7. \A op \in Operations : Matches(Routes[op], r) <=> op = sent
  <2>1. CASE sent \in OneLong
    <3>1. Len(r.path) = 1 /\ \A op \in OneLong : Matches(Routes[op], r) <=> op = sent
      BY <2>1, OneLongRouted DEF r
    <3> QED  BY <2>1, <3>1, <1>1, <1>2, <1>3, <1>4, <1>5, <1>6, OperationsAre
  <2>2. CASE sent \in TwoLong
    <3>1. Len(r.path) = 2 /\ \A op \in TwoLong : Matches(Routes[op], r) <=> op = sent
      BY <2>2, TwoLongRouted DEF r
    <3> QED  BY <2>2, <3>1, <1>1, <1>2, <1>3, <1>4, <1>5, <1>6, OperationsAre
  <2>3. CASE sent \in ThreeLong
    <3>1. Len(r.path) = 3 /\ \A op \in ThreeLong : Matches(Routes[op], r) <=> op = sent
      BY <2>3, ThreeLongRouted DEF r
    <3> QED  BY <2>3, <3>1, <1>1, <1>2, <1>3, <1>4, <1>5, <1>6, OperationsAre
  <2>4. CASE sent \in FourLong
    <3>1. Len(r.path) = 4 /\ \A op \in FourLong : Matches(Routes[op], r) <=> op = sent
      BY <2>4, FourLongRouted DEF r
    <3> QED  BY <2>4, <3>1, <1>1, <1>2, <1>3, <1>4, <1>5, <1>6, OperationsAre
  <2>5. CASE sent \in FiveLong
    <3>1. Len(r.path) = 5 /\ \A op \in FiveLong : Matches(Routes[op], r) <=> op = sent
      BY <2>5, FiveLongRouted DEF r
    <3> QED  BY <2>5, <3>1, <1>1, <1>2, <1>3, <1>4, <1>5, <1>6, OperationsAre
  <2> QED  BY <2>1, <2>2, <2>3, <2>4, <2>5, OperationsAre
<1> QED  BY <1>7 DEF RoutesOf, r

\* A wrapper binds each of its names to one segment.
LEMMA Bound ==
  ASSUME NEW op, NEW r, NEW n, NEW m
  PROVE  /\ Wrappers[op] = << >> => Arguments(op, r) = << >>
         /\ Wrappers[op] = <<n>> => Arguments(op, r) = <<PathValue(op, r, n)>>
         /\ Wrappers[op] = <<n, m>> =>
               Arguments(op, r) = <<PathValue(op, r, n), PathValue(op, r, m)>>
  BY DEF Arguments

LEMMA WrappersAre ==
    /\ Wrappers["GetBranchHead"] = <<"<branch>">>
    /\ Wrappers["GetBranchInfo"] = <<"<branch>">>
    /\ Wrappers["GetArchiveClaim"] = <<"<id>">>
    /\ Wrappers["GetClaim"] = <<"<id>">>
    /\ Wrappers["DeleteVerification"] = <<"<reportId>">>
    /\ Wrappers["GetVerification"] = <<"<reportId>">>
    /\ Wrappers["GetBranchClaim"] = <<"<branch>", "<id>">>
    /\ Wrappers["GetArchiveClaimContent"] = <<"<id>">>
    /\ Wrappers["GetClaimContent"] = <<"<id>">>
    /\ Wrappers["CancelVerification"] = <<"<reportId>">>
    /\ Wrappers["GetBranchClaimContent"] = <<"<branch>", "<id>">>
    /\ Wrappers["StartVerification"] = << >> /\ Wrappers["ListVerifications"] = << >>
  BY DEF Wrappers, ++, ArchiveWrappers, BranchWrappers, PlainWrappers, RunWrappers, UniverseWrappers

\* The arguments a wrapper binds are those the client put there.
LEMMA ArgumentsAre ==
  ASSUME NEW s, NEW i
  PROVE  /\ Arguments("GetBranchHead", Requests(s, i)["GetBranchHead"]) = <<s>>
         /\ Arguments("GetBranchInfo", Requests(s, i)["GetBranchInfo"]) = <<s>>
         /\ Arguments("GetArchiveClaim", Requests(s, i)["GetArchiveClaim"]) = <<i>>
         /\ Arguments("GetClaim", Requests(s, i)["GetClaim"]) = <<i>>
         /\ Arguments("DeleteVerification", Requests(s, i)["DeleteVerification"]) = <<i>>
         /\ Arguments("GetVerification", Requests(s, i)["GetVerification"]) = <<i>>
         /\ Arguments("GetBranchClaim", Requests(s, i)["GetBranchClaim"]) = <<s, i>>
         /\ Arguments("GetArchiveClaimContent", Requests(s, i)["GetArchiveClaimContent"]) = <<i>>
         /\ Arguments("GetClaimContent", Requests(s, i)["GetClaimContent"]) = <<i>>
         /\ Arguments("CancelVerification", Requests(s, i)["CancelVerification"]) = <<i>>
         /\ Arguments("GetBranchClaimContent", Requests(s, i)["GetBranchClaimContent"]) = <<s, i>>
<1>1. Arguments("GetBranchHead", Requests(s, i)["GetBranchHead"]) = <<s>>
  <2>1. PathValue("GetBranchHead", Get(<<"branches", s, "head">>), "<branch>") = s
    BY ThreeLongRoutes DEF PathValue, Get, Post, Delete
  <2>2. Requests(s, i)["GetBranchHead"] = Get(<<"branches", s, "head">>)
    BY ThreeLongRequests
  <2>3. Wrappers["GetBranchHead"] = <<"<branch>">>
    BY WrappersAre
  <2> QED  BY <2>1, <2>2, <2>3, Bound
<1>2. Arguments("GetBranchInfo", Requests(s, i)["GetBranchInfo"]) = <<s>>
  <2>1. PathValue("GetBranchInfo", Get(<<"branches", s, "info">>), "<branch>") = s
    BY ThreeLongRoutes DEF PathValue, Get, Post, Delete
  <2>2. Requests(s, i)["GetBranchInfo"] = Get(<<"branches", s, "info">>)
    BY ThreeLongRequests
  <2>3. Wrappers["GetBranchInfo"] = <<"<branch>">>
    BY WrappersAre
  <2> QED  BY <2>1, <2>2, <2>3, Bound
<1>3. Arguments("GetArchiveClaim", Requests(s, i)["GetArchiveClaim"]) = <<i>>
  <2>1. PathValue("GetArchiveClaim", Get(<<"archive", "claims", i>>), "<id>") = i
    BY ThreeLongRoutes DEF PathValue, Get, Post, Delete
  <2>2. Requests(s, i)["GetArchiveClaim"] = Get(<<"archive", "claims", i>>)
    BY ThreeLongRequests
  <2>3. Wrappers["GetArchiveClaim"] = <<"<id>">>
    BY WrappersAre
  <2> QED  BY <2>1, <2>2, <2>3, Bound
<1>4. Arguments("GetClaim", Requests(s, i)["GetClaim"]) = <<i>>
  <2>1. PathValue("GetClaim", Get(<<"universe", "claims", i>>), "<id>") = i
    BY ThreeLongRoutes DEF PathValue, Get, Post, Delete
  <2>2. Requests(s, i)["GetClaim"] = Get(<<"universe", "claims", i>>)
    BY ThreeLongRequests
  <2>3. Wrappers["GetClaim"] = <<"<id>">>
    BY WrappersAre
  <2> QED  BY <2>1, <2>2, <2>3, Bound
<1>5. Arguments("DeleteVerification", Requests(s, i)["DeleteVerification"]) = <<i>>
  <2>1. PathValue("DeleteVerification", Delete(<<"system", "verifications", i>>), "<reportId>") = i
    BY ThreeLongRoutes DEF PathValue, Get, Post, Delete
  <2>2. Requests(s, i)["DeleteVerification"] = Delete(<<"system", "verifications", i>>)
    BY ThreeLongRequests
  <2>3. Wrappers["DeleteVerification"] = <<"<reportId>">>
    BY WrappersAre
  <2> QED  BY <2>1, <2>2, <2>3, Bound
<1>6. Arguments("GetVerification", Requests(s, i)["GetVerification"]) = <<i>>
  <2>1. PathValue("GetVerification", Get(<<"system", "verifications", i>>), "<reportId>") = i
    BY ThreeLongRoutes DEF PathValue, Get, Post, Delete
  <2>2. Requests(s, i)["GetVerification"] = Get(<<"system", "verifications", i>>)
    BY ThreeLongRequests
  <2>3. Wrappers["GetVerification"] = <<"<reportId>">>
    BY WrappersAre
  <2> QED  BY <2>1, <2>2, <2>3, Bound
<1>7. Arguments("GetBranchClaim", Requests(s, i)["GetBranchClaim"]) = <<s, i>>
  <2>1. PathValue("GetBranchClaim", Get(<<"branches", s, "claims", i>>), "<branch>") = s
    BY FourLongRoutes DEF PathValue, Get, Post, Delete
  <2>2. PathValue("GetBranchClaim", Get(<<"branches", s, "claims", i>>), "<id>") = i
    BY FourLongRoutes DEF PathValue, Get, Post, Delete
  <2>3. Requests(s, i)["GetBranchClaim"] = Get(<<"branches", s, "claims", i>>)
    BY FourLongRequests
  <2>4. Wrappers["GetBranchClaim"] = <<"<branch>", "<id>">>
    BY WrappersAre
  <2> QED  BY <2>1, <2>2, <2>3, <2>4, Bound
<1>8. Arguments("GetArchiveClaimContent", Requests(s, i)["GetArchiveClaimContent"]) = <<i>>
  <2>1. PathValue("GetArchiveClaimContent", Get(<<"archive", "claims", i, "content">>), "<id>") = i
    BY FourLongRoutes DEF PathValue, Get, Post, Delete
  <2>2. Requests(s, i)["GetArchiveClaimContent"] = Get(<<"archive", "claims", i, "content">>)
    BY FourLongRequests
  <2>3. Wrappers["GetArchiveClaimContent"] = <<"<id>">>
    BY WrappersAre
  <2> QED  BY <2>1, <2>2, <2>3, Bound
<1>9. Arguments("GetClaimContent", Requests(s, i)["GetClaimContent"]) = <<i>>
  <2>1. PathValue("GetClaimContent", Get(<<"universe", "claims", i, "content">>), "<id>") = i
    BY FourLongRoutes DEF PathValue, Get, Post, Delete
  <2>2. Requests(s, i)["GetClaimContent"] = Get(<<"universe", "claims", i, "content">>)
    BY FourLongRequests
  <2>3. Wrappers["GetClaimContent"] = <<"<id>">>
    BY WrappersAre
  <2> QED  BY <2>1, <2>2, <2>3, Bound
<1>10. Arguments("CancelVerification", Requests(s, i)["CancelVerification"]) = <<i>>
  <2>1. PathValue("CancelVerification", Post(<<"system", "verifications", i, "cancel">>), "<reportId>") = i
    BY FourLongRoutes DEF PathValue, Get, Post, Delete
  <2>2. Requests(s, i)["CancelVerification"] = Post(<<"system", "verifications", i, "cancel">>)
    BY FourLongRequests
  <2>3. Wrappers["CancelVerification"] = <<"<reportId>">>
    BY WrappersAre
  <2> QED  BY <2>1, <2>2, <2>3, Bound
<1>11. Arguments("GetBranchClaimContent", Requests(s, i)["GetBranchClaimContent"]) = <<s, i>>
  <2>1. PathValue("GetBranchClaimContent", Get(<<"branches", s, "claims", i, "content">>), "<branch>") = s
    BY FiveLongRoutes DEF PathValue, Get, Post, Delete
  <2>2. PathValue("GetBranchClaimContent", Get(<<"branches", s, "claims", i, "content">>), "<id>") = i
    BY FiveLongRoutes DEF PathValue, Get, Post, Delete
  <2>3. Requests(s, i)["GetBranchClaimContent"] = Get(<<"branches", s, "claims", i, "content">>)
    BY FiveLongRequests
  <2>4. Wrappers["GetBranchClaimContent"] = <<"<branch>", "<id>">>
    BY WrappersAre
  <2> QED  BY <2>1, <2>2, <2>3, <2>4, Bound
<1> QED  BY <1>1, <1>2, <1>3, <1>4, <1>5, <1>6, <1>7, <1>8, <1>9, <1>10, <1>11

\* What core runs for an operation: its own operation, in the scope and on the claim
\* or report that was asked for.
CoreOf ==
    [Health |-> "OpHealthGet", Whoami |-> "OpSubjectGet", ListStorageLayers |-> "OpLayerList",
     Query |-> "OpClaimQuery", Contribute |-> "OpClaimContribute",
     ListBranches |-> "OpBranchList", GetBranchHead |-> "OpBranchHead",
     GetBranchInfo |-> "OpBranchInfo", GetArchiveInfo |-> "OpArchiveInfo",
     GetBranchClaim |-> "OpClaimGet", GetArchiveClaim |-> "OpClaimGet", GetClaim |-> "OpClaimGet",
     GetBranchClaimContent |-> "OpClaimContent", GetArchiveClaimContent |-> "OpClaimContent",
     GetClaimContent |-> "OpClaimContent", AdvanceDevClock |-> "OpDevClockAdvance",
     StartVerification |-> "OpVerificationStart", ListVerifications |-> "OpVerificationList",
     GetVerification |-> "OpVerificationGet", CancelVerification |-> "OpVerificationCancel",
     DeleteVerification |-> "OpVerificationDelete"]

InBranch == {"Query", "GetBranchHead", "GetBranchInfo", "GetBranchClaim", "GetBranchClaimContent"}
InArchive == {"GetArchiveInfo", "GetArchiveClaim", "GetArchiveClaimContent"}

ScopeOf(op, s) ==
    IF op \in InBranch THEN s
    ELSE IF op \in InArchive THEN "$archive"
    ELSE IF op \in {"GetClaim", "GetClaimContent"} THEN "$universe"
    ELSE IF op = "ListBranches" THEN "$branches" ELSE "none"

IdOf(op, i) ==
    IF op \in ClaimReads \cup Contents
                \cup {"GetVerification", "CancelVerification", "DeleteVerification"}
    THEN i ELSE "none"



LEMMA HandledIs ==
  ASSUME NEW a, a.op \in Operations
  PROVE  RunOf(a) = CoreRequest(CoreOf[a.op], ScopeOf(a.op, a.scope), IdOf(a.op, a.id))
<1> DEFINE args == Arguments(a.op, Wire(a))
           C == CoreRequest(CoreOf[a.op], ScopeOf(a.op, a.scope), IdOf(a.op, a.id))
<1> USE DEF CoreOf, ScopeOf, IdOf, InBranch, InArchive, ClaimReads, Contents, CoreRequest
<1>0. Wire(a) = Requests(a.scope, a.id)[a.op]
  BY DEF Wire
<1>1. CASE a.op = "Health"
  BY <1>1 DEF RunOf, Handled, SystemHandlers, RunHandlers, ReadHandlers
<1>2. CASE a.op = "Query"
  BY <1>2 DEF RunOf, Handled, SystemHandlers, RunHandlers, ReadHandlers
<1>3. CASE a.op = "Contribute"
  BY <1>3 DEF RunOf, Handled, SystemHandlers, RunHandlers, ReadHandlers
<1>4. CASE a.op = "ListBranches"
  BY <1>4 DEF RunOf, Handled, SystemHandlers, RunHandlers, ReadHandlers
<1>5. CASE a.op = "GetBranchHead"
  <2>1. args = <<a.scope>>
    BY <1>0, <1>5, ArgumentsAre
  <2> HIDE DEF args
  <2>2. Handled(a.op, args, a) = C
    BY <1>5, <2>1 DEF Handled, SystemHandlers, RunHandlers, ReadHandlers
  <2> QED  BY <2>2 DEF RunOf, args
<1>6. CASE a.op = "GetBranchInfo"
  <2>1. args = <<a.scope>>
    BY <1>0, <1>6, ArgumentsAre
  <2> HIDE DEF args
  <2>2. Handled(a.op, args, a) = C
    BY <1>6, <2>1 DEF Handled, SystemHandlers, RunHandlers, ReadHandlers
  <2> QED  BY <2>2 DEF RunOf, args
<1>7. CASE a.op = "GetArchiveInfo"
  BY <1>7 DEF RunOf, Handled, SystemHandlers, RunHandlers, ReadHandlers
<1>8. CASE a.op = "GetBranchClaim"
  <2>1. args = <<a.scope, a.id>>
    BY <1>0, <1>8, ArgumentsAre
  <2> HIDE DEF args
  <2>2. Handled(a.op, args, a) = C
    BY <1>8, <2>1 DEF Handled, SystemHandlers, RunHandlers, ReadHandlers
  <2> QED  BY <2>2 DEF RunOf, args
<1>9. CASE a.op = "GetBranchClaimContent"
  <2>1. args = <<a.scope, a.id>>
    BY <1>0, <1>9, ArgumentsAre
  <2> HIDE DEF args
  <2>2. Handled(a.op, args, a) = C
    BY <1>9, <2>1 DEF Handled, SystemHandlers, RunHandlers, ReadHandlers
  <2> QED  BY <2>2 DEF RunOf, args
<1>10. CASE a.op = "GetArchiveClaim"
  <2>1. args = <<a.id>>
    BY <1>0, <1>10, ArgumentsAre
  <2> HIDE DEF args
  <2>2. Handled(a.op, args, a) = C
    BY <1>10, <2>1 DEF Handled, SystemHandlers, RunHandlers, ReadHandlers
  <2> QED  BY <2>2 DEF RunOf, args
<1>11. CASE a.op = "GetArchiveClaimContent"
  <2>1. args = <<a.id>>
    BY <1>0, <1>11, ArgumentsAre
  <2> HIDE DEF args
  <2>2. Handled(a.op, args, a) = C
    BY <1>11, <2>1 DEF Handled, SystemHandlers, RunHandlers, ReadHandlers
  <2> QED  BY <2>2 DEF RunOf, args
<1>12. CASE a.op = "GetClaim"
  <2>1. args = <<a.id>>
    BY <1>0, <1>12, ArgumentsAre
  <2> HIDE DEF args
  <2>2. Handled(a.op, args, a) = C
    BY <1>12, <2>1 DEF Handled, SystemHandlers, RunHandlers, ReadHandlers
  <2> QED  BY <2>2 DEF RunOf, args
<1>13. CASE a.op = "GetClaimContent"
  <2>1. args = <<a.id>>
    BY <1>0, <1>13, ArgumentsAre
  <2> HIDE DEF args
  <2>2. Handled(a.op, args, a) = C
    BY <1>13, <2>1 DEF Handled, SystemHandlers, RunHandlers, ReadHandlers
  <2> QED  BY <2>2 DEF RunOf, args
<1>14. CASE a.op = "AdvanceDevClock"
  BY <1>14 DEF RunOf, Handled, SystemHandlers, RunHandlers, ReadHandlers
<1>15. CASE a.op = "Whoami"
  BY <1>15 DEF RunOf, Handled, SystemHandlers, RunHandlers, ReadHandlers
<1>16. CASE a.op = "ListStorageLayers"
  BY <1>16 DEF RunOf, Handled, SystemHandlers, RunHandlers, ReadHandlers
<1>17. CASE a.op = "ListVerifications"
  <2>1. args = << >>
    BY <1>17, WrappersAre, Bound
  <2> HIDE DEF args
  <2>2. Handled(a.op, args, a) = C
    BY <1>17, <2>1 DEF Handled, SystemHandlers, RunHandlers, ReadHandlers
  <2> QED  BY <2>2 DEF RunOf, args
<1>18. CASE a.op = "StartVerification"
  <2>1. args = << >>
    BY <1>18, WrappersAre, Bound
  <2> HIDE DEF args
  <2>2. Handled(a.op, args, a) = C
    BY <1>18, <2>1 DEF Handled, SystemHandlers, RunHandlers, ReadHandlers
  <2> QED  BY <2>2 DEF RunOf, args
<1>19. CASE a.op = "DeleteVerification"
  <2>1. args = <<a.id>>
    BY <1>0, <1>19, ArgumentsAre
  <2> HIDE DEF args
  <2>2. Handled(a.op, args, a) = C
    BY <1>19, <2>1 DEF Handled, SystemHandlers, RunHandlers, ReadHandlers
  <2> QED  BY <2>2 DEF RunOf, args
<1>20. CASE a.op = "GetVerification"
  <2>1. args = <<a.id>>
    BY <1>0, <1>20, ArgumentsAre
  <2> HIDE DEF args
  <2>2. Handled(a.op, args, a) = C
    BY <1>20, <2>1 DEF Handled, SystemHandlers, RunHandlers, ReadHandlers
  <2> QED  BY <2>2 DEF RunOf, args
<1>21. CASE a.op = "CancelVerification"
  <2>1. args = <<a.id>>
    BY <1>0, <1>21, ArgumentsAre
  <2> HIDE DEF args
  <2>2. Handled(a.op, args, a) = C
    BY <1>21, <2>1 DEF Handled, SystemHandlers, RunHandlers, ReadHandlers
  <2> QED  BY <2>2 DEF RunOf, args
<1> QED  BY <1>1, <1>2, <1>3, <1>4, <1>5, <1>6, <1>7, <1>8, <1>9, <1>10, <1>11, <1>12, <1>13, <1>14, <1>15, <1>16, <1>17, <1>18, <1>19, <1>20, <1>21, OperationsAre
         DEF OneLong, TwoLong, ThreeLong, FourLong, FiveLong

-----------------------------------------------------------------------------
(* What the client's functions ask for, and what their decoders take.      *)

FunctionNames ==
    {"Branches", "BranchHead", "BranchInfo", "ArchiveInfo", "Whoami", "Layers", "Verifications",
     "StartVerification", "Verification", "CancelVerification", "DeleteVerification", "Health",
     "WaitReady", "Query", "QueryRaw", "QueryClaims", "Contribute", "AdvanceClock", "GetClaim",
     "GetContent"}

LEMMA FunctionsAre == Functions = FunctionNames
  BY DEF Functions, OneRoute, ++, BranchReads, SystemReads, RunCalls, FunctionNames

LEMMA RoutesOfFunctions ==
    /\ OneRoute["Branches"] = "ListBranches" /\ OneRoute["BranchHead"] = "GetBranchHead"
    /\ OneRoute["BranchInfo"] = "GetBranchInfo" /\ OneRoute["ArchiveInfo"] = "GetArchiveInfo"
    /\ OneRoute["Whoami"] = "Whoami" /\ OneRoute["Layers"] = "ListStorageLayers"
    /\ OneRoute["Verifications"] = "ListVerifications"
    /\ OneRoute["StartVerification"] = "StartVerification"
    /\ OneRoute["Verification"] = "GetVerification"
    /\ OneRoute["CancelVerification"] = "CancelVerification"
    /\ OneRoute["DeleteVerification"] = "DeleteVerification"
    /\ OneRoute["Health"] = "Health" /\ OneRoute["WaitReady"] = "Health"
    /\ OneRoute["Query"] = "Query" /\ OneRoute["QueryRaw"] = "Query" /\ OneRoute["QueryClaims"] = "Query"
    /\ OneRoute["Contribute"] = "Contribute" /\ OneRoute["AdvanceClock"] = "AdvanceDevClock"
  BY DEF OneRoute, ++, BranchReads, SystemReads, RunCalls

\* Each function of the client sends the operation it stands for, in its scope and by
\* its id, and reads a body itself where the operation carries one.
LEMMA FunctionAsks ==
  ASSUME NEW fn \in Functions, NEW s, NEW i
  PROVE  LET op == OperationOf(fn, s) IN
         /\ op \in Operations
         /\ CoreOf[op] = Means[fn]
         /\ fn \in ByScope => ScopeOf(op, s) = s
         /\ fn \in ById => IdOf(op, i) = i
         /\ fn \in Queries <=> op = "Query"
         /\ fn = "GetContent" <=> op \in Contents
         /\ fn = "GetClaim" <=> op \in ClaimReads
         /\ fn = "AdvanceClock" => op = "AdvanceDevClock"
<1> USE DEF CoreOf, Means, ByScope, ScopeOf, ById, IdOf, Queries, Contents, ClaimReads, InBranch,
            InArchive, OneLong, TwoLong, ThreeLong, FourLong, FiveLong
<1> DEFINE op == OperationOf(fn, s)
<1>1. CASE fn = "GetClaim"
  <2>1. op = GetClaimOp(s)
    BY <1>1 DEF OperationOf
  <2>2. CASE s = "$archive"
    BY <1>1, <2>1, <2>2, OperationsAre DEF GetClaimOp
  <2>3. CASE s = "$universe"
    BY <1>1, <2>1, <2>3, OperationsAre DEF GetClaimOp
  <2>4. CASE s \notin {"$archive", "$universe"}
    BY <1>1, <2>1, <2>4, OperationsAre DEF GetClaimOp
  <2> QED  BY <2>2, <2>3, <2>4
<1>2. CASE fn = "GetContent"
  <2>1. op = GetContentOp(s)
    BY <1>2 DEF OperationOf
  <2>2. CASE s = "$archive"
    BY <1>2, <2>1, <2>2, OperationsAre DEF GetContentOp
  <2>3. CASE s = "$universe"
    BY <1>2, <2>1, <2>3, OperationsAre DEF GetContentOp
  <2>4. CASE s \notin {"$archive", "$universe"}
    BY <1>2, <2>1, <2>4, OperationsAre DEF GetContentOp
  <2> QED  BY <2>2, <2>3, <2>4
<1>3. CASE fn \in FunctionNames \ {"GetClaim", "GetContent"}
  <2>1. op = OneRoute[fn]
    BY <1>3 DEF OperationOf
  <2> QED  BY <1>3, <2>1, RoutesOfFunctions, OperationsAre DEF FunctionNames
<1> QED  BY <1>1, <1>2, <1>3, FunctionsAre DEF FunctionNames

LEMMA DecoderParts ==
    /\ DOMAIN ParseArchiveClaims = {"GetArchiveClaim", "GetArchiveClaimContent"}
    /\ DOMAIN ParseListings = {"GetArchiveInfo", "ListBranches"}
    /\ DOMAIN ParseBranchClaims = {"GetBranchClaim", "GetBranchClaimContent"}
    /\ DOMAIN ParseBranchReads = {"GetBranchHead", "GetBranchInfo"}
    /\ DOMAIN ParseWrites = {"Contribute", "AdvanceDevClock"}
    /\ DOMAIN ParseOpenReads = {"Health", "Query", "ListStorageLayers", "ListVerifications"}
    /\ DOMAIN ParseRunWrites = {"StartVerification", "DeleteVerification"}
    /\ DOMAIN ParseRunReads = {"GetVerification", "CancelVerification"}
    /\ DOMAIN ParseSubjectAndUniverse = {"Whoami", "GetClaim", "GetClaimContent"}
  BY DEF ParseArchiveClaims, ParseListings, ParseBranchClaims, ParseBranchReads, ParseWrites, ParseOpenReads, ParseRunWrites, ParseRunReads, ParseSubjectAndUniverse

LEMMA Beside ==
  ASSUME NEW f, NEW g
  PROVE  /\ DOMAIN (f ++ g) = DOMAIN f \cup DOMAIN g
         /\ \A x \in DOMAIN f : (f ++ g)[x] = f[x]
         /\ \A x \in DOMAIN g \ DOMAIN f : (f ++ g)[x] = g[x]
  BY DEF ++

LEMMA DecoderTable ==
    /\ Decoders["GetArchiveClaim"].success = 200 /\ Decoders["GetArchiveClaim"].json = FALSE
    /\ Decoders["GetArchiveClaimContent"].success = 200 /\ Decoders["GetArchiveClaimContent"].json = FALSE
    /\ Decoders["GetArchiveInfo"].success = 200 /\ Decoders["GetArchiveInfo"].json = TRUE
    /\ Decoders["ListBranches"].success = 200 /\ Decoders["ListBranches"].json = TRUE
    /\ Decoders["GetBranchClaim"].success = 200 /\ Decoders["GetBranchClaim"].json = FALSE
    /\ Decoders["GetBranchClaimContent"].success = 200 /\ Decoders["GetBranchClaimContent"].json = FALSE
    /\ Decoders["GetBranchHead"].success = 200 /\ Decoders["GetBranchHead"].json = TRUE
    /\ Decoders["GetBranchInfo"].success = 200 /\ Decoders["GetBranchInfo"].json = TRUE
    /\ Decoders["Contribute"].success = 201 /\ Decoders["Contribute"].json = TRUE
    /\ Decoders["AdvanceDevClock"].success = 200 /\ Decoders["AdvanceDevClock"].json = TRUE
    /\ Decoders["Health"].success = 200 /\ Decoders["Health"].json = TRUE
    /\ Decoders["Query"].success = 200 /\ Decoders["Query"].json = FALSE
    /\ Decoders["ListStorageLayers"].success = 200 /\ Decoders["ListStorageLayers"].json = TRUE
    /\ Decoders["ListVerifications"].success = 200 /\ Decoders["ListVerifications"].json = TRUE
    /\ Decoders["StartVerification"].success = 202 /\ Decoders["StartVerification"].json = TRUE
    /\ Decoders["DeleteVerification"].success = 204 /\ Decoders["DeleteVerification"].json = FALSE
    /\ Decoders["GetVerification"].success = 200 /\ Decoders["GetVerification"].json = TRUE
    /\ Decoders["CancelVerification"].success = 200 /\ Decoders["CancelVerification"].json = TRUE
    /\ Decoders["Whoami"].success = 200 /\ Decoders["Whoami"].json = TRUE
    /\ Decoders["GetClaim"].success = 200 /\ Decoders["GetClaim"].json = FALSE
    /\ Decoders["GetClaimContent"].success = 200 /\ Decoders["GetClaimContent"].json = FALSE
<1> DEFINE d1 == ParseArchiveClaims
           d2 == d1 ++ ParseListings
           d3 == d2 ++ ParseBranchClaims
           d4 == d3 ++ ParseBranchReads
           d5 == d4 ++ ParseWrites
           d6 == d5 ++ ParseOpenReads
           d7 == d6 ++ ParseRunWrites
           d8 == d7 ++ ParseRunReads
           d9 == d8 ++ ParseSubjectAndUniverse
<1>1. Decoders = d9
  BY DEF Decoders
<1>2. /\ DOMAIN d2 = DOMAIN d1 \cup DOMAIN ParseListings
      /\ \A x \in DOMAIN d1 : d2[x] = d1[x]
      /\ \A x \in DOMAIN ParseListings \ DOMAIN d1 : d2[x] = ParseListings[x]
  BY Beside
<1>3. /\ DOMAIN d3 = DOMAIN d2 \cup DOMAIN ParseBranchClaims
      /\ \A x \in DOMAIN d2 : d3[x] = d2[x]
      /\ \A x \in DOMAIN ParseBranchClaims \ DOMAIN d2 : d3[x] = ParseBranchClaims[x]
  BY Beside
<1>4. /\ DOMAIN d4 = DOMAIN d3 \cup DOMAIN ParseBranchReads
      /\ \A x \in DOMAIN d3 : d4[x] = d3[x]
      /\ \A x \in DOMAIN ParseBranchReads \ DOMAIN d3 : d4[x] = ParseBranchReads[x]
  BY Beside
<1>5. /\ DOMAIN d5 = DOMAIN d4 \cup DOMAIN ParseWrites
      /\ \A x \in DOMAIN d4 : d5[x] = d4[x]
      /\ \A x \in DOMAIN ParseWrites \ DOMAIN d4 : d5[x] = ParseWrites[x]
  BY Beside
<1>6. /\ DOMAIN d6 = DOMAIN d5 \cup DOMAIN ParseOpenReads
      /\ \A x \in DOMAIN d5 : d6[x] = d5[x]
      /\ \A x \in DOMAIN ParseOpenReads \ DOMAIN d5 : d6[x] = ParseOpenReads[x]
  BY Beside
<1>7. /\ DOMAIN d7 = DOMAIN d6 \cup DOMAIN ParseRunWrites
      /\ \A x \in DOMAIN d6 : d7[x] = d6[x]
      /\ \A x \in DOMAIN ParseRunWrites \ DOMAIN d6 : d7[x] = ParseRunWrites[x]
  BY Beside
<1>8. /\ DOMAIN d8 = DOMAIN d7 \cup DOMAIN ParseRunReads
      /\ \A x \in DOMAIN d7 : d8[x] = d7[x]
      /\ \A x \in DOMAIN ParseRunReads \ DOMAIN d7 : d8[x] = ParseRunReads[x]
  BY Beside
<1>9. /\ DOMAIN d9 = DOMAIN d8 \cup DOMAIN ParseSubjectAndUniverse
      /\ \A x \in DOMAIN d8 : d9[x] = d8[x]
      /\ \A x \in DOMAIN ParseSubjectAndUniverse \ DOMAIN d8 : d9[x] = ParseSubjectAndUniverse[x]
  BY Beside
<1>10. DOMAIN d1 = DOMAIN ParseArchiveClaims /\ \A x \in DOMAIN ParseArchiveClaims : d1[x] = ParseArchiveClaims[x]
  OBVIOUS
<1> HIDE DEF d1, d2, d3, d4, d5, d6, d7, d8, d9
<1>11. \A op \in DOMAIN ParseArchiveClaims : Decoders[op] = ParseArchiveClaims[op]
  BY <1>1, <1>2, <1>3, <1>4, <1>5, <1>6, <1>7, <1>8, <1>9, <1>10, DecoderParts
<1>12. \A op \in DOMAIN ParseListings : Decoders[op] = ParseListings[op]
  BY <1>1, <1>2, <1>3, <1>4, <1>5, <1>6, <1>7, <1>8, <1>9, <1>10, DecoderParts
<1>13. \A op \in DOMAIN ParseBranchClaims : Decoders[op] = ParseBranchClaims[op]
  BY <1>1, <1>2, <1>3, <1>4, <1>5, <1>6, <1>7, <1>8, <1>9, <1>10, DecoderParts
<1>14. \A op \in DOMAIN ParseBranchReads : Decoders[op] = ParseBranchReads[op]
  BY <1>1, <1>2, <1>3, <1>4, <1>5, <1>6, <1>7, <1>8, <1>9, <1>10, DecoderParts
<1>15. \A op \in DOMAIN ParseWrites : Decoders[op] = ParseWrites[op]
  BY <1>1, <1>2, <1>3, <1>4, <1>5, <1>6, <1>7, <1>8, <1>9, <1>10, DecoderParts
<1>16. \A op \in DOMAIN ParseOpenReads : Decoders[op] = ParseOpenReads[op]
  BY <1>1, <1>2, <1>3, <1>4, <1>5, <1>6, <1>7, <1>8, <1>9, <1>10, DecoderParts
<1>17. \A op \in DOMAIN ParseRunWrites : Decoders[op] = ParseRunWrites[op]
  BY <1>1, <1>2, <1>3, <1>4, <1>5, <1>6, <1>7, <1>8, <1>9, <1>10, DecoderParts
<1>18. \A op \in DOMAIN ParseRunReads : Decoders[op] = ParseRunReads[op]
  BY <1>1, <1>2, <1>3, <1>4, <1>5, <1>6, <1>7, <1>8, <1>9, <1>10, DecoderParts
<1>19. \A op \in DOMAIN ParseSubjectAndUniverse : Decoders[op] = ParseSubjectAndUniverse[op]
  BY <1>1, <1>2, <1>3, <1>4, <1>5, <1>6, <1>7, <1>8, <1>9, <1>10, DecoderParts
<1>20. /\ Decoders["GetArchiveClaim"].success = 200 /\ Decoders["GetArchiveClaim"].json = FALSE
       /\ Decoders["GetArchiveClaimContent"].success = 200 /\ Decoders["GetArchiveClaimContent"].json = FALSE
  BY <1>11, DecoderParts DEF ParseArchiveClaims, Decoder
<1>21. /\ Decoders["GetArchiveInfo"].success = 200 /\ Decoders["GetArchiveInfo"].json = TRUE
       /\ Decoders["ListBranches"].success = 200 /\ Decoders["ListBranches"].json = TRUE
  BY <1>12, DecoderParts DEF ParseListings, Decoder
<1>22. /\ Decoders["GetBranchClaim"].success = 200 /\ Decoders["GetBranchClaim"].json = FALSE
       /\ Decoders["GetBranchClaimContent"].success = 200 /\ Decoders["GetBranchClaimContent"].json = FALSE
  BY <1>13, DecoderParts DEF ParseBranchClaims, Decoder
<1>23. /\ Decoders["GetBranchHead"].success = 200 /\ Decoders["GetBranchHead"].json = TRUE
       /\ Decoders["GetBranchInfo"].success = 200 /\ Decoders["GetBranchInfo"].json = TRUE
  BY <1>14, DecoderParts DEF ParseBranchReads, Decoder
<1>24. /\ Decoders["Contribute"].success = 201 /\ Decoders["Contribute"].json = TRUE
       /\ Decoders["AdvanceDevClock"].success = 200 /\ Decoders["AdvanceDevClock"].json = TRUE
  BY <1>15, DecoderParts DEF ParseWrites, Decoder
<1>25. /\ Decoders["Health"].success = 200 /\ Decoders["Health"].json = TRUE
       /\ Decoders["Query"].success = 200 /\ Decoders["Query"].json = FALSE
       /\ Decoders["ListStorageLayers"].success = 200 /\ Decoders["ListStorageLayers"].json = TRUE
       /\ Decoders["ListVerifications"].success = 200 /\ Decoders["ListVerifications"].json = TRUE
  BY <1>16, DecoderParts DEF ParseOpenReads, Decoder
<1>26. /\ Decoders["StartVerification"].success = 202 /\ Decoders["StartVerification"].json = TRUE
       /\ Decoders["DeleteVerification"].success = 204 /\ Decoders["DeleteVerification"].json = FALSE
  BY <1>17, DecoderParts DEF ParseRunWrites, Decoder
<1>27. /\ Decoders["GetVerification"].success = 200 /\ Decoders["GetVerification"].json = TRUE
       /\ Decoders["CancelVerification"].success = 200 /\ Decoders["CancelVerification"].json = TRUE
  BY <1>18, DecoderParts DEF ParseRunReads, Decoder
<1>28. /\ Decoders["Whoami"].success = 200 /\ Decoders["Whoami"].json = TRUE
       /\ Decoders["GetClaim"].success = 200 /\ Decoders["GetClaim"].json = FALSE
       /\ Decoders["GetClaimContent"].success = 200 /\ Decoders["GetClaimContent"].json = FALSE
  BY <1>19, DecoderParts DEF ParseSubjectAndUniverse, Decoder
<1> QED  BY <1>20, <1>21, <1>22, <1>23, <1>24, <1>25, <1>26, <1>27, <1>28

\* A success is none of the refusals' statuses nor a 304, and a body read as JSON is
\* neither a result sequence nor a blob.
LEMMA DecodersAre ==
  ASSUME NEW op \in Operations
  PROVE  /\ Decoders[op].success \in {200, 201, 202, 204}
         /\ op \in Contents \cup ClaimReads \cup {"Query"} => Decoders[op].success = 200
         /\ Decoders[op].json => op \notin {"Query", "DeleteVerification"}
  BY DecoderTable, OperationsAre
     DEF OneLong, TwoLong, ThreeLong, FourLong, FiveLong, Contents, ClaimReads

\* A scope is only ever read, and reading it needs R on it.
LEMMA ScopedNeedsR ==
  ASSUME NEW op \in Operations, NEW s, ScopeOf(op, s) # "none"
  PROVE  CoreOf[op] \in NeedsR
  BY OperationsAre DEF ScopeOf, CoreOf, NeedsR, InBranch, InArchive

\* A record reads back as the kind it was written of, and the report as the report, in
\* either encoding and whatever shape and detail the caller asked for (internal/core,
\* client).
THEOREM RecordsReadBack ==
  ASSUME NEW output \in Outputs, routesAreReadable(output), EngineAccepts(Pinned(output))
  PROVE  LET written == Pinned(output)
             e == written.encoding
         IN  /\ KindOf(written) = KindOf(output)
             /\ decodeRecord(FormOf(KindOf(written), e), e) = KindOf(output)
             /\ decodeRecord(FormOf("Report", e), e) = "Report"
             /\ KindOf(output) # "Report"
             /\ \A n : RecordsOf(KindOf(written), n) = 1
<1> DEFINE written == Pinned(output)
<1>1. /\ written.detail = output.detail /\ written.shape = output.shape
      /\ written.encoding \in {"json", "cbor"}
      /\ written.detail = "envelope" => written.encoding = "cbor"
  BY DEF Pinned, Outputs, EngineAccepts
<1>2. /\ output.detail \in {"id", "claim", "envelope"} /\ output.shape \in {"claim", "path"}
      /\ output.shape = "path" => output.detail = "id"
  BY DEF Outputs, routesAreReadable
<1> HIDE DEF written
<1>3. KindOf(output) = CASE output.shape = "path" -> "PathId"
                          [] output.shape = "claim" /\ output.detail = "id" -> "ClaimId"
                          [] output.shape = "claim" /\ output.detail = "claim" -> "ClaimEncoded"
                          [] output.shape = "claim" /\ output.detail = "envelope" -> "ClaimEnvelope"
  BY <1>2 DEF KindOf
<1>4. KindOf(written) = KindOf(output)
  BY <1>1 DEF KindOf
<1>5. decodeRecord(FormOf(KindOf(output), written.encoding), written.encoding) = KindOf(output)
  BY <1>1, <1>2, <1>3 DEF decodeRecord, decodeCBORRecord, decodeJSONRecord, FormOf
<1>6. decodeRecord(FormOf("Report", written.encoding), written.encoding) = "Report"
  BY <1>1 DEF decodeRecord, decodeCBORRecord, decodeJSONRecord, FormOf
<1>7. KindOf(output) \in {"PathId", "ClaimId", "ClaimEncoded", "ClaimEnvelope"}
  BY <1>2, <1>3
<1> QED  BY <1>4, <1>5, <1>6, <1>7 DEF RecordsOf, written

-----------------------------------------------------------------------------
(* Types of what travels.                                                  *)

LEMMA AnswerIs ==
  ASSUME NEW from \in Senders, NEW status \in Nat,
         NEW body \in {"value", "records", "contract", "foreign", "mangled", "text", "none"},
         NEW code \in Categories \cup {"internal", "foreign", "none"}, NEW tag \in Tags,
         NEW count \in Nat
  PROVE  Answer(from, status, body, code, tag, count) \in Answers
  BY DEF Answer, Answers

LEMMA StatusIs ==
  ASSUME NEW category
  PROVE  httpStatus(category) \in {400, 401, 403, 404, 409, 429, 500, 501}
<1>1. CASE category \in Categories
  BY <1>1 DEF httpStatus, Categories
<1>2. CASE category \notin Categories
  BY <1>2 DEF httpStatus, Categories
<1> QED  BY <1>1, <1>2

LEMMA OutcomesAre ==
  ASSUME NEW c, NEW req
  PROVE  /\ Outcomes(c, req) \subseteq {"done", "unauthenticated"} \cup LibErrors
         /\ "done" \in Outcomes(c, req) => c \in Known /\ Authorised(c, req)
         /\ \A o \in Outcomes(c, req) : o # "done" => o \in Categories \cup {"internal"}
<1>1. Executed(req.core) \subseteq {"done"} \cup LibErrors
  BY DEF Executed, LibErrors
<1> QED  BY <1>1 DEF Outcomes, LibErrors, Categories

LEMMA EtagIs ==
  ASSUME NEW op, NEW id \in Ids, NEW n \in Nat
  PROVE  Etag(op, id, n) \in Tags
  BY DEF Etag, Tags

LEMMA NothingIs ==
    /\ NoAnswer \in Answers /\ Nothing \in Results /\ Failed \in Results
    /\ NoAsk \in Asks /\ NotRun \in Decisions
<1>1. NoAnswer \in Answers
  BY DEF NoAnswer, Answer, Answers, Senders, Tags
<1>2. Nothing \in Results /\ Failed \in Results
  BY DEF Nothing, Failed, Told, NoAnswer, Answer, Results, Senders, Tags
<1>3. QueryClaimsOutput \in Outputs
  BY DEF QueryClaimsOutput, Outputs
<1>4. NoAsk \in Asks
  <2>1. << >> \in Tags /\ "none" \in Named
    BY DEF Tags, Named
  <2> DEFINE fns == Functions \cup {"none"}
             ops == Operations \cup {"none"}
             scopes == Scopes \cup {"none"}
  <2>2. "none" \in fns /\ "none" \in ops /\ "none" \in scopes
    OBVIOUS
  <2> HIDE DEF fns, ops, scopes
  <2>3. NoAsk \in [fn : fns, op : ops, scope : scopes, id : Named, formed : BOOLEAN,
                   several : BOOLEAN, output : Outputs, report : BOOLEAN,
                   held : SUBSET [tag : Tags, count : Nat], any : BOOLEAN]
    BY <1>3, <2>1, <2>2 DEF NoAsk
  <2> QED  BY <2>3 DEF Asks, fns, ops, scopes
<1>5. NotRun \in Decisions
  BY DEF NotRun, Decisions, Named
<1> QED  BY <1>1, <1>2, <1>4, <1>5

LEMMA KindsAre ==
  ASSUME NEW form, NEW e
  PROVE  decodeRecord(form, e) \in {"ClaimId", "PathId", "ClaimEncoded", "ClaimEnvelope", "Report", "unknown"}
<1>1. decodeCBORRecord(form) \in {"ClaimId", "PathId", "ClaimEncoded", "ClaimEnvelope", "Report", "unknown"}
  BY DEF decodeCBORRecord
<1>2. decodeJSONRecord(form) \in {"ClaimId", "PathId", "ClaimEncoded", "ClaimEnvelope", "Report", "unknown"}
  BY DEF decodeJSONRecord
<1> QED  BY <1>1, <1>2 DEF decodeRecord

LEMMA CoresAre == \A op \in Operations : CoreOf[op] \in Cores
  BY OperationsAre
     DEF CoreOf, Cores, NeedsR, OneLong, TwoLong, ThreeLong, FourLong, FiveLong

-----------------------------------------------------------------------------
(* What the client makes of an answer: nothing, or what the answer carries, *)
(* a value exactly where its decoder takes the status and the body.        *)

Takes(fn, op, a) ==
    IF fn \in Queries THEN a.status = 200 /\ a.body = "records"
    ELSE IF fn \in {"GetContent", "GetClaim"} THEN a.status = 200
    ELSE a.status = Decoders[op].success /\ (Decoders[op].json => IsJSON(a))

Carries(t, a) ==
    /\ t.from = a.from /\ t.status = a.status /\ t.tag = a.tag /\ t.count = a.count
    /\ t.report = a.report

Hears(t, fn, op, output, a) ==
    /\ t \in Results /\ t.kind \notin {"none", "raw", "gaveUp"}
    /\ \/ t = Failed
       \/ /\ t.kind = "value" /\ Carries(t, a) /\ Takes(fn, op, a)
          /\ fn \in {"Query", "QueryClaims"} => t.kinds = KindsRead(fn, output, a)
       \/ /\ t.kind \in {"refused", "unavailable"} /\ Carries(t, a)
          /\ t.sentinel = Unwrap(a)
          /\ IF fn \in Queries \cup {"GetContent", "GetClaim"} THEN a.status # 200
             ELSE ~Takes(fn, op, a)

LEMMA RefusalIs ==
  ASSUME NEW a \in Answers
  PROVE  LET t == refusal(a) IN
         /\ t \in Results /\ t.kind = "refused" /\ Carries(t, a) /\ t.sentinel = Unwrap(a)
<1>1. Unwrap(a) \in Categories \cup {"none"}
  BY DEF Unwrap, byCode, byStatus
<1> QED  BY <1>1 DEF refusal, Told, Results, Carries, Answers

LEMMA ValueIs ==
  ASSUME NEW a \in Answers
  PROVE  LET t == Told("value", "none", a) IN
         /\ t \in Results /\ t.kind = "value" /\ Carries(t, a)
  BY DEF Told, Results, Carries, Answers

LEMMA FailureIs ==
  ASSUME NEW op, NEW fn, NEW output, NEW a
  PROVE  Hears(Failed, fn, op, output, a) /\ Failed.kind = "failed"
  BY NothingIs DEF Hears, Failed, Told

LEMMA TypedIs ==
  ASSUME NEW op, NEW fn \in Functions, fn \notin Queries \cup {"GetContent", "GetClaim"},
         NEW output, NEW a \in Answers
  PROVE  Hears(ReadTyped(op, a), fn, op, output, a)
<1> DEFINE t == ReadTyped(op, a)
<1>1. CASE Undecodable(op, a)
  BY <1>1, NothingIs DEF ReadTyped, Hears, Failed, Told
<1>2. CASE ~Undecodable(op, a) /\ Takes(fn, op, a)
  BY <1>2, ValueIs DEF ReadTyped, Hears, Takes, Queries
<1>3. CASE ~Undecodable(op, a) /\ ~Takes(fn, op, a)
  BY <1>3, RefusalIs DEF ReadTyped, Hears, Takes, Queries
<1> QED  BY <1>1, <1>2, <1>3

LEMMA BodyIs ==
  ASSUME NEW fn \in Queries \cup {"GetContent", "GetClaim"}, NEW a \in Answers
  PROVE  LET t == ReadBody(fn, a) IN
         \/ t = Failed
         \/ t = Told("value", "none", a) /\ a.status = 200 /\ (fn \in Queries => a.body = "records")
         \/ t = refusal(a) /\ a.status # 200
  BY DEF ReadBody

LEMMA ReadIs ==
  ASSUME NEW op, NEW fn \in Functions, NEW output, NEW a \in Answers,
         fn = "AdvanceClock" => op = "AdvanceDevClock"
  PROVE  /\ Hears(Read(fn, op, output, a), fn, op, output, a)
         /\ ~a.whole => Read(fn, op, output, a) = Failed
<1> DEFINE t == Read(fn, op, output, a)
<1>1. CASE ~a.whole \/ (a.body = "mangled" /\ fn = "GetClaim" /\ a.status \in Decoders[op].refusals)
  BY <1>1, NothingIs DEF Read, Hears, Failed, Told
<1>2. CASE ~(~a.whole \/ (a.body = "mangled" /\ fn = "GetClaim" /\ a.status \in Decoders[op].refusals))
  <2>1. CASE fn \in Queries
    <3>1. t = ReadResults(fn, output, a)
      BY <1>2, <2>1 DEF Read
    <3>2. CASE ReadBody(fn, a).kind # "value" \/ fn = "QueryRaw"
      <4>1. t = ReadBody(fn, a)
        BY <3>1, <3>2 DEF ReadResults
      <4> HIDE DEF t
      <4>2. CASE t = Failed
        BY <1>2, <4>2, FailureIs DEF t
      <4>3. CASE t = Told("value", "none", a) /\ a.status = 200 /\ a.body = "records"
        <5>1. fn = "QueryRaw"
          BY <3>2, <4>1, <4>3, ValueIs
        <5> QED  BY <1>2, <4>3, <5>1, ValueIs DEF Hears, Takes, Queries, t
      <4>4. CASE t = refusal(a) /\ a.status # 200
        BY <1>2, <2>1, <4>4, RefusalIs DEF Hears, t
      <4> QED  BY <2>1, <4>1, <4>2, <4>3, <4>4, BodyIs
    <3>3. CASE ReadBody(fn, a).kind = "value" /\ fn # "QueryRaw"
      <4> DEFINE kinds == KindsRead(fn, output, a)
      <4>1. \/ t = Failed
            \/ "unknown" \notin kinds /\ t = [ReadBody(fn, a) EXCEPT !.kinds = kinds]
        BY <3>1, <3>3 DEF ReadResults
      <4>2. kinds \subseteq {"ClaimId", "PathId", "ClaimEncoded", "ClaimEnvelope", "Report", "unknown"}
        BY KindsAre DEF KindsRead
      <4>3. ReadBody(fn, a) = Told("value", "none", a) /\ a.status = 200 /\ a.body = "records"
        BY <2>1, <3>3, BodyIs, RefusalIs DEF Failed, Told
      <4> HIDE DEF kinds, t
      <4>4. CASE t = Failed
        BY <1>2, <4>4, NothingIs DEF Hears, Failed, Told, t
      <4>5. CASE "unknown" \notin kinds /\ t = [Told("value", "none", a) EXCEPT !.kinds = kinds]
        <5>1. /\ t \in Results /\ t.kind = "value" /\ Carries(t, a) /\ t.kinds = kinds
          BY <4>2, <4>5 DEF Told, Results, Carries, Answers
        <5> QED  BY <1>2, <2>1, <4>3, <5>1 DEF Hears, Takes, t, kinds
      <4> QED  BY <4>1, <4>3, <4>4, <4>5
    <3> QED  BY <3>2, <3>3
  <2>2. CASE fn \in {"GetContent", "GetClaim"}
    <3>1. t = ReadBody(fn, a)
      BY <1>2, <2>2 DEF Read, Streamed, Queries
    <3> HIDE DEF t
    <3>2. CASE t = Failed
      BY <1>2, <3>2, FailureIs DEF t
    <3>3. CASE t = Told("value", "none", a) /\ a.status = 200
      BY <1>2, <2>2, <3>3, ValueIs DEF Hears, Takes, Queries, t
    <3>4. CASE t = refusal(a) /\ a.status # 200
      BY <1>2, <2>2, <3>4, RefusalIs DEF Hears, t
    <3> QED  BY <2>2, <3>1, <3>2, <3>3, <3>4, BodyIs
  <2>3. CASE fn \notin Queries \cup {"GetContent", "GetClaim"}
    <3>1. CASE fn # "AdvanceClock"
      <4>1. t = ReadTyped(op, a)
        BY <1>2, <2>3, <3>1 DEF Read, Streamed
      <4> QED  BY <1>2, <2>3, <4>1, TypedIs
    <3>2. CASE fn = "AdvanceClock"
      <4> DEFINE r == ReadTyped("AdvanceDevClock", a)
      <4>1. \/ t = r
            \/ r.kind = "refused" /\ t = Told("unavailable", r.sentinel, a)
        BY <1>2, <2>3, <3>2 DEF Read, Streamed, AdvanceClock
      <4>2. Hears(r, fn, op, output, a)
        BY <2>3, <3>2, TypedIs
      <4> HIDE DEF r, t
      <4>3. CASE t = r
        BY <1>2, <4>2, <4>3 DEF t
      <4>4. CASE r.kind = "refused" /\ t = Told("unavailable", r.sentinel, a)
        <5>1. r # Failed
          BY <4>4, FailureIs
        <5>2. /\ r.sentinel = Unwrap(a) /\ r.sentinel \in Categories \cup {"none"}
              /\ ~Takes(fn, op, a)
          BY <2>3, <4>2, <4>4, <5>1 DEF Hears, Results
        <5>3. t \in Results /\ t.kind = "unavailable" /\ t.sentinel = r.sentinel /\ Carries(t, a)
          BY <4>4, <5>2 DEF Told, Results, Carries, Answers
        <5> QED  BY <1>2, <2>3, <5>2, <5>3 DEF Hears, t
      <4> QED  BY <4>1, <4>3, <4>4
    <3> QED  BY <3>1, <3>2
  <2> QED  BY <2>1, <2>2, <2>3
<1> QED  BY <1>1, <1>2

-----------------------------------------------------------------------------
(* The invariant, caller by caller.                                        *)

TellsDecision(c) ==
    phase[c] = "told" /\ told[c].from = "server" =>
       IF told[c].kind = "value" THEN decided[c].outcome = "done"
       ELSE /\ decided[c].outcome # "done"
            /\ told[c].sentinel = byCode(decided[c].outcome)

TellsResults(c) ==
    told[c].kind = "value" /\ ask[c].fn \in {"Query", "QueryClaims"} =>
       /\ told[c].kinds \subseteq {KindOf(ask[c].output), "Report"}
       /\ told[c].count <= decided[c].count
       /\ told[c].report <=> "Report" \in told[c].kinds
       /\ told[c].report => told[c].count = decided[c].count

TellsGranted(c) ==
    (told[c].kind = "value" \/ (told[c].kind = "raw" /\ told[c].status \in {200, 304}))
      /\ told[c].from = "server" /\ decided[c].scope # "none" =>
        c \in Known /\ <<c, decided[c].scope>> \in Readers

TellsCurrent(c) ==
    told[c].kind = "raw" /\ told[c].status = 304 /\ ask[c].op \notin Contents => Stands(c)

Tells(c) ==
    /\ c \in Clients => TellsDecision(c) /\ TellsResults(c)
    /\ TellsGranted(c)
    /\ c \in Others => TellsCurrent(c)

Fits(c) == AskFits(c) /\ RunFits(c) /\ AnswerFits(c) /\ TellFits(c) /\ Tells(c)

LEMMA Apart ==
  ASSUME IInv
  PROVE  TypeOK /\ \A c \in Callers : Fits(c)
<1>1. \A c \in Callers : Tells(c)
  BY DEF IInv, Tells, TellsDecision, TellsResults, TellsGranted, TellsCurrent, ToldIsDecided,
         ResultsReadBack, ReadsAreGranted, RevalidatedIsCurrent
<1> QED  BY <1>1 DEF IInv, Fits

Same(c) ==
    /\ phase'[c] = phase[c] /\ ask'[c] = ask[c] /\ decided'[c] = decided[c]
    /\ answer'[c] = answer[c] /\ told'[c] = told[c]

LEMMA Kept ==
  ASSUME NEW c \in Callers, Fits(c), Same(c)
  PROVE  Fits(c)'
<1>1. AskFits(c)'
  BY DEF Fits, Same, AskFits, Validates
<1>2. RunFits(c)'
  BY DEF Fits, Same, RunFits
<1>3. Length(c)' = Length(c) /\ InParts(c)' = InParts(c)
  BY DEF Same, Length, InParts
<1>4. AnswerFits(c)'
  BY <1>3 DEF Fits, Same, AnswerFits, Refuses, Serves, Interposes
<1>5. TellFits(c)'
  BY DEF Fits, Same, TellFits, Validates
<1>6. Tells(c)'
  BY DEF Fits, Same, Tells, TellsDecision, TellsResults, TellsGranted, TellsCurrent, Stands
<1> QED  BY <1>1, <1>2, <1>4, <1>5, <1>6 DEF Fits

\* A step of one caller leaves the others' ways alone.
LEMMA StepOf ==
  ASSUME IInv, TypeOK', NEW c \in Callers, \A d \in Callers \ {c} : Same(d), Fits(c)'
  PROVE  IInv'
<1>1. \A d \in Callers : Fits(d)'
  BY Apart, Kept
<1>2. \A d \in Callers : AskFits(d)' /\ RunFits(d)' /\ AnswerFits(d)' /\ TellFits(d)' /\ Tells(d)'
  BY <1>1 DEF Fits
<1>3. ToldIsDecided'
  BY <1>2 DEF Tells, TellsDecision, ToldIsDecided, Callers
<1>4. ResultsReadBack'
  BY <1>2 DEF Tells, TellsResults, ResultsReadBack, Callers
<1>5. ReadsAreGranted'
  BY <1>2 DEF Tells, TellsGranted, ReadsAreGranted
<1>6. RevalidatedIsCurrent'
  BY <1>2 DEF Tells, TellsCurrent, RevalidatedIsCurrent, Callers
<1> QED  BY <1>2, <1>3, <1>4, <1>5, <1>6 DEF IInv

LEMMA Untold ==
  ASSUME NEW c \in Callers, told'[c] = Nothing
  PROVE  TellFits(c)' /\ Tells(c)'
<1>1. /\ told'[c].kind = "none" /\ told'[c].from = "nobody"
  BY DEF Nothing, Told, NoAnswer, Answer
<1> QED  BY <1>1 DEF TellFits, Tells, TellsDecision, TellsResults, TellsGranted, TellsCurrent

\* Until its call is over a caller has been told nothing.
LEMMA NotYetTold ==
  ASSUME IInv, NEW c \in Callers, phase[c] # "told"
  PROVE  told[c] = Nothing
  BY Apart DEF Fits, TellFits

-----------------------------------------------------------------------------
(* Asking.                                                                 *)

Fitting(c, a) ==
    /\ a \in Asks /\ a.op \in Operations /\ a.id \in Ids
    /\ a.report => a.op = "Query"
    /\ \A h \in a.held : Validates(h.tag, a, h.count)
    /\ c \in Clients =>
          /\ a.fn \in Functions /\ a.op = OperationOf(a.fn, a.scope)
          /\ a.formed /\ ~a.several /\ a.held = {} /\ ~a.any
          /\ a.fn \in {"Query", "QueryClaims"} => routesAreReadable(a.output)

LEMMA SendStep ==
  ASSUME IInv, NEW c \in Callers, NEW a, Fitting(c, a), Sends(c, a),
         polls' \in [Callers -> 0..MaxPolls]
  PROVE  IInv'
<1>1. TypeOK
  BY Apart
<1>2. TypeOK'
  BY <1>1, NothingIs DEF TypeOK, Sends, Fitting
<1>3. \A d \in Callers \ {c} : Same(d)
  BY <1>1 DEF TypeOK, Sends, Same
<1>4. /\ phase'[c] = "sent" /\ ask'[c] = a /\ decided'[c] = NotRun
      /\ answer'[c] = NoAnswer /\ told'[c] = Nothing
  BY <1>1 DEF TypeOK, Sends
<1>5. AskFits(c)'
  BY <1>4 DEF AskFits, Fitting, Validates
<1>6. RunFits(c)' /\ AnswerFits(c)'
  BY <1>4 DEF RunFits, AnswerFits
<1>7. TellFits(c)' /\ Tells(c)'
  BY <1>4, Untold
<1>8. Fits(c)'
  BY <1>5, <1>6, <1>7 DEF Fits
<1> QED  BY <1>2, <1>3, <1>8, StepOf

LEMMA CallStep ==
  ASSUME IInv, NEW c \in Callers, Call(c)
  PROVE  IInv'
<1>1. PICK fn \in Functions, id \in Ids, report \in BOOLEAN :
        /\ fn \notin {"Query", "QueryRaw"} => ~report
        /\ \E scope \in IF fn \in ByScope THEN Scopes ELSE {"none"},
              output \in CASE fn = "Query" -> {o \in Outputs : routesAreReadable(o)}
                           [] fn = "QueryRaw" -> Outputs
                           [] OTHER -> {QueryClaimsOutput} :
              Sends(c, [NoAsk EXCEPT !.fn = fn, !.op = OperationOf(fn, scope), !.scope = scope,
                                     !.id = id, !.output = output, !.report = report])
        /\ polls' = [polls EXCEPT ![c] = IF fn = "WaitReady" THEN MaxPolls ELSE 0]
  BY DEF Call
<1>2. PICK scope \in IF fn \in ByScope THEN Scopes ELSE {"none"},
           output \in CASE fn = "Query" -> {o \in Outputs : routesAreReadable(o)}
                        [] fn = "QueryRaw" -> Outputs
                        [] OTHER -> {QueryClaimsOutput} :
           Sends(c, [NoAsk EXCEPT !.fn = fn, !.op = OperationOf(fn, scope), !.scope = scope,
                                  !.id = id, !.output = output, !.report = report])
  BY <1>1
<1> DEFINE a == [NoAsk EXCEPT !.fn = fn, !.op = OperationOf(fn, scope), !.scope = scope,
                              !.id = id, !.output = output, !.report = report]
<1>3. output \in Outputs /\ (fn \in {"Query", "QueryClaims"} => routesAreReadable(output))
  <2>1. QueryClaimsOutput \in Outputs /\ routesAreReadable(QueryClaimsOutput)
    BY DEF QueryClaimsOutput, Outputs, routesAreReadable
  <2>2. CASE fn = "Query"
    BY <1>2, <2>2
  <2>3. CASE fn = "QueryRaw"
    BY <1>2, <2>3
  <2>4. CASE fn \notin {"Query", "QueryRaw"}
    BY <1>2, <2>1, <2>4
  <2> QED  BY <2>2, <2>3, <2>4
<1>4. scope \in Scopes \cup {"none"}
  BY <1>2
<1>5. OperationOf(fn, scope) \in Operations /\ (fn \in Queries <=> OperationOf(fn, scope) = "Query")
  BY FunctionAsks
<1>6. /\ a.fn = fn /\ a.op = OperationOf(fn, scope) /\ a.scope = scope /\ a.id = id
      /\ a.output = output /\ a.report = report /\ a.formed = TRUE /\ a.several = FALSE
      /\ a.held = {} /\ a.any = FALSE
  BY DEF NoAsk
<1>7. a \in Asks
  BY <1>3, <1>4, <1>5, NothingIs DEF Asks, Named
<1>8. polls' \in [Callers -> 0..MaxPolls]
  BY <1>1, Apart, ExchangeAssumption DEF TypeOK
<1>9. Sends(c, a)
  BY <1>2
<1> HIDE DEF a
<1>10. Fitting(c, a)
  BY <1>1, <1>3, <1>5, <1>6, <1>7 DEF Fitting, Queries
<1> QED  BY <1>8, <1>9, <1>10, SendStep

LEMMA RequestStep ==
  ASSUME IInv, NEW c \in Callers, Request(c)
  PROVE  IInv'
<1>1. PICK op \in Operations, id \in Ids, formed \in BOOLEAN, several \in BOOLEAN :
        \E scope \in IF op \in OpsByScope THEN Scopes ELSE {"none"},
           any \in IF op \in Contents \cup ClaimReads \cup Revalidated THEN BOOLEAN ELSE {FALSE} :
           Sends(c, [NoAsk EXCEPT !.op = op, !.scope = scope, !.id = id, !.any = any,
                                  !.formed = formed, !.several = several])
  BY DEF Request
<1>2. PICK scope \in IF op \in OpsByScope THEN Scopes ELSE {"none"},
           any \in IF op \in Contents \cup ClaimReads \cup Revalidated THEN BOOLEAN ELSE {FALSE} :
         Sends(c, [NoAsk EXCEPT !.op = op, !.scope = scope, !.id = id, !.any = any,
                                !.formed = formed, !.several = several])
  BY <1>1
<1> DEFINE a == [NoAsk EXCEPT !.op = op, !.scope = scope, !.id = id, !.any = any,
                              !.formed = formed, !.several = several]
<1>3. scope \in Scopes \cup {"none"} /\ any \in BOOLEAN
  BY <1>2
<1>4. a.op = op /\ a.id = id /\ a.report = FALSE /\ a.held = {}
  BY DEF NoAsk
<1>5. a \in Asks
  BY <1>3, NothingIs DEF Asks, Named
<1>6. c \notin Clients
  BY ExchangeAssumption DEF Request
<1>7. polls' \in [Callers -> 0..MaxPolls]
  BY Apart DEF Request, TypeOK
<1>8. Sends(c, a)
  BY <1>2
<1> HIDE DEF a
<1>9. Fitting(c, a)
  BY <1>4, <1>5, <1>6 DEF Fitting
<1> QED  BY <1>7, <1>8, <1>9, SendStep

LEMMA RevalidateStep ==
  ASSUME IInv, NEW c \in Callers, Revalidate(c)
  PROVE  IInv'
<1>0. PICK any \in BOOLEAN : Sends(c, [ask[c] EXCEPT !.held = Holding(@, told[c]), !.any = any])
  BY DEF Revalidate
<1> DEFINE holds == Holding(ask[c].held, told[c])
           a == [ask[c] EXCEPT !.held = holds, !.any = any]
<1>1. TypeOK /\ AskFits(c) /\ TellFits(c)
  BY Apart DEF Fits
<1>2. ask[c] \in Asks /\ told[c] \in Results
  BY <1>1 DEF TypeOK
<1>3. /\ a.op = ask[c].op /\ a.id = ask[c].id /\ a.report = ask[c].report /\ a.held = holds
  BY <1>2 DEF Asks
<1>4. a \in Asks
  <2>1. holds \in SUBSET [tag : Tags, count : Nat]
    BY <1>2 DEF Asks, Results, Holding
  <2> HIDE DEF holds
  <2> QED  BY <1>2, <2>1 DEF Asks
<1>5. Validates(told[c].tag, ask[c], told[c].count) /\ c \notin Clients
  BY <1>1, ExchangeAssumption DEF Revalidate, TellFits
<1>6. /\ ask[c].op \in Operations /\ ask[c].id \in Ids
      /\ ask[c].report => ask[c].op = "Query"
      /\ \A h \in ask[c].held : Validates(h.tag, ask[c], h.count)
  BY <1>1 DEF Revalidate, AskFits
<1>7. \A h \in holds : Validates(h.tag, ask[c], h.count)
  <2>1. ASSUME NEW h \in holds PROVE Validates(h.tag, ask[c], h.count)
    <3>1. h \in ask[c].held \/ h = [tag |-> told[c].tag, count |-> told[c].count]
      BY DEF Holding
    <3> QED  BY <1>5, <1>6, <3>1
  <2> QED  BY <2>1
<1>8. polls' \in [Callers -> 0..MaxPolls]
  BY <1>1 DEF Revalidate, TypeOK
<1>9. Sends(c, a)
  BY <1>0
<1> HIDE DEF a, holds
<1>10. Fitting(c, a)
  BY <1>3, <1>4, <1>5, <1>6, <1>7 DEF Fitting, Validates
<1> QED  BY <1>8, <1>9, <1>10, SendStep

LEMMA ForgetStep ==
  ASSUME IInv, NEW c \in Callers, Forget(c)
  PROVE  IInv'
<1>1. TypeOK
  BY Apart
<1>2. TypeOK'
  BY <1>1, NothingIs, ExchangeAssumption DEF TypeOK, Forget
<1>3. \A d \in Callers \ {c} : Same(d)
  BY <1>1 DEF TypeOK, Forget, Same
<1>4. phase'[c] = "idle" /\ decided'[c] = NotRun /\ told'[c] = Nothing
  BY <1>1 DEF TypeOK, Forget
<1>5. Fits(c)'
  BY <1>4, Untold DEF Fits, AskFits, RunFits, AnswerFits
<1> QED  BY <1>2, <1>3, <1>5, StepOf

-----------------------------------------------------------------------------
(* Answering.                                                              *)

LEMMA RespondToId ==
  ASSUME NEW op, NEW id, NEW n, NEW a
  PROVE  respond(op, IdOf(op, id), n, a) = respond(op, id, n, a)
<1>1. Etag(op, IdOf(op, id), n) = Etag(op, id, n)
  BY DEF Etag, IdOf
<1> QED  BY <1>1 DEF respond

LEMMA RespondIs ==
  ASSUME NEW op \in Operations, NEW id \in Ids, NEW n \in Nat, NEW q,
         NEW r, r = respond(op, id, n, q)
  PROVE  /\ r \in Answers /\ r.from = "server" /\ r.code = "none" /\ ~r.dated
         /\ r.tag = Etag(op, id, n) /\ ~r.report
         /\ \/ /\ r.status = 304 /\ r.count = n /\ r.body = "none"
               /\ matches(q, r.tag) /\ r.tag # << >>
            \/ /\ r.status = Decoders[op].success
               /\ r.body = IF op = "Query" THEN "records"
                           ELSE IF op = "DeleteVerification" THEN "none" ELSE "value"
               /\ r.count = IF op \in Contents \cup {"Query"} THEN 0 ELSE n
<1> DEFINE tag == Etag(op, id, n)
           body == IF op = "Query" THEN "records"
                   ELSE IF op = "DeleteVerification" THEN "none" ELSE "value"
           count == IF op \in Contents \cup {"Query"} THEN 0 ELSE n
<1>3. tag \in Tags
  BY EtagIs
<1>4. Decoders[op].success \in Nat
  BY DecodersAre
<1>5. body \in {"records", "none", "value"} /\ count \in Nat
  OBVIOUS
<1>6. r = IF tag # << >> /\ matches(q, tag)
          THEN Answer("server", 304, "none", "none", tag, n)
          ELSE Answer("server", Decoders[op].success, body, "none", tag, count)
  BY DEF respond
<1> HIDE DEF tag, body, count
<1>7. CASE tag # << >> /\ matches(q, tag)
  <2>1. r = Answer("server", 304, "none", "none", tag, n)
    BY <1>6, <1>7
  <2>2. r \in Answers
    <3> DEFINE notModified == 304
    <3>1. "server" \in Senders /\ notModified \in Nat
      BY DEF Senders
    <3>2. r = Answer("server", notModified, "none", "none", tag, n)
      BY <2>1
    <3> HIDE DEF notModified
    <3> QED  BY <1>3, <3>1, <3>2, AnswerIs
  <2>3. /\ r.from = "server" /\ r.code = "none" /\ ~r.dated /\ r.tag = tag
        /\ ~r.report /\ r.status = 304 /\ r.count = n /\ r.body = "none"
    BY <2>1 DEF Answer
  <2> QED  BY <1>7, <2>2, <2>3 DEF tag
<1>8. CASE ~(tag # << >> /\ matches(q, tag))
  <2>1. r = Answer("server", Decoders[op].success, body, "none", tag, count)
    BY <1>6, <1>8
  <2>2. r \in Answers
    BY <2>1, <1>3, <1>4, <1>5, AnswerIs DEF Senders
  <2>3. /\ r.from = "server" /\ r.code = "none" /\ ~r.dated /\ r.tag = tag
        /\ ~r.report /\ r.status = Decoders[op].success
        /\ r.count = count /\ r.body = body
    BY <2>1 DEF Answer
  <2> QED  BY <2>2, <2>3 DEF tag, body, count
<1> QED  BY <1>7, <1>8

LEMMA WriteErrorIs ==
  ASSUME NEW category \in Categories \cup {"internal"}
  PROVE  LET e == writeError(category) IN
         /\ e \in Answers /\ e.from = "server" /\ e.code = category /\ e.body = "contract"
         /\ e.tag = << >> /\ e.status \in {400, 401, 403, 404, 409, 429, 500, 501}
         /\ ~e.dated
<1>1. httpStatus(category) \in {400, 401, 403, 404, 409, 429, 500, 501}
  BY StatusIs
<1>2. << >> \in Tags /\ "server" \in Senders
  BY DEF Tags, Senders
<1> DEFINE status == httpStatus(category)
<1>3. status \in Nat
  BY <1>1
<1> HIDE DEF status
<1>4. Answer("server", status, "contract", category, << >>, 0) \in Answers
  BY <1>2, <1>3, AnswerIs
<1>5. writeError(category) \in Answers
  BY <1>4 DEF writeError, status
<1> QED  BY <1>1, <1>5 DEF writeError, Answer

LEMMA LengthIs ==
  ASSUME NEW c \in Callers, decided[c].count \in Nat
  PROVE  /\ Length(c) \in Nat
         /\ RecordsOf(KindOf(Pinned(ask[c].output)), RouteLength) = 1 => Length(c) = decided[c].count
<1> DEFINE k == RecordsOf(KindOf(Pinned(ask[c].output)), RouteLength)
<1>1. k \in Nat
  BY ExchangeAssumption DEF RecordsOf
<1>2. Length(c) = IF ask[c].op = "Query" THEN decided[c].count * k ELSE decided[c].count
  BY DEF Length
<1> HIDE DEF k
<1>3. decided[c].count * k \in Nat /\ (k = 1 => decided[c].count * k = decided[c].count)
  BY <1>1
<1> QED  BY <1>2, <1>3 DEF k

LEMMA RefuseEarlyStep ==
  ASSUME IInv, NEW c \in Callers, RefuseEarly(c)
  PROVE  IInv'
<1> DEFINE e == writeError(IF ask[c].several THEN "invalid" ELSE Malformed(ask[c].op))
<1>1. TypeOK /\ AskFits(c) /\ RunFits(c) /\ told[c] = Nothing
  BY Apart, NotYetTold DEF Fits, RefuseEarly
<1>2. /\ e \in Answers /\ e = writeError(e.code) /\ e.from = "server"
      /\ e.code \in Categories \cup {"internal"}
  BY WriteErrorIs DEF Malformed, Categories
<1>3. c \notin Clients
  BY <1>1 DEF AskFits, RefuseEarly
<1>4. answer' = [answer EXCEPT ![c] = e] /\ phase' = [phase EXCEPT ![c] = "answered"]
  BY DEF RefuseEarly, Reply
<1> HIDE DEF e
<1>5. TypeOK'
  BY <1>1, <1>2, <1>4 DEF TypeOK, RefuseEarly
<1>6. \A d \in Callers \ {c} : Same(d)
  BY <1>1, <1>4 DEF TypeOK, RefuseEarly, Same
<1>7. /\ phase'[c] = "answered" /\ answer'[c] = e /\ ask'[c] = ask[c] /\ decided'[c] = decided[c]
      /\ told'[c] = Nothing /\ phase[c] = "sent"
  BY <1>1, <1>4 DEF TypeOK, RefuseEarly
<1>8. AskFits(c)' /\ RunFits(c)'
  BY <1>1, <1>7 DEF AskFits, RunFits
<1>9. AnswerFits(c)'
  BY <1>2, <1>3, <1>7 DEF AnswerFits, Refuses
<1>10. Fits(c)'
  BY <1>7, <1>8, <1>9, Untold DEF Fits
<1> QED  BY <1>5, <1>6, <1>10, StepOf

LEMMA HandleStep ==
  ASSUME IInv, NEW c \in Callers, Handle(c)
  PROVE  IInv'
<1> DEFINE a == ask[c]
           req == RunOf(a)
<1>1. TypeOK /\ AskFits(c) /\ told[c] = Nothing /\ phase[c] = "sent"
  BY Apart, NotYetTold DEF Fits, Handle
<1>2. a \in Asks /\ a.op \in Operations /\ a.id \in Ids
  BY <1>1 DEF TypeOK, AskFits
<1>3. RoutesOf(Wire(a)) = {a.op}
  BY <1>2, Routed DEF Wire
<1>4. req = CoreRequest(CoreOf[a.op], ScopeOf(a.op, a.scope), IdOf(a.op, a.id))
  BY <1>2, HandledIs
<1>5. /\ req.core \in Cores /\ req.scope \in Scopes \cup {"none"} /\ req.id \in Named
      /\ req.id = IdOf(a.op, a.id)
  <2>1. ScopeOf(a.op, a.scope) \in Scopes \cup {"none"} /\ IdOf(a.op, a.id) \in Named
    BY <1>2 DEF ScopeOf, IdOf, Asks, Named, Scopes
  <2> QED  BY <1>2, <1>4, <2>1, CoresAre DEF CoreRequest
<1>6. PICK outcome \in Outcomes(c, req), n \in Counts(a.op) :
        /\ Runs(c, a.op, req, outcome, n)
        /\ IF outcome # "done" THEN Reply(c, writeError(outcome))
           ELSE LET r == respond(a.op, req.id, n, a)
                IN  /\ answer' = [answer EXCEPT ![c] = r]
                    /\ phase' = [phase EXCEPT ![c] =
                          IF a.op \in Contents \cup {"Query"} /\ r.status = 200
                          THEN "streaming" ELSE "answered"]
  <2>1. Executes(c, a.op, RunOf(a))
    BY <1>3 DEF Handle, RunOf
  <2> QED  BY <2>1 DEF Executes
<1>6a. /\ a.op = "Query" /\ outcome = "done" => EngineAccepts(Pinned(a.output))
       /\ decided' = [decided EXCEPT ![c] =
             [core |-> req.core, scope |-> req.scope, id |-> req.id,
              outcome |-> outcome, count |-> n]]
       /\ version' \in {version, version + 1} /\ (version' # version => version < MaxVersion)
  BY <1>6 DEF Runs
<1>7. n \in Nat /\ (a.op \in ClaimReads => n = 0)
  BY <1>1, <1>6, <1>6a, ExchangeAssumption DEF Counts, TypeOK, ClaimReads, Contents, Revalidated
<1> DEFINE d == [core |-> req.core, scope |-> req.scope, id |-> req.id,
                 outcome |-> outcome, count |-> n]
<1>8. d \in Decisions /\ d.outcome = outcome /\ d.count = n /\ d.core = req.core
      /\ d.scope = req.scope /\ d.id = req.id
  <2>1. outcome \in {"none", "done", "unauthenticated"} \cup LibErrors
    BY <1>6, <1>6a, OutcomesAre
  <2> HIDE DEF req
  <2> QED  BY <1>5, <1>7, <2>1 DEF Decisions
<1>9. version' \in 0..MaxVersion
  BY <1>1, <1>6, <1>6a, ExchangeAssumption DEF TypeOK
<1>10. PICK r \in Answers, p \in {"streaming", "answered"} :
         /\ answer' = [answer EXCEPT ![c] = r] /\ phase' = [phase EXCEPT ![c] = p]
         /\ r.from = "server"
         /\ IF outcome # "done" THEN r = writeError(outcome) /\ p = "answered"
            ELSE /\ r = respond(a.op, a.id, n, a)
                 /\ p = "streaming" <=> a.op \in Contents \cup {"Query"} /\ r.status = 200
  <2>1. CASE outcome # "done"
    <3>1. outcome \in Categories \cup {"internal"}
      BY <1>6, <1>6a, <2>1, OutcomesAre
    <3> QED  BY <1>6, <1>6a, <2>1, <3>1, WriteErrorIs DEF Reply
  <2>2. CASE outcome = "done"
    <3> HIDE DEF req
    <3> HIDE DEF a
    <3> DEFINE q == respond(a.op, a.id, n, a)
    <3>1. q \in Answers /\ q.from = "server"
      BY <1>2, <1>7, RespondIs
    <3>2. respond(a.op, req.id, n, a) = q
      BY <1>5, RespondToId
    <3> HIDE DEF q
    <3> QED  BY <1>6, <1>6a, <2>2, <3>1, <3>2 DEF q
  <2> QED  BY <2>1, <2>2
<1> HIDE DEF d, req
<1>11. decided' = [decided EXCEPT ![c] = d]
  BY <1>6, <1>6a DEF d
<1>12. TypeOK'
  BY <1>1, <1>8, <1>9, <1>10, <1>11 DEF TypeOK, Handle
<1>13. \A e \in Callers \ {c} : Same(e)
  BY <1>1, <1>10, <1>11 DEF TypeOK, Handle, Same
<1>14. /\ phase'[c] = p /\ answer'[c] = r /\ ask'[c] = a /\ decided'[c] = d /\ told'[c] = Nothing
  BY <1>1, <1>10, <1>11 DEF TypeOK, Handle
<1>15. AskFits(c)'
  BY <1>1, <1>14 DEF AskFits
<1>16. RunFits(c)'
  BY <1>6, <1>6a, <1>7, <1>8, <1>14 DEF RunFits, req
<1>17. AnswerFits(c)'
  <2>1. CASE outcome # "done"
    <3>1. outcome \in Categories \cup {"internal"}
      BY <1>6, <1>6a, <2>1, OutcomesAre
    <3>2. r = writeError(r.code) /\ r.code = outcome
      <4>1. writeError(outcome).code = outcome
        BY <3>1, WriteErrorIs
      <4> QED  BY <1>10, <2>1, <4>1
    <3> QED  BY <1>8, <1>10, <1>14, <2>1, <3>1, <3>2 DEF AnswerFits, Refuses
  <2>2. CASE outcome = "done"
    <3>1. r = respond(a.op, a.id, n, a)
      BY <1>10, <2>2
    <3>2. /\ r.code = "none" /\ ~r.dated /\ ~r.report
          /\ IF a.op \in Contents \cup {"Query"} /\ r.status = 200 THEN r.count = 0 ELSE r.count = n
      <4>1. a.op \in Contents \cup {"Query"} => Decoders[a.op].success = 200
        BY <1>2, DecodersAre
      <4>2. /\ r.code = "none" /\ ~r.dated /\ ~r.report
            /\ \/ r.status = 304 /\ r.count = n
               \/ /\ r.status = Decoders[a.op].success
                  /\ r.count = IF a.op \in Contents \cup {"Query"} THEN 0 ELSE n
        BY <1>2, <1>7, <3>1, RespondIs
      <4> QED  BY <4>1, <4>2
    <3>3. Length(c)' \in Nat
      <4>1. decided'[c].count \in Nat
        BY <1>7, <1>8, <1>14
      <4> DEFINE k == RecordsOf(KindOf(Pinned(ask'[c].output)), RouteLength)
      <4>2. k \in Nat
        BY ExchangeAssumption DEF RecordsOf
      <4>3. Length(c)' = IF ask'[c].op = "Query" THEN decided'[c].count * k ELSE decided'[c].count
        BY DEF Length
      <4> HIDE DEF k
      <4> QED  BY <4>1, <4>2, <4>3
    <3>4. InParts(c)' <=> a.op \in Contents \cup {"Query"} /\ r.status = 200
      BY <1>14 DEF InParts
    <3>5. Serves(c)'
      BY <1>8, <1>14, <2>2, <3>1, <3>2, <3>3, <3>4 DEF Serves
    <3>6. p = "streaming" <=> a.op \in Contents \cup {"Query"} /\ r.status = 200
      BY <1>10, <2>2
    <3> QED  BY <1>10, <1>14, <3>4, <3>5, <3>6 DEF AnswerFits
  <2> QED  BY <2>1, <2>2
<1>18. Fits(c)'
  BY <1>14, <1>15, <1>16, <1>17, Untold DEF Fits
<1> QED  BY <1>12, <1>13, <1>18, StepOf

\* What core runs once nobody waits for it is still the request that was asked, and
\* changes nothing that was told.
LEMMA LateRunStep ==
  ASSUME IInv, NEW c \in Callers, LateRun(c)
  PROVE  IInv'
<1> DEFINE a == ask[c]
           req == RunOf(a)
<1>1. /\ TypeOK /\ Fits(c) /\ phase[c] = "told" /\ told[c].from # "server"
      /\ decided[c] = NotRun
  BY Apart DEF LateRun
<1>2. a \in Asks /\ a.op \in Operations /\ a.id \in Ids
  BY <1>1 DEF TypeOK, Fits, AskFits
<1>3. RoutesOf(Wire(a)) = {a.op}
  BY <1>2, Routed DEF Wire
<1>4. req = CoreRequest(CoreOf[a.op], ScopeOf(a.op, a.scope), IdOf(a.op, a.id))
  BY <1>2, HandledIs
<1>5. /\ req.core \in Cores /\ req.scope \in Scopes \cup {"none"} /\ req.id \in Named
  <2>1. ScopeOf(a.op, a.scope) \in Scopes \cup {"none"} /\ IdOf(a.op, a.id) \in Named
    BY <1>2 DEF ScopeOf, IdOf, Asks, Named, Scopes
  <2> QED  BY <1>2, <1>4, <2>1, CoresAre DEF CoreRequest
<1>6. PICK outcome \in Outcomes(c, req), n \in Counts(a.op) : Runs(c, a.op, req, outcome, n)
  BY <1>3 DEF LateRun, RunOf
<1>7. n \in Nat /\ (a.op \in ClaimReads => n = 0)
  BY <1>1, <1>6, ExchangeAssumption DEF Counts, TypeOK, ClaimReads, Contents, Revalidated
<1> DEFINE d == [core |-> req.core, scope |-> req.scope, id |-> req.id,
                 outcome |-> outcome, count |-> n]
<1>8. d \in Decisions /\ d.outcome = outcome /\ d.count = n /\ d.core = req.core
      /\ d.scope = req.scope /\ d.id = req.id
  <2>1. outcome \in {"none", "done", "unauthenticated"} \cup LibErrors
    BY <1>6, OutcomesAre
  <2> HIDE DEF req
  <2> QED  BY <1>5, <1>7, <2>1 DEF Decisions
<1>9. /\ decided' = [decided EXCEPT ![c] = d] /\ version' \in {version, version + 1}
      /\ version' # version => version < MaxVersion
      /\ a.op = "Query" /\ outcome = "done" => EngineAccepts(Pinned(a.output))
  BY <1>6 DEF Runs
<1> HIDE DEF d, req
<1>10. version' \in 0..MaxVersion
  BY <1>1, <1>9, ExchangeAssumption DEF TypeOK
<1>11. UNCHANGED <<up, phase, ask, answer, told, polls>>
  BY DEF LateRun
<1>12. TypeOK'
  BY <1>1, <1>8, <1>9, <1>10, <1>11 DEF TypeOK
<1>13. \A e \in Callers \ {c} : Same(e)
  BY <1>1, <1>9, <1>11 DEF TypeOK, Same
<1>14. decided'[c] = d
  BY <1>1, <1>9 DEF TypeOK
<1>15. AskFits(c)'
  BY <1>1, <1>11 DEF Fits, AskFits, Validates
<1>16. RunFits(c)'
  BY <1>1, <1>6, <1>7, <1>8, <1>9, <1>11, <1>14 DEF RunFits, req
<1>17. AnswerFits(c)'
  BY <1>1, <1>11 DEF AnswerFits
<1>18. TellFits(c)'
  BY <1>1, <1>11 DEF Fits, TellFits, Validates
<1>19. Tells(c)'
  <2>1. ~(told[c].kind = "value" /\ a.fn \in {"Query", "QueryClaims"})
    BY <1>1 DEF Fits, TellFits
  <2>2. c \in Others => ~(told[c].kind = "raw" /\ told[c].status = 304 /\ a.op \notin Contents)
    BY <1>1 DEF Fits, Tells, TellsCurrent, Stands, NotRun
  <2> QED  BY <1>1, <1>11, <2>1, <2>2
           DEF Tells, TellsDecision, TellsResults, TellsGranted, TellsCurrent
<1> QED  BY <1>12, <1>13, <1>15, <1>16, <1>17, <1>18, <1>19, StepOf DEF Fits

\* A body that streams grows towards its length, breaks, or ends with its report.
LEMMA StreamStep ==
  ASSUME IInv, NEW c \in Callers, phase[c] = "streaming",
         NEW r \in Answers, NEW p \in {"streaming", "answered"},
         answer' = [answer EXCEPT ![c] = r], phase' = [phase EXCEPT ![c] = p],
         UNCHANGED <<up, version, ask, decided, told, polls>>,
         r.from = answer[c].from, r.status = answer[c].status, r.body = answer[c].body,
         r.code = answer[c].code, r.dated = answer[c].dated, r.tag = answer[c].tag,
         r.count <= Length(c), r.report => r.count = Length(c)
  PROVE  IInv'
<1>1. TypeOK /\ AskFits(c) /\ RunFits(c) /\ AnswerFits(c) /\ told[c] = Nothing
  BY Apart, NotYetTold DEF Fits
<1>2. TypeOK'
  BY <1>1 DEF TypeOK
<1>3. \A d \in Callers \ {c} : Same(d)
  BY <1>1 DEF TypeOK, Same
<1>4. /\ phase'[c] = p /\ answer'[c] = r /\ ask'[c] = ask[c] /\ decided'[c] = decided[c]
      /\ told'[c] = Nothing
  BY <1>1 DEF TypeOK
<1>5. AskFits(c)' /\ RunFits(c)'
  BY <1>1, <1>4 DEF AskFits, RunFits
<1>6. InParts(c) /\ Serves(c) /\ answer[c].from = "server"
  BY <1>1 DEF AnswerFits
<1>7. InParts(c)' /\ Length(c)' = Length(c)
  BY <1>4, <1>6 DEF InParts, Length
<1>8. Serves(c)'
  BY <1>4, <1>6, <1>7 DEF Serves
<1>9. AnswerFits(c)'
  BY <1>4, <1>6, <1>7, <1>8 DEF AnswerFits
<1>10. Fits(c)'
  BY <1>4, <1>5, <1>9, Untold DEF Fits
<1> QED  BY <1>2, <1>3, <1>10, StepOf

LEMMA StreamingSteps ==
  ASSUME IInv, NEW c \in Callers, WriteResult(c) \/ FailStream(c) \/ EndStream(c) \/ Cut(c)
  PROVE  IInv'
<1>1. TypeOK /\ AskFits(c) /\ RunFits(c) /\ AnswerFits(c)
  BY Apart DEF Fits
<1>2. phase[c] = "streaming"
  BY DEF WriteResult, FailStream, EndStream, Cut
<1>3. answer[c] \in Answers /\ ask[c] \in Asks /\ decided[c].count \in Nat
  BY <1>1 DEF TypeOK, Decisions
<1>4. /\ answer[c].count <= Length(c) /\ Length(c) \in Nat /\ answer[c].count \in Nat
      /\ answer[c].report => answer[c].count = Length(c)
  BY <1>1, <1>2, <1>3, LengthIs DEF AnswerFits, Serves, Answers
<1>5. CASE WriteResult(c)
  <2> DEFINE r == [answer[c] EXCEPT !.count = @ + 1]
  <2>1. r \in Answers
    BY <1>3 DEF Answers
  <2>2. /\ r.from = answer[c].from /\ r.status = answer[c].status /\ r.body = answer[c].body
        /\ r.code = answer[c].code /\ r.dated = answer[c].dated /\ r.tag = answer[c].tag
        /\ r.count = answer[c].count + 1 /\ r.report = answer[c].report
    BY <1>3 DEF Answers
  <2>3. answer' = [answer EXCEPT ![c] = r] /\ phase' = [phase EXCEPT ![c] = "streaming"]
    BY <1>1, <1>2, <1>5 DEF WriteResult, TypeOK
  <2>4. UNCHANGED <<up, version, ask, decided, told, polls>>
    BY <1>5 DEF WriteResult
  <2>5. answer[c].count < Length(c)
    BY <1>5 DEF WriteResult
  <2>6. r.count <= Length(c) /\ (r.report => r.count = Length(c))
    BY <1>4, <2>2, <2>5
  <2> HIDE DEF r
  <2> QED  BY <1>2, <2>1, <2>2, <2>3, <2>4, <2>6, StreamStep
<1>6. CASE FailStream(c)
  <2>1. /\ answer' = [answer EXCEPT ![c] = answer[c]] /\ phase' = [phase EXCEPT ![c] = "answered"]
        /\ UNCHANGED <<up, version, ask, decided, told, polls>>
    BY <1>1, <1>6 DEF FailStream, TypeOK
  <2> QED  BY <1>2, <1>3, <1>4, <2>1, StreamStep
<1>7. CASE EndStream(c)
  <2> DEFINE r == [answer[c] EXCEPT !.report = ask[c].report]
  <2>1. r \in Answers
    BY <1>3 DEF Answers, Asks
  <2>2. /\ r.from = answer[c].from /\ r.status = answer[c].status /\ r.body = answer[c].body
        /\ r.code = answer[c].code /\ r.dated = answer[c].dated /\ r.tag = answer[c].tag
        /\ r.count = answer[c].count
    BY <1>3 DEF Answers
  <2>3. /\ answer' = [answer EXCEPT ![c] = r] /\ phase' = [phase EXCEPT ![c] = "answered"]
        /\ UNCHANGED <<up, version, ask, decided, told, polls>>
    BY <1>7 DEF EndStream, Reply
  <2>4. r.count <= Length(c) /\ r.count = Length(c)
    BY <1>4, <1>7, <2>2 DEF EndStream
  <2> HIDE DEF r
  <2> QED  BY <1>2, <2>1, <2>2, <2>3, <2>4, StreamStep
<1>8. CASE Cut(c)
  <2> DEFINE r == [answer[c] EXCEPT !.whole = FALSE]
  <2>1. r \in Answers
    BY <1>3 DEF Answers
  <2>2. /\ r.from = answer[c].from /\ r.status = answer[c].status /\ r.body = answer[c].body
        /\ r.code = answer[c].code /\ r.dated = answer[c].dated /\ r.tag = answer[c].tag
        /\ r.count = answer[c].count /\ r.report = answer[c].report
    BY <1>3 DEF Answers
  <2>3. /\ answer' = [answer EXCEPT ![c] = r] /\ phase' = [phase EXCEPT ![c] = "answered"]
        /\ UNCHANGED <<up, version, ask, decided, told, polls>>
    BY <1>8 DEF Cut, Reply
  <2>4. r.count <= Length(c) /\ (r.report => r.count = Length(c))
    BY <1>4, <2>2
  <2> HIDE DEF r
  <2> QED  BY <1>2, <2>1, <2>2, <2>3, <2>4, StreamStep
<1> QED  BY <1>5, <1>6, <1>7, <1>8

\* A proxy's answer is no result sequence and carries no validator.
LEMMA ProxySteps ==
  ASSUME IInv, NEW c \in Callers, Intercept(c) \/ GatewayTimeout(c)
  PROVE  IInv'
<1>1. TypeOK /\ AskFits(c) /\ RunFits(c) /\ told[c] = Nothing
  BY Apart, NotYetTold DEF Fits, Intercept, GatewayTimeout
<1>2. PICK r \in Answers :
        /\ r.from = "proxy" /\ r.tag = << >> /\ r.status # 304
        /\ r.body \in {"text", "foreign", "mangled"} /\ Reply(c, r)
  <2> << >> \in Tags /\ "proxy" \in Senders
    BY DEF Tags, Senders
  <2>1. CASE Intercept(c)
    <3>1. PICK r \in ProxyAnswers : Reply(c, r)
      BY <2>1 DEF Intercept
    <3>2. CASE \E status \in {200, 404, 429, 502}, body \in {"text", "foreign", "mangled"} :
                 r = Answer("proxy", status, body, IF body = "foreign" THEN "foreign" ELSE "none", << >>, 0)
      <4>1. PICK status \in {200, 404, 429, 502}, body \in {"text", "foreign", "mangled"} :
              r = Answer("proxy", status, body, IF body = "foreign" THEN "foreign" ELSE "none", << >>, 0)
        BY <3>2
      <4> DEFINE code == IF body = "foreign" THEN "foreign" ELSE "none"
      <4>2. code \in {"foreign", "none"} /\ status \in Nat
        OBVIOUS
      <4>3. r = Answer("proxy", status, body, code, << >>, 0)
        BY <4>1
      <4> HIDE DEF code
      <4>4. r \in Answers
        <5>1. code \in Categories \cup {"internal", "foreign", "none"} /\ 0 \in Nat
              /\ body \in {"value", "records", "contract", "foreign", "mangled", "text", "none"}
          BY <4>2
        <5> QED  BY <4>2, <4>3, <5>1, AnswerIs
      <4> QED  BY <3>1, <4>3, <4>4 DEF Answer
    <3>3. CASE r = [Answer("proxy", 429, "foreign", "foreign", << >>, 0) EXCEPT !.dated = TRUE]
      <4> DEFINE status == 429
                 q == Answer("proxy", status, "foreign", "foreign", << >>, 0)
      <4>1. status \in Nat /\ status # 304
        OBVIOUS
      <4>2. r = [q EXCEPT !.dated = TRUE]
        BY <3>3
      <4> HIDE DEF status
      <4>3. q \in Answers
        BY <4>1, AnswerIs
      <4>4. q.from = "proxy" /\ q.tag = << >> /\ q.status = status /\ q.body = "foreign"
        BY DEF Answer
      <4> HIDE DEF q
      <4>5. /\ r \in Answers /\ r.from = q.from /\ r.tag = q.tag /\ r.status = q.status
            /\ r.body = q.body
        BY <4>2, <4>3 DEF Answers
      <4> QED  BY <3>1, <4>1, <4>4, <4>5
    <3> QED  BY <3>1, <3>2, <3>3 DEF ProxyAnswers
  <2>2. CASE GatewayTimeout(c)
    <3> DEFINE r == Answer("proxy", 504, "text", "none", << >>, 0)
    <3>1. r \in Answers
      BY DEF Answer, Answers
    <3>2. /\ r.from = "proxy" /\ r.tag = << >> /\ r.status # 304
          /\ r.body \in {"text", "foreign", "mangled"}
      BY DEF Answer
    <3>3. Reply(c, r)
      BY <2>2 DEF GatewayTimeout
    <3> HIDE DEF r
    <3> QED  BY <3>1, <3>2, <3>3
  <2> QED  BY <2>1, <2>2
<1>3. /\ answer' = [answer EXCEPT ![c] = r] /\ phase' = [phase EXCEPT ![c] = "answered"]
      /\ UNCHANGED <<up, version, ask, decided, told, polls>>
  BY <1>2 DEF Intercept, GatewayTimeout, Reply
<1>4. TypeOK'
  BY <1>1, <1>3 DEF TypeOK
<1>5. \A d \in Callers \ {c} : Same(d)
  BY <1>1, <1>3 DEF TypeOK, Same
<1>6. /\ phase'[c] = "answered" /\ answer'[c] = r /\ ask'[c] = ask[c] /\ decided'[c] = decided[c]
      /\ told'[c] = Nothing /\ phase[c] # "idle"
  BY <1>1, <1>3 DEF TypeOK, Intercept, GatewayTimeout
<1>7. AskFits(c)' /\ RunFits(c)'
  BY <1>1, <1>6 DEF AskFits, RunFits
<1>8. AnswerFits(c)'
  BY <1>2, <1>6 DEF AnswerFits, Interposes
<1>9. Fits(c)'
  BY <1>6, <1>7, <1>8, Untold DEF Fits
<1> QED  BY <1>4, <1>5, <1>9, StepOf

LEMMA ServerSteps ==
  ASSUME IInv, Start \/ Stop \/ Moves
  PROVE  IInv'
<1>1. TypeOK /\ \A c \in Callers : Fits(c)
  BY Apart
<1>2. TypeOK'
  <2>1. CASE Start \/ Stop
    BY <1>1, <2>1 DEF TypeOK, Start, Stop
  <2>2. CASE Moves
    <3>1. version' \in 0..MaxVersion
      BY <1>1, <2>2, ExchangeAssumption DEF TypeOK, Moves
    <3> QED  BY <1>1, <2>2, <3>1 DEF TypeOK, Moves
  <2> QED  BY <2>1, <2>2
<1>3. \A c \in Callers : Same(c)
  BY DEF Same, Start, Stop, Moves
<1>4. \A c \in Callers : Fits(c)'
  BY <1>1, <1>3, Kept
<1>5. CASE Callers = {}
  BY <1>2, <1>5 DEF IInv, ToldIsDecided, ResultsReadBack, ReadsAreGranted, RevalidatedIsCurrent, Callers
<1>6. CASE Callers # {}
  BY <1>2, <1>3, <1>4, <1>6, StepOf
<1> QED  BY <1>5, <1>6

-----------------------------------------------------------------------------
(* Telling.                                                                *)

\* What a call may return: nothing of the server's, or what core decided.
Truthful(c, t) ==
    /\ t \in Results
    /\ c \in Clients =>
          /\ t.from = "server" =>
                IF t.kind = "value" THEN decided[c].outcome = "done"
                ELSE decided[c].outcome # "done" /\ t.sentinel = byCode(decided[c].outcome)
          /\ t.kind = "value" /\ ask[c].fn \in {"Query", "QueryClaims"} =>
                /\ t.kinds \subseteq {KindOf(ask[c].output), "Report"}
                /\ t.count <= decided[c].count
                /\ t.report <=> "Report" \in t.kinds
                /\ t.report => t.count = decided[c].count
    /\ t.kind = "value" /\ ask[c].fn \in {"Query", "QueryClaims"} => t.from = "server"
    /\ (t.kind = "value" \/ (t.kind = "raw" /\ t.status \in {200, 304}))
         /\ t.from = "server" /\ decided[c].scope # "none" =>
           c \in Known /\ <<c, decided[c].scope>> \in Readers
    /\ t.kind = "raw" =>
          /\ c \in Others
          /\ t.status = 304 /\ ask[c].op \notin Contents =>
                /\ decided[c].outcome = "done"
                /\ IF t.tag # << >> THEN t.count = decided[c].count ELSE ask[c].any
          /\ t.tag # << >> => Validates(t.tag, ask[c], t.count)

LEMMA TellStep ==
  ASSUME IInv, NEW c \in Callers, NEW t, Truthful(c, t),
         phase[c] \in {"sent", "streaming", "answered"},
         told' = [told EXCEPT ![c] = t], phase' = [phase EXCEPT ![c] = "told"],
         UNCHANGED <<up, version, ask, decided, answer, polls>>
  PROVE  IInv'
<1>1. TypeOK /\ AskFits(c) /\ RunFits(c)
  BY Apart DEF Fits
<1>2. TypeOK'
  BY <1>1 DEF TypeOK, Truthful
<1>3. \A d \in Callers \ {c} : Same(d)
  BY <1>1 DEF TypeOK, Same
<1>4. /\ phase'[c] = "told" /\ answer'[c] = answer[c] /\ ask'[c] = ask[c]
      /\ decided'[c] = decided[c] /\ told'[c] = t
  BY <1>1 DEF TypeOK
<1>5. AskFits(c)' /\ RunFits(c)' /\ AnswerFits(c)'
  BY <1>1, <1>4 DEF AskFits, RunFits, AnswerFits
<1>6. TellFits(c)'
  BY <1>4 DEF TellFits, Truthful, Validates
<1>7. Tells(c)'
  BY <1>4 DEF Tells, TellsDecision, TellsResults, TellsGranted, TellsCurrent, Stands, Truthful
<1>8. Fits(c)'
  BY <1>5, <1>6, <1>7 DEF Fits
<1> QED  BY <1>2, <1>3, <1>8, StepOf

LEMMA PollStep ==
  ASSUME IInv, NEW c \in Callers, phase[c] \in {"sent", "streaming", "answered"}, polls[c] > 0,
         polls' = [polls EXCEPT ![c] = @ - 1], phase' = [phase EXCEPT ![c] = "sent"],
         decided' = [decided EXCEPT ![c] = NotRun], answer' = [answer EXCEPT ![c] = NoAnswer],
         UNCHANGED <<up, version, ask, told>>
  PROVE  IInv'
<1>1. TypeOK /\ AskFits(c) /\ told[c] = Nothing
  BY Apart, NotYetTold DEF Fits
<1>2. polls' \in [Callers -> 0..MaxPolls]
  BY <1>1, ExchangeAssumption DEF TypeOK
<1>3. TypeOK'
  BY <1>1, <1>2, NothingIs DEF TypeOK
<1>4. \A d \in Callers \ {c} : Same(d)
  BY <1>1 DEF TypeOK, Same
<1>5. /\ phase'[c] = "sent" /\ ask'[c] = ask[c] /\ decided'[c] = NotRun /\ told'[c] = Nothing
  BY <1>1 DEF TypeOK
<1>6. AskFits(c)' /\ RunFits(c)' /\ AnswerFits(c)'
  BY <1>1, <1>5 DEF AskFits, RunFits, AnswerFits
<1>7. Fits(c)'
  BY <1>5, <1>6, Untold DEF Fits
<1> QED  BY <1>3, <1>4, <1>7, StepOf

LEMMA ReturnStep ==
  ASSUME IInv, NEW c \in Callers, NEW t, Truthful(c, t),
         phase[c] \in {"sent", "streaming", "answered"}, Return(c, t),
         UNCHANGED <<up, version, ask>>
  PROVE  IInv'
<1>1. CASE ~(ask[c].fn = "WaitReady" /\ t.kind # "value" /\ ~settled(t))
  BY <1>1, TellStep DEF Return
<1>2. CASE ask[c].fn = "WaitReady" /\ t.kind # "value" /\ ~settled(t) /\ polls[c] > 0
  BY <1>2, PollStep DEF Return
<1>3. CASE ask[c].fn = "WaitReady" /\ t.kind # "value" /\ ~settled(t) /\ ~(polls[c] > 0)
  <2> DEFINE g == [t EXCEPT !.kind = "gaveUp"]
  <2>1. /\ g \in Results /\ g.kind = "gaveUp" /\ g.from = t.from /\ g.sentinel = t.sentinel
    BY DEF Truthful, Results
  <2>2. told' = [told EXCEPT ![c] = g] /\ phase' = [phase EXCEPT ![c] = "told"]
        /\ UNCHANGED <<polls, decided, answer>>
    BY <1>3 DEF Return
  <2> HIDE DEF g
  <2>3. Truthful(c, g)
    BY <1>3, <2>1 DEF Truthful
  <2> QED  BY <2>2, <2>3, TellStep
<1> QED  BY <1>1, <1>2, <1>3

LEMMA FailedIsTruthful == \A c \in Callers : Truthful(c, Failed)
<1>1. Failed.kind = "failed" /\ Failed.from = "nobody"
  BY DEF Failed, Told, NoAnswer, Answer
<1> QED  BY <1>1, NothingIs DEF Truthful

LEMMA LoseStep ==
  ASSUME IInv, NEW c \in Callers, Lose(c)
  PROVE  IInv'
  BY FailedIsTruthful, ReturnStep DEF Lose

\* What core ran for a scope, and finished, it ran for one who holds R on it.
LEMMA DoneIsGranted ==
  ASSUME IInv, NEW c \in Callers, phase[c] # "idle", decided[c].outcome = "done"
  PROVE  /\ decided[c].scope # "none" => c \in Known /\ <<c, decided[c].scope>> \in Readers
         /\ ask[c].op \in ClaimReads => decided[c].count = 0
         /\ ask[c].op = "Query" => EngineAccepts(Pinned(ask[c].output))
<1> DEFINE req == RunOf(ask[c])
<1>1. AskFits(c) /\ RunFits(c)
  BY Apart DEF Fits
<1>2. decided[c] # NotRun
  BY DEF NotRun
<1>3. /\ decided[c].core = req.core /\ decided[c].scope = req.scope
      /\ "done" \in Outcomes(c, req)
      /\ ask[c].op \in ClaimReads => decided[c].count = 0
      /\ ask[c].op = "Query" => EngineAccepts(Pinned(ask[c].output))
  BY <1>1, <1>2 DEF RunFits
<1>4. ask[c].op \in Operations
  BY <1>1 DEF AskFits
<1>5. req = CoreRequest(CoreOf[ask[c].op], ScopeOf(ask[c].op, ask[c].scope), IdOf(ask[c].op, ask[c].id))
  BY <1>4, HandledIs
<1>6. req.core = CoreOf[ask[c].op] /\ req.scope = ScopeOf(ask[c].op, ask[c].scope)
  BY <1>5 DEF CoreRequest
<1> HIDE DEF req
<1>7. c \in Known /\ Authorised(c, req)
  BY <1>3, OutcomesAre
<1>8. req.scope # "none" => req.core \in NeedsR
  BY <1>4, <1>6, ScopedNeedsR
<1> QED  BY <1>3, <1>7, <1>8 DEF Authorised


\* What a client makes of a value core yielded: the value, whatever its decoder then
\* says of the body.
LEMMA ServedToClient ==
  ASSUME IInv, NEW c \in Clients, phase[c] = "answered", Serves(c), answer[c].from = "server",
         NEW t, Hears(t, ask[c].fn, ask[c].op, ask[c].output, answer[c]), t # Failed
  PROVE  /\ t.kind = "value" /\ t \in Results /\ Carries(t, answer[c])
         /\ decided[c].outcome = "done"
         /\ ask[c].fn \in {"Query", "QueryClaims"} =>
               /\ t.kinds \subseteq {KindOf(ask[c].output), "Report"}
               /\ t.count <= decided[c].count
               /\ t.report <=> "Report" \in t.kinds
               /\ t.report => t.count = decided[c].count
<1> DEFINE fn == ask[c].fn
           op == ask[c].op
           a == answer[c]
<1>1. c \in Callers /\ TypeOK /\ AskFits(c)
  BY Apart DEF Fits, Callers
<1>2. /\ fn \in Functions /\ op = OperationOf(fn, ask[c].scope) /\ op \in Operations
      /\ ask[c].id \in Ids /\ ask[c].held = {} /\ ~ask[c].any
      /\ fn \in {"Query", "QueryClaims"} => routesAreReadable(ask[c].output)
  BY <1>1 DEF AskFits
<1>3. decided[c].count \in Nat /\ a \in Answers /\ ask[c].output \in Outputs
  BY <1>1 DEF TypeOK, Decisions, Asks
<1>4. /\ fn \in Queries <=> op = "Query"
      /\ fn = "GetContent" <=> op \in Contents
      /\ fn = "GetClaim" <=> op \in ClaimReads
  <2> HIDE DEF fn, op
  <2> QED  BY <1>2, FunctionAsks
<1>5. decided[c].outcome = "done"
  BY DEF Serves
<1>6. /\ a.status = Decoders[op].success
      /\ a.body = IF op = "Query" THEN "records"
                  ELSE IF op = "DeleteVerification" THEN "none" ELSE "value"
  <2> DEFINE r == respond(op, ask[c].id, decided[c].count, ask[c])
  <2>0. \A tag : ~matches(ask[c], tag)
    BY <1>2 DEF matches
  <2>1. a.status = r.status /\ a.body = r.body
    BY DEF Serves
  <2>2. /\ r.status = Decoders[op].success
        /\ r.body = IF op = "Query" THEN "records"
                    ELSE IF op = "DeleteVerification" THEN "none" ELSE "value"
    BY <1>2, <1>3, <2>0, RespondIs
  <2> HIDE DEF r
  <2> QED  BY <2>1, <2>2
<1>7. t.kind = "value"
  <2>1. CASE fn \in Queries \cup {"GetContent", "GetClaim"}
    <3>1. a.status = 200
      BY <1>2, <1>4, <1>6, <2>1, DecodersAre
    <3> QED  BY <2>1, <3>1 DEF Hears
  <2>2. CASE fn \notin Queries \cup {"GetContent", "GetClaim"}
    <3>1. Decoders[op].json => a.body = "value"
      BY <1>2, <1>6, DecodersAre
    <3>2. Takes(fn, op, a)
      BY <1>6, <2>2, <3>1 DEF Takes, IsJSON
    <3> QED  BY <2>2, <3>2 DEF Hears
  <2> QED  BY <2>1, <2>2
<1>8. t \in Results /\ Carries(t, a) /\ (fn \in {"Query", "QueryClaims"} => t.kinds = KindsRead(fn, ask[c].output, a))
  BY <1>7 DEF Hears
<1>9. ASSUME fn \in {"Query", "QueryClaims"}
      PROVE  /\ t.kinds \subseteq {KindOf(ask[c].output), "Report"}
             /\ t.count <= decided[c].count
             /\ t.report <=> "Report" \in t.kinds
             /\ t.report => t.count = decided[c].count
  <2>1. op = "Query" /\ a.status = 200
    BY <1>2, <1>4, <1>6, <1>9, DecodersAre DEF Queries
  <2>2. EngineAccepts(Pinned(ask[c].output))
    BY <1>1, <1>5, <2>1, DoneIsGranted
  <2> DEFINE out == Pinned(ask[c].output)
             kind == decodeRecord(FormOf(KindOf(out), out.encoding), out.encoding)
             tail == decodeRecord(FormOf("Report", out.encoding), out.encoding)
  <2>3. /\ kind = KindOf(ask[c].output) /\ tail = "Report" /\ kind # "Report"
        /\ RecordsOf(KindOf(out), RouteLength) = 1
    BY <1>2, <1>3, <1>9, <2>2, RecordsReadBack
  <2>4. Length(c) = decided[c].count
    BY <1>1, <1>3, <2>3, LengthIs
  <2>5. KindsRead(fn, ask[c].output, a) = (IF a.count > 0 THEN {kind} ELSE {}) \cup (IF a.report THEN {tail} ELSE {})
    BY DEF KindsRead
  <2>6. a.count <= Length(c) /\ (a.report => a.count = Length(c))
    BY <2>1 DEF Serves, InParts
  <2>7. t.kinds = (IF a.count > 0 THEN {kind} ELSE {}) \cup (IF a.report THEN {tail} ELSE {})
    BY <1>8, <1>9, <2>5
  <2> HIDE DEF kind, tail, out
  <2>8. t.count = a.count /\ t.report = a.report /\ t.report \in BOOLEAN
    BY <1>8 DEF Carries, Results
  <2>9. t.kinds \subseteq {KindOf(ask[c].output), "Report"} /\ (t.report <=> "Report" \in t.kinds)
    BY <2>3, <2>7, <2>8
  <2> QED  BY <2>4, <2>6, <2>8, <2>9
<1> QED  BY <1>5, <1>7, <1>8, <1>9

LEMMA ClientTold ==
  ASSUME IInv, NEW c \in Clients, phase[c] = "answered"
  PROVE  Truthful(c, Read(ask[c].fn, ask[c].op, ask[c].output, answer[c]))
<1> DEFINE t == Read(ask[c].fn, ask[c].op, ask[c].output, answer[c])
           a == answer[c]
           fn == ask[c].fn
<1>1. c \in Callers /\ TypeOK /\ AskFits(c) /\ AnswerFits(c)
  BY Apart DEF Fits, Callers
<1>2. /\ fn \in Functions /\ ask[c].op = OperationOf(fn, ask[c].scope)
      /\ ask[c].op \in Operations
  BY <1>1 DEF AskFits
<1>3. a \in Answers
  BY <1>1 DEF TypeOK
<1>4. Hears(t, fn, ask[c].op, ask[c].output, a)
  BY <1>2, <1>3, FunctionAsks, ReadIs
<1> HIDE DEF t
<1>5. t \in Results /\ t.kind \notin {"raw", "none"}
  BY <1>4 DEF Hears
<1>6. CASE t = Failed
  BY <1>1, <1>6, FailedIsTruthful DEF t
<1>7. CASE t # Failed /\ a.from = "proxy" /\ Interposes(c)
  <2>1. Carries(t, a)
    BY <1>4, <1>7 DEF Hears
  <2>2. t.from # "server"
    BY <1>7, <2>1 DEF Carries
  <2>3. ~(t.kind = "value" /\ fn \in {"Query", "QueryClaims"})
    <3>1. SUFFICES ASSUME t.kind = "value", fn \in {"Query", "QueryClaims"}
                   PROVE  FALSE
      OBVIOUS
    <3>2. Takes(fn, ask[c].op, a)
      BY <1>4, <1>7, <3>1 DEF Hears
    <3>3. a.body = "records"
      BY <3>1, <3>2 DEF Takes, Queries
    <3> QED  BY <1>7, <3>3 DEF Interposes
  <2> QED  BY <1>5, <2>2, <2>3 DEF Truthful, t
<1>8. CASE t # Failed /\ a.from = "server" /\ Refuses(c)
  <2>1. /\ a.code \in Categories \cup {"internal"} /\ decided[c].outcome = a.code
        /\ a = writeError(a.code)
    BY <1>8 DEF Refuses
  <2>2. a.body = "contract" /\ a.status \in {400, 401, 403, 404, 409, 429, 500, 501}
    BY <2>1, WriteErrorIs
  <2>3. ~Takes(fn, ask[c].op, a)
    <3>1. Decoders[ask[c].op].success \in {200, 201, 202, 204}
      BY <1>2, DecodersAre
    <3> QED  BY <2>2, <3>1 DEF Takes
  <2>4. t.kind # "value" /\ t.sentinel = Unwrap(a)
    BY <1>4, <1>8, <2>3 DEF Hears
  <2>5. Unwrap(a) = byCode(a.code)
    BY <2>2 DEF Unwrap
  <2>6. decided[c].outcome # "done"
    BY <2>1 DEF Categories
  <2> QED  BY <1>5, <2>1, <2>4, <2>5, <2>6 DEF Truthful, t
<1>9. CASE t # Failed /\ a.from = "server" /\ Serves(c)
  <2>0. t.from = "server"
    BY <1>4, <1>9 DEF Hears, Carries
  <2>1. /\ t.kind = "value" /\ t \in Results /\ decided[c].outcome = "done"
        /\ fn \in {"Query", "QueryClaims"} =>
              /\ t.kinds \subseteq {KindOf(ask[c].output), "Report"}
              /\ t.count <= decided[c].count
              /\ t.report <=> "Report" \in t.kinds
              /\ t.report => t.count = decided[c].count
    BY <1>4, <1>9, ServedToClient
  <2>2. decided[c].scope # "none" => c \in Known /\ <<c, decided[c].scope>> \in Readers
    BY <1>1, <2>1, DoneIsGranted
  <2> QED  BY <2>0, <2>1, <2>2 DEF Truthful, t
<1> QED  BY <1>1, <1>6, <1>7, <1>8, <1>9 DEF AnswerFits, t

\* A validator names what moved, so it tells a version from another.
LEMMA EtagTells ==
  ASSUME NEW op, NEW id, NEW m \in Nat, NEW n \in Nat,
         Etag(op, id, m) = Etag(op, id, n), Etag(op, id, m) # << >>,
         op \notin Contents \cup ClaimReads
  PROVE  m = n
  BY DEF Etag

LEMMA RawIs ==
  ASSUME TypeOK, NEW c \in Callers, answer[c].whole, NEW t, t = Raw(c)
  PROVE  LET a == answer[c] IN
         /\ t \in Results /\ t.kind = "raw" /\ t.status = a.status /\ t.from = a.from
         /\ a.status # 304 => t.tag = a.tag /\ t.count = a.count
         /\ a.status = 304 =>
               \/ t.tag = << >> /\ \A h \in ask[c].held : h.tag # a.tag
               \/ t.tag = a.tag /\ \E h \in ask[c].held : h.tag = a.tag /\ t.count = h.count
<1> DEFINE a == answer[c]
           raw == Told("raw", "none", a)
           standing == {h \in ask[c].held : h.tag = a.tag}
<1>1. a \in Answers /\ ask[c].held \subseteq [tag : Tags, count : Nat]
  BY DEF TypeOK, Asks
<1>2. /\ raw \in Results /\ raw.kind = "raw" /\ raw.status = a.status /\ raw.from = a.from
      /\ raw.tag = a.tag /\ raw.count = a.count
  BY <1>1 DEF Told, Results, Answers
<1>3. << >> \in Tags
  BY DEF Tags
<1>4. t = IF a.status # 304 THEN raw
          ELSE IF standing = {} THEN [raw EXCEPT !.tag = << >>, !.count = 0]
          ELSE [raw EXCEPT !.count = (CHOOSE h \in standing : TRUE).count]
  BY DEF Raw
<1> HIDE DEF raw, standing
<1>5. CASE a.status # 304
  BY <1>2, <1>4, <1>5
<1>6. CASE a.status = 304 /\ standing = {}
  <2>1. t = [raw EXCEPT !.tag = << >>, !.count = 0]
    BY <1>4, <1>6
  <2>2. /\ t \in Results /\ t.kind = "raw" /\ t.status = raw.status /\ t.from = raw.from
        /\ t.tag = << >>
    <3> DEFINE n == 0
               e == << >>
    <3>1. n \in Nat /\ e \in Tags
      BY <1>3
    <3>2. t = [raw EXCEPT !.tag = e, !.count = n]
      BY <2>1
    <3> HIDE DEF n, e
    <3>3. /\ t \in Results /\ t.kind = "raw" /\ t.status = raw.status /\ t.from = raw.from
          /\ t.tag = e
      BY <1>2, <3>1, <3>2 DEF Results
    <3> QED  BY <3>3 DEF e
  <2>3. \A h \in ask[c].held : h.tag # a.tag
    BY <1>6 DEF standing
  <2> QED  BY <1>2, <1>6, <2>2, <2>3
<1>7. CASE a.status = 304 /\ standing # {}
  <2>1. PICK h \in standing : h = CHOOSE x \in standing : TRUE
    BY <1>7
  <2>2. h \in ask[c].held /\ h.tag = a.tag /\ h.count \in Nat
    BY <1>1, <2>1 DEF standing
  <2>3. t = [raw EXCEPT !.count = h.count]
    BY <1>4, <1>7, <2>1
  <2>4. /\ t \in Results /\ t.kind = "raw" /\ t.status = raw.status /\ t.from = raw.from
        /\ t.tag = raw.tag /\ t.count = h.count
    BY <1>2, <2>2, <2>3 DEF Results
  <2> QED  BY <1>2, <1>7, <2>2, <2>4
<1> QED  BY <1>5, <1>6, <1>7

\* A 304 of the server's leaves standing what core has just read, of what is held.
LEMMA ServedRaw ==
  ASSUME IInv, NEW c \in Others, phase[c] = "answered", Serves(c), answer[c].whole,
         NEW t, t = Raw(c)
  PROVE  /\ t.status = 304 /\ ask[c].op \notin Contents =>
               IF t.tag # << >> THEN t.count = decided[c].count ELSE ask[c].any
         /\ t.tag # << >> => Validates(t.tag, ask[c], t.count)
<1> DEFINE a == answer[c]
           op == ask[c].op
           id == ask[c].id
           m == decided[c].count
           r == respond(op, id, m, ask[c])
<1>1. c \in Callers /\ TypeOK /\ AskFits(c)
  BY Apart DEF Fits, Callers
<1>2. /\ op \in Operations /\ id \in Ids
      /\ \A h \in ask[c].held : Validates(h.tag, ask[c], h.count)
  BY <1>1 DEF AskFits
<1>3. m \in Nat /\ a.count \in Nat /\ ask[c].held \subseteq [tag : Tags, count : Nat]
  BY <1>1 DEF TypeOK, Decisions, Asks, Answers
<1>4. /\ a.status = r.status /\ a.tag = r.tag /\ decided[c].outcome = "done"
      /\ ~InParts(c) => a.count = m
  BY DEF Serves
<1>5. op \in ClaimReads => m = 0
  BY <1>1, <1>4, DoneIsGranted
<1>6. r.tag = Etag(op, id, m) /\ (r.status = 304 => matches(ask[c], r.tag) /\ r.tag # << >>)
  <2>1. Decoders[op].success \in {200, 201, 202, 204}
    BY <1>2, DecodersAre
  <2>2. /\ r.tag = Etag(op, id, m)
        /\ \/ r.status = 304 /\ matches(ask[c], r.tag) /\ r.tag # << >>
           \/ r.status = Decoders[op].success
    BY <1>2, <1>3, RespondIs
  <2> HIDE DEF r
  <2> QED  BY <2>1, <2>2
<1> HIDE DEF r
<1>7. CASE a.status = 304
  <2>1. \/ t.tag = << >> /\ \A h \in ask[c].held : h.tag # a.tag
        \/ t.tag = a.tag /\ \E h \in ask[c].held : h.tag = a.tag /\ t.count = h.count
    BY <1>1, <1>7, RawIs
  <2>2. CASE t.tag = << >> /\ \A h \in ask[c].held : h.tag # a.tag
    <3>1. ask[c].any
      BY <1>4, <1>6, <1>7, <2>2 DEF matches
    <3> QED  BY <2>2, <3>1
  <2>3. CASE t.tag = a.tag /\ \E h \in ask[c].held : h.tag = a.tag /\ t.count = h.count
    <3>1. PICK h \in ask[c].held : h.tag = a.tag /\ t.count = h.count
      BY <2>3
    <3>2. h.count \in Nat /\ Validates(h.tag, ask[c], h.count)
      BY <1>2, <1>3
    <3>3. /\ Etag(op, id, h.count) = Etag(op, id, m) /\ Etag(op, id, m) # << >>
          /\ op \in ClaimReads => h.count = 0
      BY <1>4, <1>6, <3>1, <3>2 DEF Validates
    <3>4. op \notin Contents => h.count = m
      BY <1>3, <1>5, <3>2, <3>3, EtagTells
    <3>5. Validates(t.tag, ask[c], t.count)
      BY <2>3, <3>1, <3>2
    <3>6. t.tag # << >> /\ (op \notin Contents => t.count = m)
      BY <3>1, <3>2, <3>4, <2>3 DEF Validates
    <3> QED  BY <3>5, <3>6
  <2> QED  BY <2>1, <2>2, <2>3
<1>8. CASE a.status # 304
  <2>0. t.status = a.status /\ t.tag = a.tag /\ t.count = a.count
    BY <1>1, <1>8, RawIs
  <2>1. a.tag = Etag(op, id, m)
    BY <1>4, <1>6
  <2>2. CASE op \in Contents
    BY <1>8, <2>0, <2>1, <2>2 DEF Etag, Contents, ClaimReads, Validates
  <2>3. CASE op \notin Contents /\ a.tag # << >>
    <3>1. op # "Query"
      BY <2>1, <2>3 DEF Etag, Contents, ClaimReads, Revalidated
    <3>2. a.count = m
      BY <1>4, <2>3, <3>1 DEF InParts
    <3> QED  BY <1>5, <1>8, <2>0, <2>1, <2>3, <3>2 DEF Validates
  <2>4. CASE a.tag = << >>
    BY <1>8, <2>0, <2>4
  <2> QED  BY <2>2, <2>3, <2>4
<1> QED  BY <1>7, <1>8

LEMMA RawTold ==
  ASSUME IInv, NEW c \in Others, phase[c] = "answered"
  PROVE  Truthful(c, Raw(c))
<1> DEFINE a == answer[c]
           t == Raw(c)
<1>1. c \in Callers /\ c \notin Clients /\ TypeOK /\ AnswerFits(c)
  BY Apart, ExchangeAssumption DEF Fits, Callers
<1>3. CASE ~a.whole
  BY <1>1, <1>3, FailedIsTruthful DEF Raw
<1>4. CASE a.whole
  <2>2. /\ t \in Results /\ t.kind = "raw" /\ t.status = a.status /\ t.from = a.from
        /\ a.status # 304 => t.tag = a.tag
    BY <1>1, <1>4, RawIs
  <2> HIDE DEF t
  <2>3. CASE a.from = "proxy" /\ Interposes(c)
    BY <1>1, <2>2, <2>3 DEF Interposes, Truthful, t
  <2>4. CASE a.from = "server" /\ Refuses(c)
    <3>1. a.tag = << >> /\ a.status \in {400, 401, 403, 404, 409, 429, 500, 501}
      BY <2>4, WriteErrorIs DEF Refuses
    <3> QED  BY <1>1, <2>2, <3>1 DEF Truthful, t
  <2>5. CASE a.from = "server" /\ Serves(c)
    <3>1. /\ t.status = 304 /\ ask[c].op \notin Contents =>
                IF t.tag # << >> THEN t.count = decided[c].count ELSE ask[c].any
          /\ t.tag # << >> => Validates(t.tag, ask[c], t.count)
      BY <1>4, <2>5, ServedRaw DEF t
    <3>2. decided[c].outcome = "done"
      BY <2>5 DEF Serves
    <3>3. decided[c].scope # "none" => c \in Known /\ <<c, decided[c].scope>> \in Readers
      BY <1>1, <3>2, DoneIsGranted
    <3> QED  BY <1>1, <2>2, <3>1, <3>2, <3>3 DEF Truthful, t
  <2> QED  BY <1>1, <2>3, <2>4, <2>5 DEF AnswerFits
<1> QED  BY <1>3, <1>4

LEMMA DeliverStep ==
  ASSUME IInv, NEW c \in Callers, Deliver(c)
  PROVE  IInv'
<1>1. CASE c \in Clients
  BY <1>1, ClientTold, ReturnStep DEF Deliver
<1>2. CASE c \notin Clients
  <2>1. c \in Others /\ Return(c, Raw(c))
    BY <1>2 DEF Deliver, Callers
  <2> QED  BY <2>1, RawTold, ReturnStep DEF Deliver
<1> QED  BY <1>1, <1>2

-----------------------------------------------------------------------------
(* The theorems.                                                           *)

LEMMA InitFits ==
  ASSUME Init
  PROVE  IInv
<1>1. TypeOK
  <2>1. 0 \in 0..MaxVersion /\ 0 \in 0..MaxPolls
    BY ExchangeAssumption
  <2> QED  BY <2>1, NothingIs DEF Init, TypeOK
<1>2. \A c \in Callers : phase[c] = "idle" /\ decided[c] = NotRun /\ told[c] = Nothing
  BY DEF Init
<1>3. Nothing.kind = "none" /\ Nothing.from = "nobody"
  BY DEF Nothing, Told, NoAnswer, Answer
<1>4. \A c \in Callers : AskFits(c) /\ RunFits(c) /\ AnswerFits(c) /\ TellFits(c)
  BY <1>2, <1>3 DEF AskFits, RunFits, AnswerFits, TellFits
<1>5. ToldIsDecided /\ ReadsAreGranted /\ ResultsReadBack /\ RevalidatedIsCurrent
  BY <1>1, <1>2, <1>3
     DEF ToldIsDecided, ReadsAreGranted, ResultsReadBack, RevalidatedIsCurrent, Callers
<1> QED  BY <1>1, <1>4, <1>5 DEF IInv

LEMMA StillFits ==
  ASSUME IInv, UNCHANGED vars
  PROVE  IInv'
<1>1. TypeOK /\ \A c \in Callers : Fits(c)
  BY Apart
<1>2. TypeOK'
  BY <1>1 DEF TypeOK, vars
<1>3. \A c \in Callers : Same(c)
  BY DEF Same, vars
<1>4. CASE Callers = {}
  BY <1>2, <1>4 DEF IInv, ToldIsDecided, ResultsReadBack, ReadsAreGranted, RevalidatedIsCurrent, Callers
<1>5. CASE Callers # {}
  BY <1>1, <1>2, <1>3, <1>5, Kept, StepOf
<1> QED  BY <1>4, <1>5

LEMMA NextFits ==
  ASSUME IInv, Next
  PROVE  IInv'
<1>1. CASE Start \/ Stop \/ Moves
  BY <1>1, ServerSteps
<1>2. ASSUME NEW c \in Callers,
             Call(c) \/ Request(c) \/ Revalidate(c) \/ RefuseEarly(c) \/ Handle(c) \/ LateRun(c)
               \/ WriteResult(c) \/ FailStream(c) \/ EndStream(c) \/ Cut(c) \/ Intercept(c)
               \/ GatewayTimeout(c) \/ Deliver(c) \/ Lose(c) \/ Forget(c)
      PROVE  IInv'
  <2>1. CASE Call(c)
    BY <2>1, CallStep
  <2>2. CASE Request(c)
    BY <2>2, RequestStep
  <2>3. CASE Revalidate(c)
    BY <2>3, RevalidateStep
  <2>4. CASE RefuseEarly(c)
    BY <2>4, RefuseEarlyStep
  <2>5. CASE Handle(c)
    BY <2>5, HandleStep
  <2>6. CASE WriteResult(c) \/ FailStream(c) \/ EndStream(c) \/ Cut(c)
    BY <2>6, StreamingSteps
  <2>7. CASE Intercept(c) \/ GatewayTimeout(c)
    BY <2>7, ProxySteps
  <2>8. CASE Deliver(c)
    BY <2>8, DeliverStep
  <2>9. CASE Lose(c)
    BY <2>9, LoseStep
  <2>10. CASE Forget(c)
    BY <2>10, ForgetStep
  <2>11. CASE LateRun(c)
    BY <2>11, LateRunStep
  <2> QED  BY <1>2, <2>1, <2>2, <2>3, <2>4, <2>5, <2>6, <2>7, <2>8, <2>9, <2>10, <2>11
<1> QED  BY <1>1, <1>2 DEF Next

LEMMA Inductive == Spec => []IInv
<1>1. IInv /\ [Next]_vars => IInv'
  BY NextFits, StillFits
<1> QED  BY InitFits, <1>1, PTL DEF Spec

\* What the client's function stands for is what the route of its request makes core
\* run, and core runs no other.
LEMMA FitsAreRun ==
  ASSUME IInv
  PROVE  AskedIsRun
<1>1. SUFFICES ASSUME NEW c \in Clients, decided[c] # NotRun
               PROVE  /\ decided[c].core = Means[ask[c].fn]
                      /\ ask[c].fn \in ByScope => decided[c].scope = ask[c].scope
                      /\ ask[c].fn \in ById => decided[c].id = ask[c].id
  BY DEF AskedIsRun
<1> DEFINE fn == ask[c].fn
           op == ask[c].op
           req == RunOf(ask[c])
<1>2. AskFits(c) /\ RunFits(c)
  BY Apart DEF Fits, Callers
<1>3. phase[c] # "idle" /\ decided[c].core = req.core /\ decided[c].scope = req.scope
      /\ decided[c].id = req.id
  BY <1>1, <1>2 DEF RunFits
<1>4. fn \in Functions /\ op = OperationOf(fn, ask[c].scope) /\ op \in Operations
  BY <1>2, <1>3 DEF AskFits
<1>5. req = CoreRequest(CoreOf[op], ScopeOf(op, ask[c].scope), IdOf(op, ask[c].id))
  BY <1>4, HandledIs
<1>6. /\ req.core = CoreOf[op] /\ req.scope = ScopeOf(op, ask[c].scope)
      /\ req.id = IdOf(op, ask[c].id)
  BY <1>5 DEF CoreRequest
<1> HIDE DEF req
<1>7. /\ CoreOf[op] = Means[fn]
      /\ fn \in ByScope => ScopeOf(op, ask[c].scope) = ask[c].scope
      /\ fn \in ById => IdOf(op, ask[c].id) = ask[c].id
  BY <1>4, FunctionAsks
<1> QED  BY <1>3, <1>6, <1>7

\* Type correctness: every request, decision, answer and result is of the shape the
\* contract and the client's types give it.
THEOREM TypeCorrect == Spec => []TypeOK
  BY Inductive, PTL DEF IInv

\* Whatever scope and id a caller of the Go client names, the request its function
\* builds is routed to one handler, and core runs that function's operation in that
\* scope and on that id (client/read.go:175, openapi.gen.go's routes and wrappers,
\* endpoints_read.go:97).
THEOREM AskedRuns == Spec => []AskedIsRun
<1>1. IInv => AskedIsRun
  BY FitsAreRun
<1> QED  BY Inductive, <1>1, PTL

\* A client told a value by the server was not refused by core, and one told a refusal
\* matches the sentinel of the category core refused it with, whatever a proxy answers
\* in between (client/errors.go:92).
THEOREM TellsWhatWasDecided == Spec => []ToldIsDecided
<1>1. IInv => ToldIsDecided
  BY DEF IInv
<1> QED  BY Inductive, <1>1, PTL

\* No value of a scoped read reaches a caller that does not authenticate or does not
\* hold R on that scope, by a 304 neither (internal/core/core.go:140, core.allow).
THEOREM OnlyGrantedReads == Spec => []ReadsAreGranted
<1>1. IInv => ReadsAreGranted
  BY DEF IInv
<1> QED  BY Inductive, <1>1, PTL

\* A query's records read back as the kinds the engine yielded, and one that ends with
\* its report is whole, however long (client/seq.go:94, internal/core/serve.go:73).
THEOREM RecordsAreRead == Spec => []ResultsReadBack
<1>1. IInv => ResultsReadBack
  BY DEF IInv
<1> QED  BY Inductive, <1>1, PTL

\* What a 304 leaves standing of the values its reader holds is what core has just read,
\* however often the archive moved and however many validators were presented; a `*` by
\* one who holds nothing apart (respond.go:99, 116).
THEOREM StandsWhenRevalidated == Spec => []RevalidatedIsCurrent
<1>1. IInv => RevalidatedIsCurrent
  BY DEF IInv
<1> QED  BY Inductive, <1>1, PTL

-----------------------------------------------------------------------------
(* A call ends.                                                            *)

Alone(d) == Same(d) /\ polls'[d] = polls[d]

\* The steps that open a call or let it go, those on its way, and its end.
Begins(c) == Call(c) \/ Request(c) \/ Revalidate(c) \/ Forget(c)
Streams(c) == WriteResult(c) \/ FailStream(c) \/ EndStream(c) \/ Cut(c)
Ways(c) == RefuseEarly(c) \/ Handle(c) \/ Streams(c) \/ Intercept(c) \/ GatewayTimeout(c)
Ends(c) == Deliver(c) \/ Lose(c)
Rests == Start \/ Stop \/ Moves

LEMMA NextIs ==
  ASSUME Next
  PROVE  Rests \/ \E c \in Callers : Begins(c) \/ Ways(c) \/ Ends(c) \/ LateRun(c)
  BY DEF Next, Rests, Begins, Ways, Ends, Streams

LEMMA RestsAlone ==
  ASSUME Rests, NEW d \in Callers
  PROVE  Alone(d)
  BY DEF Rests, Start, Stop, Moves, Alone, Same

LEMMA BeginsAlone ==
  ASSUME TypeOK, NEW c \in Callers, Begins(c), NEW d \in Callers, d # c
  PROVE  Alone(d)
<1>1. CASE Call(c)
  BY <1>1 DEF Call, Sends, TypeOK, Alone, Same
<1>2. CASE Request(c)
  BY <1>2 DEF Request, Sends, TypeOK, Alone, Same
<1>3. CASE Revalidate(c)
  BY <1>3 DEF Revalidate, Sends, TypeOK, Alone, Same
<1>4. CASE Forget(c)
  BY <1>4 DEF Forget, TypeOK, Alone, Same
<1> QED  BY <1>1, <1>2, <1>3, <1>4 DEF Begins

\* What a step on the way does at the call it is of.
LEMMA EarlyAt ==
  ASSUME TypeOK, NEW c \in Callers, RefuseEarly(c)
  PROVE  /\ phase[c] = "sent" /\ phase'[c] = "answered" /\ answer'[c].from = "server"
         /\ UNCHANGED <<ask, decided, told, polls>>
         /\ \A d \in Callers : d # c => Alone(d)
<1> DEFINE e == writeError(IF ask[c].several THEN "invalid" ELSE Malformed(ask[c].op))
<1>1. e.from = "server"
  BY WriteErrorIs DEF Malformed, Categories
<1>2. answer' = [answer EXCEPT ![c] = e] /\ phase' = [phase EXCEPT ![c] = "answered"]
  BY DEF RefuseEarly, Reply
<1> HIDE DEF e
<1> QED  BY <1>1, <1>2 DEF RefuseEarly, TypeOK, Alone, Same

LEMMA HandleAt ==
  ASSUME TypeOK, NEW c \in Callers, Handle(c)
  PROVE  /\ phase[c] = "sent" /\ phase'[c] \in {"streaming", "answered"}
         /\ answer'[c].from = "server"
         /\ UNCHANGED <<ask, told, polls>>
         /\ \A d \in Callers : d # c => Alone(d)
<1>1. PICK op \in RoutesOf(Wire(ask[c])) :
        Executes(c, op, Handled(op, Arguments(op, Wire(ask[c])), ask[c]))
  BY DEF Handle
<1> DEFINE req == Handled(op, Arguments(op, Wire(ask[c])), ask[c])
<1>2. PICK outcome \in Outcomes(c, req), n \in Counts(op) :
        /\ op = "Query" /\ outcome = "done" => EngineAccepts(Pinned(ask[c].output))
        /\ decided' = [decided EXCEPT ![c] =
              [core |-> req.core, scope |-> req.scope, id |-> req.id,
               outcome |-> outcome, count |-> n]]
        /\ IF outcome # "done" THEN Reply(c, writeError(outcome))
           ELSE LET a == respond(op, req.id, n, ask[c])
                IN  /\ answer' = [answer EXCEPT ![c] = a]
                    /\ phase' = [phase EXCEPT ![c] =
                          IF op \in Contents \cup {"Query"} /\ a.status = 200
                          THEN "streaming" ELSE "answered"]
  BY <1>1 DEF Executes, Runs
<1> HIDE DEF req
<1>3. \E r, p : /\ answer' = [answer EXCEPT ![c] = r] /\ phase' = [phase EXCEPT ![c] = p]
                /\ r.from = "server" /\ p \in {"streaming", "answered"}
  <2>1. writeError(outcome).from = "server"
    BY DEF writeError, Answer
  <2>2. respond(op, req.id, n, ask[c]).from = "server"
    BY DEF respond, Answer
  <2> QED  BY <1>2, <2>1, <2>2 DEF Reply
<1> QED  BY <1>2, <1>3 DEF Handle, TypeOK, Alone, Same

LEMMA LateRunAt ==
  ASSUME TypeOK, NEW c \in Callers, LateRun(c)
  PROVE  /\ phase[c] = "told" /\ told[c].from # "server" /\ decided[c] = NotRun
         /\ decided'[c].outcome # "none" /\ UNCHANGED <<phase, ask, answer, told, polls>>
         /\ \A d \in Callers : d # c => Alone(d)
<1>1. PICK op \in RoutesOf(Wire(ask[c])) :
        LET req == Handled(op, Arguments(op, Wire(ask[c])), ask[c])
        IN  \E outcome \in Outcomes(c, req), n \in Counts(op) : Runs(c, op, req, outcome, n)
  BY DEF LateRun
<1> DEFINE req == Handled(op, Arguments(op, Wire(ask[c])), ask[c])
<1>2. PICK outcome \in Outcomes(c, req), n \in Counts(op) : Runs(c, op, req, outcome, n)
  BY <1>1
<1>3. outcome \in {"done", "unauthenticated"} \cup LibErrors
  BY <1>2, OutcomesAre
<1> DEFINE r == [core |-> req.core, scope |-> req.scope, id |-> req.id,
                 outcome |-> outcome, count |-> n]
<1>4. decided' = [decided EXCEPT ![c] = r]
  BY <1>2 DEF Runs
<1>5. r.outcome # "none"
  BY <1>3 DEF LibErrors
<1> HIDE DEF r, req
<1> QED  BY <1>4, <1>5 DEF LateRun, TypeOK, Alone, Same

LEMMA StreamsAt ==
  ASSUME TypeOK, NEW c \in Callers, Streams(c)
  PROVE  /\ phase[c] = "streaming"
         /\ \/ /\ phase'[c] = "streaming" /\ answer[c].count < Length(c)
               /\ answer'[c].count = answer[c].count + 1
            \/ phase'[c] = "answered"
         /\ answer'[c].from = answer[c].from
         /\ UNCHANGED <<ask, decided, told, polls>>
         /\ \A d \in Callers : d # c => Alone(d)
<1>0. answer[c] \in Answers
  BY DEF TypeOK
<1>1. CASE WriteResult(c)
  BY <1>0, <1>1 DEF WriteResult, TypeOK, Alone, Same, Answers
<1>2. CASE FailStream(c)
  BY <1>2 DEF FailStream, TypeOK, Alone, Same
<1>3. ASSUME NEW r, Reply(c, r), r.from = answer[c].from, phase[c] = "streaming",
             UNCHANGED <<up, version, ask, decided, told, polls>>
      PROVE  /\ phase'[c] = "answered" /\ answer'[c].from = answer[c].from
             /\ \A d \in Callers : d # c => Alone(d)
  BY <1>3 DEF Reply, TypeOK, Alone, Same
<1>4. CASE EndStream(c)
  <2> DEFINE r == [answer[c] EXCEPT !.report = ask[c].report]
  <2>1. Reply(c, r) /\ r.from = answer[c].from
    BY <1>0, <1>4 DEF EndStream, Answers
  <2> HIDE DEF r
  <2> QED  BY <1>3, <1>4, <2>1 DEF EndStream
<1>5. CASE Cut(c)
  <2> DEFINE r == [answer[c] EXCEPT !.whole = FALSE]
  <2>1. Reply(c, r) /\ r.from = answer[c].from
    BY <1>0, <1>5 DEF Cut, Answers
  <2> HIDE DEF r
  <2> QED  BY <1>3, <1>5, <2>1 DEF Cut
<1> QED  BY <1>1, <1>2, <1>4, <1>5 DEF Streams

LEMMA ProxyAt ==
  ASSUME TypeOK, NEW c \in Callers, Intercept(c) \/ GatewayTimeout(c)
  PROVE  /\ \/ phase[c] = "sent"
            \/ phase[c] \in {"streaming", "answered"} /\ answer[c].from = "server"
         /\ phase'[c] = "answered" /\ answer'[c].from = "proxy"
         /\ UNCHANGED <<ask, decided, told, polls>>
         /\ \A d \in Callers : d # c => Alone(d)
<1>1. CASE Intercept(c)
  <2>1. PICK a \in ProxyAnswers : Reply(c, a)
    BY <1>1 DEF Intercept
  <2>2. a.from = "proxy"
    BY DEF ProxyAnswers, Answer
  <2> QED  BY <1>1, <2>1, <2>2 DEF Intercept, Reply, TypeOK, Alone, Same
<1>2. CASE GatewayTimeout(c)
  <2> DEFINE a == Answer("proxy", 504, "text", "none", << >>, 0)
  <2>1. a.from = "proxy" /\ Reply(c, a)
    BY <1>2 DEF GatewayTimeout, Answer
  <2> HIDE DEF a
  <2> QED  BY <1>2, <2>1 DEF GatewayTimeout, Reply, TypeOK, Alone, Same
<1> QED  BY <1>1, <1>2

\* A call that returns polls once more, or is told.
LEMMA ReturnAt ==
  ASSUME TypeOK, NEW c \in Callers, NEW t, Return(c, t), UNCHANGED <<up, version, ask>>
  PROVE  /\ \/ /\ polls[c] > 0 /\ polls'[c] = polls[c] - 1 /\ phase'[c] = "sent"
               /\ decided'[c] = NotRun /\ told' = told /\ ask[c].fn = "WaitReady"
            \/ /\ polls' = polls /\ phase'[c] = "told" /\ decided' = decided
               /\ answer' = answer
               /\ told'[c] = t \/ (told'[c] = [t EXCEPT !.kind = "gaveUp"] /\ t.kind # "value")
         /\ \A d \in Callers : d # c => Alone(d)
<1>1. CASE ~(ask[c].fn = "WaitReady" /\ t.kind # "value" /\ ~settled(t))
  BY <1>1 DEF Return, TypeOK, Alone, Same
<1>2. CASE ask[c].fn = "WaitReady" /\ t.kind # "value" /\ ~settled(t) /\ polls[c] > 0
  BY <1>2 DEF Return, TypeOK, Alone, Same
<1>3. CASE ask[c].fn = "WaitReady" /\ t.kind # "value" /\ ~settled(t) /\ ~(polls[c] > 0)
  BY <1>3 DEF Return, TypeOK, Alone, Same
<1> QED  BY <1>1, <1>2, <1>3

LEMMA EndsAt ==
  ASSUME NEW c \in Callers, Ends(c)
  PROVE  /\ Underway(c)
         /\ \/ phase[c] = "answered" /\ c \in Clients
                 /\ Return(c, Read(ask[c].fn, ask[c].op, ask[c].output, answer[c]))
            \/ c \notin Clients /\ \E t : Return(c, t)
            \/ Return(c, Failed)
         /\ UNCHANGED <<up, version, ask>>
  BY DEF Ends, Deliver, Lose, Underway

\* One step of a call under way brings it nearer to its end.
LEMMA Nearer ==
  ASSUME IInv, NEW c \in Callers, Underway(c), Ways(c) \/ Ends(c)
  PROVE  Before(Place(c)', Place(c))
<1>1. TypeOK /\ AnswerFits(c)
  BY Apart DEF Fits
<1>2. /\ polls[c] \in Nat /\ answer[c].count \in Nat /\ Length(c) \in Nat
  <2>1. decided[c].count \in Nat /\ polls[c] \in Nat /\ answer[c].count \in Nat
    BY <1>1, ExchangeAssumption DEF TypeOK, Decisions, Answers
  <2> QED  BY <2>1, LengthIs
<1>3. polls'[c] < polls[c] => Before(Place(c)', Place(c))
  BY DEF Before, Place
<1>4. polls'[c] = polls[c] /\ Legs(c)' < Legs(c) => Before(Place(c)', Place(c))
  BY DEF Before, Place
<1>5. CASE RefuseEarly(c)
  <2>1. phase[c] = "sent" /\ phase'[c] = "answered" /\ polls'[c] = polls[c]
    BY <1>1, <1>5, EarlyAt
  <2> QED  BY <1>4, <2>1 DEF Legs
<1>6. CASE Handle(c)
  <2>1. phase[c] = "sent" /\ phase'[c] \in {"streaming", "answered"} /\ polls'[c] = polls[c]
    BY <1>1, <1>6, HandleAt
  <2> QED  BY <1>4, <2>1 DEF Legs
<1>7. CASE Streams(c)
  <2>1. /\ phase[c] = "streaming" /\ polls'[c] = polls[c]
        /\ ask' = ask /\ decided' = decided
        /\ \/ /\ phase'[c] = "streaming" /\ answer[c].count < Length(c)
              /\ answer'[c].count = answer[c].count + 1
           \/ phase'[c] = "answered"
    BY <1>1, <1>7, StreamsAt
  <2>2. CASE phase'[c] = "answered"
    BY <1>4, <2>1, <2>2 DEF Legs
  <2>3. CASE phase'[c] = "streaming" /\ answer'[c].count = answer[c].count + 1
    <3>1. Length(c)' = Length(c)
      BY <2>1 DEF Length
    <3>2. Left(c)' < Left(c) /\ Legs(c)' = Legs(c)
      <4>1. Left(c) = Length(c) - answer[c].count
        BY <2>1 DEF Left
      <4>2. Left(c)' = Length(c) - (answer[c].count + 1)
        BY <2>3, <3>1 DEF Left
      <4>3. Legs(c)' = Legs(c)
        BY <2>1, <2>3 DEF Legs
      <4> QED  BY <1>2, <4>1, <4>2, <4>3
    <3> QED  BY <2>1, <3>2 DEF Before, Place
  <2> QED  BY <2>1, <2>2, <2>3
<1>8. CASE Intercept(c) \/ GatewayTimeout(c)
  <2>1. /\ phase[c] = "sent" \/ (phase[c] \in {"streaming", "answered"} /\ answer[c].from = "server")
        /\ phase'[c] = "answered" /\ answer'[c].from = "proxy" /\ polls'[c] = polls[c]
    BY <1>1, <1>8, ProxyAt
  <2> QED  BY <1>4, <2>1 DEF Legs
<1>9. CASE Ends(c)
  <2>1. PICK t : Return(c, t)
    BY <1>9, EndsAt
  <2>2. UNCHANGED <<up, version, ask>>
    BY <1>9, EndsAt
  <2>3. \/ polls[c] > 0 /\ polls'[c] = polls[c] - 1
        \/ polls' = polls /\ phase'[c] = "told"
    BY <1>1, <2>1, <2>2, ReturnAt
  <2>4. CASE polls[c] > 0 /\ polls'[c] = polls[c] - 1
    BY <1>2, <1>3, <2>4
  <2>5. CASE polls' = polls /\ phase'[c] = "told"
    BY <1>4, <2>5 DEF Legs, Underway
  <2> QED  BY <2>3, <2>4, <2>5
<1> QED  BY <1>5, <1>6, <1>7, <1>8, <1>9 DEF Ways

LEMMA OthersAlone ==
  ASSUME TypeOK, NEW c \in Callers, Begins(c) \/ Ways(c) \/ Ends(c) \/ LateRun(c), NEW d \in Callers, d # c
  PROVE  Alone(d)
<1>1. CASE Begins(c)
  BY <1>1, BeginsAlone
<1>2. CASE Ways(c)
  BY <1>2, EarlyAt, HandleAt, StreamsAt, ProxyAt DEF Ways
<1>3. CASE Ends(c)
  <2>1. PICK t : Return(c, t)
    BY <1>3, EndsAt
  <2> QED  BY <1>3, <2>1, EndsAt, ReturnAt
<1>4. CASE LateRun(c)
  BY <1>4, LateRunAt
<1> QED  BY <1>1, <1>2, <1>3, <1>4

\* Every step that touches a call under way brings it nearer to its end: however many
\* polls, results and proxies, no leg of it is gone twice without a poll spent, and no
\* poll is won back (client/read.go:71).
THEOREM CallsDescend == Spec => CallsRunDown
<1> DEFINE Nears(c) ==
             \/ UNCHANGED <<phase[c], ask[c], decided[c], answer[c], told[c], polls[c]>>
             \/ Before(Place(c)', Place(c))
<1>1. IInv /\ [Next]_vars => \A c \in Callers : Underway(c) => Nears(c)
  <2>1. SUFFICES ASSUME IInv, [Next]_vars, NEW c \in Callers, Underway(c)
                 PROVE  Nears(c)
    OBVIOUS
  <2>2. Alone(c) => Nears(c)
    BY DEF Alone, Same
  <2>3. CASE UNCHANGED vars
    BY <2>3 DEF vars
  <2>4. CASE Rests
    BY <2>2, <2>4, RestsAlone
  <2>5. ASSUME NEW d \in Callers, Begins(d) \/ Ways(d) \/ Ends(d) \/ LateRun(d)
        PROVE  Nears(c)
    <3>1. CASE d # c
      BY <2>1, <2>2, <2>5, <3>1, Apart, OthersAlone
    <3>2. CASE d = c
      <4>1. ~Begins(c) /\ ~LateRun(c)
        BY <2>1 DEF Begins, Call, Request, Opens, Revalidate, Forget, LateRun, Underway
      <4> QED  BY <2>1, <2>5, <3>2, <4>1, Nearer
    <3> QED  BY <3>1, <3>2
  <2> QED  BY <2>1, <2>3, <2>4, <2>5, NextIs
<1> QED  BY <1>1, Inductive, PTL DEF Spec, CallsRunDown

\* Where a call stands is counted in naturals, so that it cannot go on being brought
\* nearer: no call goes on for ever but by standing still (client/read.go:71).
THEOREM CallsAreBounded ==
    Spec => [](\A c \in Callers :
                  Place(c) \in (0 .. MaxPolls) \X (0 .. 4) \X Nat)
<1>1. IInv => \A c \in Callers : Place(c) \in (0 .. MaxPolls) \X (0 .. 4) \X Nat
  <2>1. SUFFICES ASSUME IInv, NEW c \in Callers
                 PROVE  /\ polls[c] \in 0 .. MaxPolls /\ Legs(c) \in 0 .. 4
                        /\ Left(c) \in Nat
    BY DEF Place
  <2>2. TypeOK /\ AnswerFits(c)
    BY <2>1, Apart DEF Fits
  <2>3. decided[c].count \in Nat /\ answer[c].count \in Nat
    BY <2>2 DEF TypeOK, Decisions, Answers
  <2>4. Length(c) \in Nat
    BY <2>3, LengthIs
  <2>5. phase[c] = "streaming" => answer[c].count <= Length(c)
    BY <2>2 DEF AnswerFits, Serves
  <2>6. Left(c) \in Nat
    BY <2>3, <2>4, <2>5 DEF Left
  <2>7. Legs(c) \in 0 .. 4
    BY DEF Legs
  <2> QED  BY <2>2, <2>6, <2>7 DEF TypeOK
<1> QED  BY <1>1, Inductive, PTL

-----------------------------------------------------------------------------
(* The exchange implements the remote call.                                *)

AllAsked == [c \in Clients |-> AskedOf(c)]
AllRan == [c \in Clients |-> RanOf(c)]
AllHeard == [c \in Clients |-> HeardOf(c)]

LooksSame(c) ==
    AskedOf(c)' = AskedOf(c) /\ RanOf(c)' = RanOf(c) /\ HeardOf(c)' = HeardOf(c)

LEMMA AloneLooksSame ==
  ASSUME NEW c \in Clients, Same(c)
  PROVE  LooksSame(c)
<1>1. Length(c)' = Length(c)
  BY DEF Same, Length
<1> QED  BY <1>1 DEF Same, LooksSame, AskedOf, RanOf, HeardOf

\* A step of one client changes what the caller sees at that client.
LEMMA LookAt ==
  ASSUME NEW c \in Clients, \A d \in Clients : d # c => LooksSame(d)
  PROVE  /\ AllAsked' = [AllAsked EXCEPT ![c] = AskedOf(c)']
         /\ AllRan' = [AllRan EXCEPT ![c] = RanOf(c)']
         /\ AllHeard' = [AllHeard EXCEPT ![c] = HeardOf(c)']
         /\ AskedOf(c)' = AskedOf(c) => AllAsked' = AllAsked
         /\ RanOf(c)' = RanOf(c) => AllRan' = AllRan
         /\ HeardOf(c)' = HeardOf(c) => AllHeard' = AllHeard
         /\ AllAsked[c] = AskedOf(c) /\ AllRan[c] = RanOf(c) /\ AllHeard[c] = HeardOf(c)
         /\ AllRan'[c] = RanOf(c)'
<1> DEFINE A(d) == AskedOf(d)  B(d) == RanOf(d)  H(d) == HeardOf(d)
<1>1. \A d \in Clients : d # c => A(d)' = A(d) /\ B(d)' = B(d) /\ H(d)' = H(d)
  BY DEF LooksSame
<1>2. /\ AllAsked = [d \in Clients |-> A(d)] /\ AllAsked' = [d \in Clients |-> A(d)']
      /\ AllRan = [d \in Clients |-> B(d)] /\ AllRan' = [d \in Clients |-> B(d)']
      /\ AllHeard = [d \in Clients |-> H(d)] /\ AllHeard' = [d \in Clients |-> H(d)']
  BY DEF AllAsked, AllRan, AllHeard
<1> HIDE DEF A, B, H
<1>3. AllAsked' = [AllAsked EXCEPT ![c] = A(c)']
  BY <1>1, <1>2
<1>4. AllRan' = [AllRan EXCEPT ![c] = B(c)']
  BY <1>1, <1>2
<1>5. AllHeard' = [AllHeard EXCEPT ![c] = H(c)']
  BY <1>1, <1>2
<1>6. /\ A(c)' = A(c) => AllAsked' = AllAsked
      /\ B(c)' = B(c) => AllRan' = AllRan
      /\ H(c)' = H(c) => AllHeard' = AllHeard
  BY <1>1, <1>2
<1>7. /\ AllAsked[c] = A(c) /\ AllRan[c] = B(c) /\ AllHeard[c] = H(c) /\ AllRan'[c] = B(c)'
  BY <1>2
<1> QED  BY <1>3, <1>4, <1>5, <1>6, <1>7 DEF A, B, H

\* What was run for a client is what it asked, and what was not yielded nothing.
RanIsMeant ==
    \A c \in Clients :
        /\ decided[c] = NotRun => RanOf(c) = Remote!NotRun
        /\ decided[c] # NotRun => RanOf(c).what = AskedOf(c).what
        /\ decided[c].outcome \in {"none", "done", "unauthenticated"} \cup LibErrors
        /\ Length(c) \in Nat
        /\ phase[c] # "idle" => AskedOf(c) # Remote!NoCall
        /\ phase[c] # "told" => HeardOf(c) = Remote!Unheard
        /\ phase[c] = "told" => HeardOf(c) # Remote!Unheard

\* The scope and the id a function means are those its operation carries.
LEMMA FunctionMeans ==
  ASSUME NEW fn \in Functions, NEW s, NEW i
  PROVE  LET op == OperationOf(fn, s) IN
         /\ ScopeOf(op, s) = MeantScope(fn, s)
         /\ IdOf(op, i) = IF fn \in ById THEN i ELSE "none"
         /\ Means[fn] # "none"
<1> USE DEF ByScope, MeantScope, ScopeOf, ById, IdOf, Queries, Contents, ClaimReads, InBranch, InArchive
<1> DEFINE op == OperationOf(fn, s)
<1>0. Means[fn] # "none"
  BY FunctionsAre DEF Means, FunctionNames
<1>1. CASE fn = "GetClaim"
  <2>1. op = GetClaimOp(s)
    BY <1>1 DEF OperationOf
  <2> QED  BY <1>0, <1>1, <2>1 DEF GetClaimOp
<1>2. CASE fn = "GetContent"
  <2>1. op = GetContentOp(s)
    BY <1>2 DEF OperationOf
  <2> QED  BY <1>0, <1>2, <2>1 DEF GetContentOp
<1>3. CASE fn \in FunctionNames \ {"GetClaim", "GetContent"}
  <2>1. op = OneRoute[fn]
    BY <1>3 DEF OperationOf
  <2> QED  BY <1>0, <1>3, <2>1, RoutesOfFunctions DEF FunctionNames
<1> QED  BY <1>1, <1>2, <1>3, FunctionsAre DEF FunctionNames

LEMMA IsMeant ==
  ASSUME IInv
  PROVE  RanIsMeant
<1>1. SUFFICES ASSUME NEW c \in Clients
               PROVE  /\ decided[c] = NotRun => RanOf(c) = Remote!NotRun
                      /\ decided[c] # NotRun => RanOf(c).what = AskedOf(c).what
                      /\ decided[c].outcome \in {"none", "done", "unauthenticated"} \cup LibErrors
                      /\ Length(c) \in Nat
                      /\ phase[c] # "idle" => AskedOf(c) # Remote!NoCall
                      /\ phase[c] # "told" => HeardOf(c) = Remote!Unheard
                      /\ phase[c] = "told" => HeardOf(c) # Remote!Unheard
  BY DEF RanIsMeant
<1> DEFINE fn == ask[c].fn
           op == ask[c].op
           req == RunOf(ask[c])
<1>2. c \in Callers /\ TypeOK /\ AskFits(c) /\ RunFits(c)
  BY Apart DEF Fits, Callers
<1>3. decided[c] \in Decisions /\ told[c] \in Results
  BY <1>2 DEF TypeOK
<1>4. Length(c) \in Nat
  BY <1>2, <1>3, LengthIs DEF Decisions
<1>5. ASSUME decided[c] = NotRun PROVE RanOf(c) = Remote!NotRun
  <2>1. decided[c].count = 0
    BY <1>5 DEF NotRun
  <2> DEFINE k == RecordsOf(KindOf(Pinned(ask[c].output)), RouteLength)
  <2>2. k \in Nat
    BY ExchangeAssumption DEF RecordsOf
  <2>3. Length(c) = IF ask[c].op = "Query" THEN decided[c].count * k ELSE decided[c].count
    BY DEF Length
  <2> HIDE DEF k
  <2>4. Length(c) = 0
    BY <2>1, <2>2, <2>3
  <2> QED  BY <1>5, <2>4 DEF RanOf, Remote!NotRun, NotRun
<1>6. ASSUME phase[c] # "idle"
      PROVE  /\ AskedOf(c) = Meant(fn, ask[c].scope, ask[c].id)
             /\ fn \in Functions /\ op = OperationOf(fn, ask[c].scope) /\ op \in Operations
  BY <1>2, <1>6 DEF AskFits, AskedOf
<1>7. ASSUME decided[c] # NotRun PROVE RanOf(c).what = AskedOf(c).what
  <2>1. phase[c] # "idle" /\ decided[c].core = req.core /\ decided[c].scope = req.scope
        /\ decided[c].id = req.id
    BY <1>2, <1>7 DEF RunFits
  <2>2. req = CoreRequest(CoreOf[op], ScopeOf(op, ask[c].scope), IdOf(op, ask[c].id))
    BY <1>6, <2>1, HandledIs
  <2> HIDE DEF req
  <2>3. /\ CoreOf[op] = Means[fn]
        /\ ScopeOf(op, ask[c].scope) = MeantScope(fn, ask[c].scope)
        /\ IdOf(op, ask[c].id) = IF fn \in ById THEN ask[c].id ELSE "none"
    BY <1>6, <2>1, FunctionAsks, FunctionMeans
  <2>4. RanOf(c).what = CoreRequest(CoreOf[op], ScopeOf(op, ask[c].scope), IdOf(op, ask[c].id))
    BY <2>1, <2>2 DEF RanOf, CoreRequest
  <2>5. AskedOf(c).what = CoreRequest(Means[fn], MeantScope(fn, ask[c].scope),
                                      IF fn \in ById THEN ask[c].id ELSE "none")
    BY <1>6, <2>1 DEF Meant
  <2> QED  BY <2>3, <2>4, <2>5
<1>8. ASSUME phase[c] # "idle" PROVE AskedOf(c) # Remote!NoCall
  <2>1. AskedOf(c).what.core = Means[fn] /\ Means[fn] # "none"
    BY <1>6, <1>8, FunctionMeans DEF Meant, CoreRequest
  <2>2. Remote!NoCall.what.core = "none"
    BY DEF Remote!NoCall, CoreRequest
  <2> QED  BY <2>1, <2>2
<1>9. phase[c] # "told" => HeardOf(c) = Remote!Unheard
  BY DEF HeardOf, Remote!Unheard
<1>10. phase[c] = "told" => HeardOf(c).as # "nothing"
  <2>1. told[c].sentinel # "nothing"
    BY <1>3 DEF Results, Categories
  <2> QED  BY <2>1 DEF HeardOf
<1>11. phase[c] = "told" => HeardOf(c) # Remote!Unheard
  BY <1>10 DEF Remote!Unheard
<1> QED  BY <1>3, <1>4, <1>5, <1>7, <1>8, <1>9, <1>11 DEF Decisions

RemoteStep(c) ==
    \/ Remote!Ask(c) \/ Remote!Run(c) \/ Remote!Hear(c)
    \/ Remote!Miss(c) \/ Remote!Again(c) \/ Remote!Forget(c)

Unseen == UNCHANGED <<AllAsked, AllRan, AllHeard>>

LEMMA NobodyLooks ==
  ASSUME \A c \in Clients : LooksSame(c)
  PROVE  Unseen
<1>1. CASE Clients = {}
  BY <1>1 DEF Unseen, AllAsked, AllRan, AllHeard
<1>2. CASE Clients # {}
  BY <1>2, LookAt DEF Unseen, LooksSame
<1> QED  BY <1>1, <1>2

LEMMA BeginsShown ==
  ASSUME IInv, IInv', RanIsMeant, RanIsMeant', NEW c \in Clients, Begins(c),
         \A d \in Clients : d # c => LooksSame(d)
  PROVE  RemoteStep(c)
<1>1. c \in Callers /\ c \notin Others /\ TypeOK /\ RunFits(c) /\ TellFits(c)
  BY Apart, ExchangeAssumption DEF Fits, Callers
<1>2. CASE Call(c)
  <2>1. PICK fn \in Functions, id \in Ids, scope \in Scopes \cup {"none"} :
          \E a : Sends(c, a) /\ a.fn = fn /\ a.scope = scope /\ a.id = id
    <3>1. PICK fn \in Functions, id \in Ids, report \in BOOLEAN :
            /\ fn \notin {"Query", "QueryRaw"} => ~report
            /\ \E scope \in IF fn \in ByScope THEN Scopes ELSE {"none"},
                  output \in CASE fn = "Query" -> {o \in Outputs : routesAreReadable(o)}
                               [] fn = "QueryRaw" -> Outputs
                               [] OTHER -> {QueryClaimsOutput} :
                  Sends(c, [NoAsk EXCEPT !.fn = fn, !.op = OperationOf(fn, scope), !.scope = scope,
                                         !.id = id, !.output = output, !.report = report])
            /\ polls' = [polls EXCEPT ![c] = IF fn = "WaitReady" THEN MaxPolls ELSE 0]
      BY <1>2 DEF Call
    <3>2. PICK scope \in IF fn \in ByScope THEN Scopes ELSE {"none"} :
            \E output :
              Sends(c, [NoAsk EXCEPT !.fn = fn, !.op = OperationOf(fn, scope), !.scope = scope,
                                     !.id = id, !.output = output, !.report = report])
      BY <3>1
    <3>3. PICK output :
            Sends(c, [NoAsk EXCEPT !.fn = fn, !.op = OperationOf(fn, scope), !.scope = scope,
                                   !.id = id, !.output = output, !.report = report])
      BY <3>2
    <3> DEFINE a == [NoAsk EXCEPT !.fn = fn, !.op = OperationOf(fn, scope), !.scope = scope,
                                  !.id = id, !.output = output, !.report = report]
    <3>4. Sends(c, a)
      BY <3>3
    <3>5. a.fn = fn /\ a.scope = scope /\ a.id = id
      BY DEF NoAsk
    <3> HIDE DEF a
    <3> QED  BY <3>4, <3>5
  <2>2. PICK a : Sends(c, a) /\ a.fn = fn /\ a.scope = scope /\ a.id = id
    BY <2>1
  <2>3. /\ phase[c] = "idle" /\ phase'[c] = "sent" /\ ask'[c] = a /\ decided'[c] = NotRun
        /\ decided[c] = NotRun
    BY <1>1, <1>2, <2>2 DEF Call, Opens, Sends, TypeOK, RunFits
  <2>4. AskedOf(c) = Remote!NoCall /\ AskedOf(c)' = Meant(fn, scope, id)
    BY <2>3, <2>2 DEF AskedOf, Remote!NoCall
  <2>5. RanOf(c)' = RanOf(c) /\ HeardOf(c)' = HeardOf(c)
    BY <2>3 DEF RanIsMeant, HeardOf
  <2>6. Remote!Ask(c)
    <3> DEFINE m == Meant(fn, scope, id)
    <3>1. m \in AllMeant
      BY <2>1 DEF AllMeant
    <3>2. /\ AllAsked[c] = Remote!NoCall /\ AllAsked' = [AllAsked EXCEPT ![c] = m]
          /\ AllRan' = AllRan /\ AllHeard' = AllHeard
      BY <2>4, <2>5, LookAt
    <3> HIDE DEF m
    <3>3. /\ AllAsked[c] = Remote!NoCall
          /\ \E x \in AllMeant : AllAsked' = [AllAsked EXCEPT ![c] = x]
          /\ UNCHANGED <<AllRan, AllHeard>>
      BY <3>1, <3>2
    <3> QED  BY <3>3 DEF Remote!Ask, AllAsked, AllRan, AllHeard
  <2> QED  BY <2>6 DEF RemoteStep
<1>3. CASE Forget(c)
  <2>1. phase[c] = "told" /\ phase'[c] = "idle" /\ decided'[c] = NotRun
    BY <1>1, <1>3 DEF Forget, TypeOK
  <2>2. /\ AskedOf(c)' = Remote!NoCall /\ RanOf(c)' = Remote!NotRun
        /\ HeardOf(c)' = Remote!Unheard /\ HeardOf(c) # Remote!Unheard
    BY <2>1 DEF RanIsMeant, AskedOf, Remote!NoCall
  <2>3. Remote!Forget(c)
    BY <2>2, LookAt DEF Remote!Forget, AllAsked, AllRan, AllHeard
  <2> QED  BY <2>3 DEF RemoteStep
<1> QED  BY <1>1, <1>2, <1>3 DEF Begins, Request, Revalidate, TellFits

\* What core runs for a call is what its function means, and is run for it once.
LEMMA RunShown ==
  ASSUME RanIsMeant, RanIsMeant', NEW c \in Clients,
         \A d \in Clients : d # c => LooksSame(d),
         decided[c] = NotRun, decided'[c].outcome # "none",
         AskedOf(c)' = AskedOf(c), AskedOf(c) # Remote!NoCall, HeardOf(c)' = HeardOf(c),
         HeardOf(c) \in {Remote!Unheard, Remote!Elsewhere}
  PROVE  Remote!Run(c)
<1> DEFINE Endings == {"done", "unauthenticated"} \cup LibErrors
           e == decided'[c].outcome
           y == Length(c)'
<1>1. decided'[c] # NotRun
  BY DEF NotRun
<1>2. /\ RanOf(c)'.what = AskedOf(c).what /\ y \in Nat
      /\ e \in {"none", "done", "unauthenticated"} \cup LibErrors
      /\ RanOf(c) = Remote!NotRun
  BY <1>1 DEF RanIsMeant
<1>3. RanOf(c)' = [what |-> AskedOf(c).what, ending |-> e, yield |-> y] /\ e \in Endings
  BY <1>2 DEF RanOf
<1>4. /\ AllAsked[c] # Remote!NoCall /\ AllHeard[c] \in {Remote!Unheard, Remote!Elsewhere}
      /\ AllRan[c] = Remote!NotRun
      /\ AllAsked' = AllAsked /\ AllHeard' = AllHeard
  BY <1>2, LookAt
<1>5. AllRan'[c].yield = y /\ y \in Nat
  BY <1>2, <1>3, LookAt
<1>6. AllRan' = [AllRan EXCEPT ![c] = [what |-> AllAsked[c].what, ending |-> e, yield |-> y]]
  BY <1>3, LookAt
<1>7. e \in Endings
  BY <1>3
<1> HIDE DEF e, y, Endings
<1>8. \E ending \in Endings :
        AllRan' = [AllRan EXCEPT ![c] = [what |-> AllAsked[c].what, ending |-> ending,
                                         yield |-> AllRan'[c].yield]]
  BY <1>5, <1>6, <1>7
<1> QED  BY <1>4, <1>5, <1>8 DEF Remote!Run, AllAsked, AllRan, AllHeard, Endings

LEMMA LateRunShown ==
  ASSUME IInv, IInv', RanIsMeant, RanIsMeant', NEW c \in Clients, LateRun(c),
         \A d \in Clients : d # c => LooksSame(d)
  PROVE  RemoteStep(c)
<1>1. c \in Callers /\ TypeOK
  BY Apart DEF Callers
<1>2. /\ phase[c] = "told" /\ told[c].from # "server" /\ decided[c] = NotRun
      /\ decided'[c].outcome # "none" /\ UNCHANGED <<phase, ask, answer, told, polls>>
  BY <1>1, LateRunAt
<1>3. /\ AskedOf(c)' = AskedOf(c) /\ AskedOf(c) # Remote!NoCall
      /\ HeardOf(c)' = HeardOf(c) /\ HeardOf(c) = Remote!Elsewhere
  BY <1>2 DEF RanIsMeant, AskedOf, HeardOf, Remote!Elsewhere
<1> QED  BY <1>2, <1>3, RunShown DEF RemoteStep

LEMMA WaysShown ==
  ASSUME IInv, IInv', RanIsMeant, RanIsMeant', NEW c \in Clients, Ways(c),
         \A d \in Clients : d # c => LooksSame(d)
  PROVE  RemoteStep(c) \/ Unseen
<1>1. /\ c \in Callers /\ TypeOK /\ AskFits(c) /\ RunFits(c) /\ RunFits(c)'
      /\ AskFits(c)' /\ AnswerFits(c)'
  BY Apart DEF Fits, Callers, IInv
<1>2. CASE RefuseEarly(c)
  BY <1>1, <1>2 DEF RefuseEarly, AskFits
<1>3. CASE Handle(c)
  <2>1. phase[c] = "sent" /\ phase'[c] \in {"streaming", "answered"} /\ ask' = ask
        /\ answer'[c].from = "server"
    BY <1>1, <1>3, HandleAt
  <2>2. decided[c] = NotRun /\ decided'[c].outcome # "none"
    <3>1. Refuses(c)' \/ Serves(c)'
      BY <1>1, <2>1 DEF AnswerFits
    <3> QED  BY <1>1, <2>1, <3>1 DEF RunFits, Refuses, Serves, Categories
  <2>3. decided'[c] # NotRun
    BY <2>2 DEF NotRun
  <2>4. /\ AskedOf(c)' = AskedOf(c) /\ AskedOf(c) # Remote!NoCall
        /\ HeardOf(c)' = HeardOf(c) /\ HeardOf(c) = Remote!Unheard
        /\ RanOf(c) = Remote!NotRun
    BY <2>1, <2>2 DEF RanIsMeant, AskedOf, HeardOf
  <2> QED  BY <1>1, <2>2, <2>4, RunShown DEF RemoteStep
<1>4. CASE Streams(c) \/ Intercept(c) \/ GatewayTimeout(c)
  <2>1. /\ phase[c] \notin {"idle", "told"} /\ phase'[c] \notin {"idle", "told"}
        /\ UNCHANGED <<ask, decided, told, polls>>
    BY <1>1, <1>4, StreamsAt, ProxyAt
  <2>2. LooksSame(c)
    <3>1. Length(c)' = Length(c)
      BY <2>1 DEF Length
    <3> QED  BY <2>1, <3>1 DEF LooksSame, AskedOf, RanOf, HeardOf
  <2> QED  BY <2>2, NobodyLooks
<1> QED  BY <1>2, <1>3, <1>4 DEF Ways

\* A client that is told by the server hears what came of its run: of a value, all of
\* it, or what its stream carried.
LEMMA HeardIsRun ==
  ASSUME IInv, NEW c \in Clients, phase[c] = "answered", NEW t,
         t = Read(ask[c].fn, ask[c].op, ask[c].output, answer[c]), t.from = "server"
  PROVE  /\ decided[c].outcome # "none"
         /\ t.kind = "value" =>
               /\ t.count \in 0 .. Length(c)
               /\ ask[c].fn \in Streamed \/ t.count = Length(c)
<1> DEFINE a == answer[c]
           fn == ask[c].fn
           op == ask[c].op
           whole == respond(op, ask[c].id, decided[c].count, ask[c])
<1>1. c \in Callers /\ TypeOK /\ AskFits(c) /\ AnswerFits(c)
  BY Apart DEF Fits, Callers
<1>2. /\ fn \in Functions /\ op = OperationOf(fn, ask[c].scope) /\ op \in Operations
      /\ ask[c].id \in Ids /\ ask[c].held = {} /\ ~ask[c].any
  BY <1>1 DEF AskFits
<1>3. a \in Answers /\ decided[c].count \in Nat
  BY <1>1 DEF TypeOK, Decisions
<1>4. Hears(t, fn, op, ask[c].output, a)
  <2>1. fn = "AdvanceClock" => op = "AdvanceDevClock"
    <3> HIDE DEF fn, op
    <3> QED  BY <1>2, FunctionAsks
  <2>2. Hears(Read(fn, op, ask[c].output, a), fn, op, ask[c].output, a)
    <3> HIDE DEF fn, op, a
    <3> QED  BY <1>2, <1>3, <2>1, ReadIs
  <2> QED  BY <2>2
<1>5. t # Failed
  BY DEF Failed, Told, NoAnswer, Answer
<1>6. a.from = "server" /\ t.count = a.count
  BY <1>4, <1>5 DEF Hears, Carries
<1>7. Refuses(c) \/ Serves(c)
  BY <1>1, <1>6 DEF AnswerFits
<1>8. decided[c].outcome # "none"
  BY <1>7 DEF Refuses, Serves, Categories
<1>9. ASSUME t.kind = "value"
      PROVE  t.count \in 0 .. Length(c) /\ (fn \in Streamed \/ t.count = Length(c))
  <2>1. Truthful(c, t)
    BY ClientTold
  <2>2. decided[c].outcome = "done"
    BY <1>9, <2>1 DEF Truthful
  <2>3. Serves(c)
    BY <1>7, <2>2 DEF Refuses, Categories
  <2>4. Length(c) \in Nat /\ a.count \in Nat
    BY <1>1, <1>3, LengthIs DEF Answers
  <2>5. fn \in Streamed <=> op \in Contents \cup {"Query"}
    <3> HIDE DEF fn, op
    <3> QED  BY <1>2, FunctionAsks DEF Streamed
  <2>6. op \in Contents \cup {"Query"} => InParts(c)
    <3>1. a.status = whole.status
      BY <2>3 DEF Serves
    <3>2. whole.status # 304
      <4>1. Decoders[op].success \in {200, 201, 202, 204}
        BY <1>2, DecodersAre
      <4>2. \A tag : ~matches(ask[c], tag)
        BY <1>2 DEF matches
      <4> QED  BY <1>2, <1>3, <4>1, <4>2, RespondIs
    <3>3. whole.status = 304 \/ whole.status = Decoders[op].success
      BY <1>2, <1>3, RespondIs
    <3> HIDE DEF whole
    <3>4. op \in Contents \cup {"Query"} => Decoders[op].success = 200
      BY <1>2, DecodersAre
    <3> QED  BY <1>2, <3>1, <3>2, <3>3, <3>4 DEF InParts
  <2>7. CASE InParts(c)
    <3>1. op \in Contents \cup {"Query"} /\ a.count <= Length(c)
      BY <2>3, <2>7 DEF InParts, Serves
    <3> QED  BY <1>6, <2>4, <2>5, <3>1
  <2>8. CASE ~InParts(c)
    <3>1. op # "Query" /\ a.count = decided[c].count
      BY <2>3, <2>6, <2>8 DEF Serves
    <3>2. Length(c) = decided[c].count
      BY <3>1 DEF Length
    <3> QED  BY <1>6, <2>4, <3>1, <3>2
  <2> QED  BY <2>7, <2>8
<1> QED  BY <1>8, <1>9

LEMMA EndsShown ==
  ASSUME IInv, IInv', RanIsMeant, RanIsMeant', NEW c \in Clients, Ends(c),
         \A d \in Clients : d # c => LooksSame(d)
  PROVE  RemoteStep(c)
<1>1. c \in Callers /\ TypeOK /\ AskFits(c)
  BY Apart DEF Fits, Callers
<1>2. Underway(c) /\ UNCHANGED <<up, version, ask>>
  BY <1>1, EndsAt
<1>3. PICK t : /\ Return(c, t)
               /\ \/ t = Failed
                  \/ /\ phase[c] = "answered"
                     /\ t = Read(ask[c].fn, ask[c].op, ask[c].output, answer[c])
  BY <1>1, EndsAt
<1>4. Truthful(c, t)
  BY <1>1, <1>3, ClientTold, FailedIsTruthful
<1>5. Failed.from = "nobody"
  BY DEF Failed, Told, NoAnswer, Answer
<1>6. AskedOf(c) # Remote!NoCall /\ HeardOf(c) = Remote!Unheard
  BY <1>2 DEF RanIsMeant, Underway
<1>7. CASE decided'[c] = NotRun /\ phase'[c] = "sent" /\ told' = told /\ ask[c].fn = "WaitReady"
  <2>1. AskedOf(c)' = AskedOf(c) /\ AskedOf(c).patient
    BY <1>2, <1>7 DEF AskedOf, Meant, Underway
  <2>2. HeardOf(c)' = HeardOf(c) /\ RanOf(c)' = Remote!NotRun
    BY <1>6, <1>7 DEF RanIsMeant
  <2>3. Remote!Again(c)
    BY <1>6, <2>1, <2>2, LookAt DEF Remote!Again, Remote!Pending, AllAsked, AllRan, AllHeard
  <2> QED  BY <2>3 DEF RemoteStep
<1>8. CASE /\ phase'[c] = "told" /\ decided' = decided
           /\ told'[c] = t \/ (told'[c] = [t EXCEPT !.kind = "gaveUp"] /\ t.kind # "value")
  <2>1. /\ told'[c].from = t.from /\ told'[c].sentinel = t.sentinel
        /\ told'[c].kind = "value" <=> t.kind = "value"
        /\ t.kind = "value" => told'[c].count = t.count
    BY <1>4, <1>8 DEF Truthful, Results
  <2>2. AskedOf(c)' = AskedOf(c) /\ RanOf(c)' = RanOf(c)
    <3>1. Length(c)' = Length(c)
      BY <1>2, <1>8 DEF Length
    <3> QED  BY <1>2, <1>8, <3>1 DEF AskedOf, RanOf, Underway
  <2>3. CASE t.from # "server"
    <3>1. HeardOf(c)' = [as |-> "elsewhere", got |-> 0]
      BY <1>8, <2>1, <2>3 DEF HeardOf
    <3>2. Remote!Miss(c)
      BY <1>6, <2>2, <3>1, LookAt
         DEF Remote!Miss, Remote!Pending, Remote!Returns, AllAsked, AllRan, AllHeard
    <3> QED  BY <3>2 DEF RemoteStep
  <2>4. CASE t.from = "server"
    <3>1. /\ phase[c] = "answered"
          /\ t = Read(ask[c].fn, ask[c].op, ask[c].output, answer[c])
      BY <1>3, <1>5, <2>4
    <3>2. /\ decided[c].outcome # "none"
          /\ t.kind = "value" =>
                t.count \in 0 .. Length(c) /\ (ask[c].fn \in Streamed \/ t.count = Length(c))
      BY <2>4, <3>1, HeardIsRun
    <3>3. RanOf(c) # Remote!NotRun
      BY <3>2 DEF RanOf, Remote!NotRun
    <3>4. RanOf(c).ending = decided[c].outcome /\ RanOf(c).yield = Length(c)
      BY DEF RanOf
    <3>5. AskedOf(c).streamed <=> ask[c].fn \in Streamed
      BY <1>2 DEF AskedOf, Meant, Underway
    <3>6. CASE t.kind = "value"
      <4>1. decided[c].outcome = "done"
        BY <1>4, <2>4, <3>6 DEF Truthful
      <4>2. HeardOf(c)' = [as |-> "value", got |-> t.count]
        BY <1>8, <2>1, <2>4, <3>6 DEF HeardOf
      <4>3. Remote!Hear(c)
        BY <1>6, <2>2, <3>2, <3>3, <3>4, <3>5, <3>6, <4>1, <4>2, LookAt
           DEF Remote!Hear, Remote!Pending, Remote!Returns, AllAsked, AllRan, AllHeard
      <4> QED  BY <4>3 DEF RemoteStep
    <3>7. CASE t.kind # "value"
      <4>1. decided[c].outcome # "done" /\ t.sentinel = byCode(decided[c].outcome)
        BY <1>4, <2>4, <3>7 DEF Truthful
      <4>2. HeardOf(c)' = [as |-> t.sentinel, got |-> 0]
        BY <1>8, <2>1, <2>4, <3>7 DEF HeardOf
      <4>3. Remote!Hear(c)
        <5> DEFINE s == IF AllRan[c].ending \in Categories THEN AllRan[c].ending ELSE "none"
        <5>1. /\ AllAsked[c] # Remote!NoCall /\ AllHeard[c] = Remote!Unheard
              /\ AllRan[c] # Remote!NotRun /\ AllRan[c].ending # "done"
              /\ AllAsked' = AllAsked /\ AllRan' = AllRan
          BY <1>6, <2>2, <3>3, <3>4, <4>1, LookAt
        <5>2. s = t.sentinel
          BY <3>4, <4>1, LookAt DEF byCode
        <5>3. AllHeard' = [AllHeard EXCEPT ![c] = [as |-> s, got |-> 0]]
          BY <4>2, <5>2, LookAt
        <5> QED  BY <5>1, <5>3
                 DEF Remote!Hear, Remote!Pending, Remote!Returns, AllAsked, AllRan, AllHeard
      <4> QED  BY <4>3 DEF RemoteStep
    <3> QED  BY <3>6, <3>7
  <2> QED  BY <2>3, <2>4
<1> QED  BY <1>1, <1>2, <1>3, <1>7, <1>8, ReturnAt

\* Through routes, handlers, streams, proxies and lost answers, a call of the client is
\* what its function says: run once at most, as what was asked, and answered with what
\* came of that run (client/read.go, client/errors.go:92, endpoints_read.go:97).
THEOREM ExchangeImplementsRemoteCall == Spec => ImplementsRemoteCall
<1>1. Init => Remote!Init
  <2>1. SUFFICES ASSUME Init PROVE Remote!Init
    OBVIOUS
  <2>2. IInv
    BY <2>1, InitFits
  <2>3. RanIsMeant
    BY <2>2, IsMeant
  <2>4. \A c \in Clients : /\ AskedOf(c) = Remote!NoCall /\ RanOf(c) = Remote!NotRun
                            /\ HeardOf(c) = Remote!Unheard
    <3>1. \A c \in Clients : phase[c] = "idle" /\ decided[c] = NotRun
      BY <2>1 DEF Init, Callers
    <3> QED  BY <2>3, <3>1 DEF RanIsMeant, AskedOf, Remote!NoCall
  <2> QED  BY <2>4 DEF Remote!Init
<1>2. Spec => []RanIsMeant
  BY IsMeant, Inductive, PTL
<1>3. IInv /\ IInv' /\ RanIsMeant /\ RanIsMeant' /\ [Next]_vars => [Remote!Next]_(Remote!cvars)
  <2>1. SUFFICES ASSUME IInv, IInv', RanIsMeant, RanIsMeant', [Next]_vars
                 PROVE  Remote!Next \/ Unseen
    BY DEF Unseen, AllAsked, AllRan, AllHeard, Remote!cvars
  <2>2. CASE UNCHANGED vars
    <3>1. \A c \in Clients : Same(c)
      BY <2>2 DEF vars, Same
    <3> QED  BY <3>1, AloneLooksSame, NobodyLooks
  <2>3. CASE Rests
    <3>1. \A c \in Clients : Same(c)
      BY <2>3, RestsAlone DEF Callers, Alone
    <3> QED  BY <3>1, AloneLooksSame, NobodyLooks
  <2>4. ASSUME NEW c \in Callers, Begins(c) \/ Ways(c) \/ Ends(c) \/ LateRun(c)
        PROVE  Remote!Next \/ Unseen
    <3>1. \A d \in Clients : d # c => LooksSame(d)
      BY <2>1, <2>4, Apart, OthersAlone, AloneLooksSame DEF Callers, Alone
    <3>2. CASE c \notin Clients
      BY <3>1, <3>2, NobodyLooks
    <3>3. CASE c \in Clients
      <4>1. RemoteStep(c) \/ Unseen
        BY <2>1, <2>4, <3>1, <3>3, BeginsShown, WaysShown, EndsShown, LateRunShown
      <4> QED  BY <3>3, <4>1 DEF RemoteStep, Remote!Next
    <3> QED  BY <3>2, <3>3
  <2> QED  BY <2>1, <2>2, <2>3, <2>4, NextIs
<1> QED  BY <1>1, <1>2, <1>3, Inductive, PTL DEF Spec, ImplementsRemoteCall, Remote!Spec

=============================================================================
