----------------------------- MODULE MCExchange -----------------------------
(* A client and a script before one server: a branch, the reserved scopes,  *)
(* one id; the client holds R on the branch and the archive.                *)
EXTENDS Exchange

CONSTANTS client, script, main, claim

MCReaders == {<<client, main>>, <<client, "$archive">>, <<script, main>>,
              <<script, "$branches">>}
=============================================================================
